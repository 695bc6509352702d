------------------------------- MODULE LoopEval -------------------------------
(***************************************************************************)
(* The loop interpreter of crates/loopir, written once for both of its     *)
(* number domains: interp_loops.rs over exact rationals and                *)
(* interp_loops_f64.rs over IEEE doubles.  Its scalar operations are the   *)
(* constants of TensorEval, the graph interpreter it is compared with.     *)
(* The memory is the sequence of the buffers' contents, each a function on *)
(* its flat offsets 0 .. numel - 1.                                        *)
(***************************************************************************)
EXTENDS TensorEval, LoopIR

-----------------------------------------------------------------------------
(* allocate_buffers: inputs and constants are copied in, temporaries zeroed. *)
AllocateError(buffer, env) ==
  CASE buffer.role = "Input" ->
         IF buffer.init \notin DOMAIN env                 THEN "MissingInput"
         ELSE IF env[buffer.init].shape # buffer.shape THEN "InputShapeMismatch"
         ELSE "None"
    [] buffer.role = "Const" ->
         IF \A k \in DOMAIN buffer.init : IsFinite(buffer.init[k])
         THEN "None" ELSE "NonFiniteFloat"
    [] buffer.role = "Temp" ->
         IF Numel(buffer.shape) = Overflow THEN "Internal" ELSE "None"

Contents(buffer, env) ==
  CASE buffer.role = "Input" -> env[buffer.init].data
    [] buffer.role = "Const" ->
         [i \in 0 .. (Len(buffer.init) - 1) |-> LiftLiteral(buffer.init[i + 1])]
    [] buffer.role = "Temp"  -> [i \in 0 .. (Numel(buffer.shape) - 1) |-> Zero]

AllocateNext(run, buffer, env) ==
  IF run.err # "None" THEN run
  ELSE IF AllocateError(buffer, env) # "None"
  THEN [run EXCEPT !.err = AllocateError(buffer, env)]
  ELSE [run EXCEPT !.memory = Append(@, Contents(buffer, env))]

Allocate(kernel, env) ==
  FoldLeft(LAMBDA run, buffer : AllocateNext(run, buffer, env),
           [err |-> "None", memory |-> << >>], kernel.buffers)

-----------------------------------------------------------------------------
(* Execution.  Every load and store checks its index.                       *)
InBounds(memory, ref, env) == EvalAffine(ref.index, env) \in DOMAIN memory[ref.buffer]

Scalar(op, v) ==
  CASE op = "Zero"   -> Zero
    [] op = "Add"    -> Plus(v[1], v[2])
    [] op = "Sub"    -> Minus(v[1], v[2])
    [] op = "Mul"    -> Times(v[1], v[2])
    [] op = "Neg"    -> Negate(v[1])
    [] op = "Relu"   -> IF IsPositive(v[1]) THEN v[1] ELSE Zero
    [] op = "MulAdd" -> Plus(v[1], Times(v[2], v[3]))

\* The assignment's value is computed first, then stored.
ExecAssign(run, assign, env) ==
  IF run.err # "None" THEN run
  ELSE IF \E ref \in Range(assign.loads) \cup {assign.target} :
            ~ InBounds(run.memory, ref, env)
  THEN [run EXCEPT !.err = "IndexOutOfBounds"]
  ELSE [run EXCEPT !.memory[assign.target.buffer]
                           [EvalAffine(assign.target.index, env)] =
          Scalar(assign.op,
                 [k \in DOMAIN assign.loads |->
                    run.memory[assign.loads[k].buffer]
                              [EvalAffine(assign.loads[k].index, env)]])]

\* A perfect nest of loops from zero runs its body once for every vector of the
\* loops' values, in lexicographic order.  A variable used by two levels has
\* the value the inner one gave it.
Extents(levels) == [k \in DOMAIN levels |-> levels[k].extent]

Innermost(levels, var) ==
  CHOOSE k \in DOMAIN levels :
     levels[k].var = var /\ \A j \in DOMAIN levels : levels[j].var = var => j <= k

LoopEnv(levels, counters) ==
  [var \in {levels[k].var : k \in DOMAIN levels} |-> counters[Innermost(levels, var)]]

Iteration(levels, t) == LoopEnv(levels, FlatToMulti(t, Extents(levels)))

ExecBody(run, body, env) ==
  FoldLeft(LAMBDA r, assign : ExecAssign(r, assign, env), run, body)

Trips(levels) == FoldLeft(LAMBDA p, d : p * d, 1, Extents(levels))

ExecNest(run, nest) ==
  FoldLeft(LAMBDA r, t : ExecBody(r, nest.body, Iteration(nest.levels, t - 1)),
           run, [t \in 1 .. Trips(nest.levels) |-> t])

-----------------------------------------------------------------------------
(* eval_loops and eval_loops_f64: [err, outputs].                           *)
OutputTensor(kernel, run, k) ==
  [shape |-> kernel.output_shapes[k], data |-> run.memory[kernel.outputs[k]]]

OutputError(kernel, run) ==
  IF run.err # "None" THEN run.err
  ELSE IF \E k \in DOMAIN kernel.outputs :
            Numel(kernel.output_shapes[k])
              # Cardinality(DOMAIN run.memory[kernel.outputs[k]])
  THEN "Internal" ELSE "None"

LoopOutputs(kernel, run) ==
  [err     |-> OutputError(kernel, run),
   outputs |-> IF OutputError(kernel, run) # "None" THEN << >>
               ELSE [k \in DOMAIN kernel.outputs |-> OutputTensor(kernel, run, k)]]

EvalLoops(kernel, env) ==
  LoopOutputs(kernel, FoldLeft(ExecNest, Allocate(kernel, env), kernel.body))

=============================================================================
