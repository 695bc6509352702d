------------------------------- MODULE EmittedC -------------------------------
(***************************************************************************)
(* What the C program of crates/codegen/src/emit_c.rs does when            *)
(* crates/codegen/src/bench.rs runs it: the caller writes the inputs to    *)
(* the program as one stream of values, the program reads them, runs the   *)
(* statements of the kernel over C arrays, and prints its outputs as one   *)
(* stream, which the caller cuts into tensors.                             *)
(*                                                                         *)
(* C differs from the loop interpreter in three ways.  Temporaries are     *)
(* local arrays that nothing initialises, nothing checks an index, and     *)
(* index arithmetic does not saturate.  A cell that has not been written   *)
(* is not in the domain of its array here; reading one, an index outside   *)
(* the array and an overflow may each have any outcome, and all outcomes   *)
(* stand together as the error Undefined.                                  *)
(* Each of the program's repetitions starts from fresh local arrays and    *)
(* overwrites the outputs, so that one of them stands for all.             *)
(***************************************************************************)
EXTENDS LoopEval

-----------------------------------------------------------------------------
(* emit_c: what it refuses, in the order in which it would meet it.         *)
SizeError(shape) ==
  IF Numel(shape) = Overflow THEN "Internal"
  ELSE IF Numel(shape) = 0   THEN "Unsupported"
  ELSE "None"

DeclarationError(buffer) ==
  CASE buffer.role = "Input" -> "None"         \* declared by main
    [] buffer.role = "Const" ->
         IF \A k \in DOMAIN buffer.init : IsFinite(buffer.init[k])
         THEN SizeError(buffer.shape) ELSE "Unsupported"
    [] buffer.role = "Temp"  -> SizeError(buffer.shape)

CodegenErrors(kernel) ==
  SelectSeq([b \in DOMAIN kernel.buffers |-> DeclarationError(kernel.buffers[b])]
              \o [k \in DOMAIN kernel.outputs |-> SizeError(kernel.output_shapes[k])]
              \o [k \in DOMAIN kernel.inputs |->
                    SizeError(kernel.buffers[kernel.inputs[k]].shape)],
            LAMBDA err : err # "None")

CodegenError(kernel) ==
  IF CodegenErrors(kernel) = << >> THEN "None" ELSE Head(CodegenErrors(kernel))

-----------------------------------------------------------------------------
(* The two streams.                                                         *)
\* The values of a tensor, or of an array, as they go through a pipe.
Printed(data, size) == [j \in 1 .. size |-> data[j - 1]]

\* Where the k-th of the shapes starts in a stream.
StreamOffset(shapes, k) ==
  FoldLeft(LAMBDA n, shape : n + Numel(shape), 0, SubSeq(shapes, 1, k - 1))

Parsed(stream, shapes, k) ==
  [i \in 0 .. (Numel(shapes[k]) - 1) |-> stream[StreamOffset(shapes, k) + i + 1]]

InputShapes(kernel) ==
  [k \in DOMAIN kernel.inputs |-> kernel.buffers[kernel.inputs[k]].shape]

\* input_bits, for inputs that are there and have the declared shapes.
InputStream(kernel, env) ==
  FlattenSeq([k \in DOMAIN kernel.inputs |->
                Printed(env[kernel.buffers[kernel.inputs[k]].init].data,
                        Numel(InputShapes(kernel)[k]))])

-----------------------------------------------------------------------------
(* vtc_kernel.                                                              *)
\* The arrays before the first statement.
Declared(kernel, stream, b) ==
  LET buffer == kernel.buffers[b]
  IN  CASE buffer.role = "Input" ->
             Parsed(stream, InputShapes(kernel),
                    CHOOSE k \in DOMAIN kernel.inputs : kernel.inputs[k] = b)
        [] buffer.role = "Const" ->
             [i \in 0 .. (Len(buffer.init) - 1) |-> LiftLiteral(buffer.init[i + 1])]
        [] buffer.role = "Temp"  -> << >>

\* affine_text, computed in long.
CIndex(e, env) == SumFunction([v \in DOMAIN e |-> e[v] * Coefficient(env, v)])

Readable(arrays, ref, env) ==
  /\ CIndex(ref.index, env) <= MaxI64
  /\ CIndex(ref.index, env) \in DOMAIN arrays[ref.buffer]

Writable(kernel, ref, env) ==
  /\ CIndex(ref.index, env) <= MaxI64
  /\ CIndex(ref.index, env) < Numel(kernel.buffers[ref.buffer].shape)

Step(kernel, run, assign, env) ==
  IF run.err # "None" THEN run
  ELSE IF \/ \E ref \in Range(assign.loads) : ~ Readable(run.memory, ref, env)
          \/ ~ Writable(kernel, assign.target, env)
  THEN [run EXCEPT !.err = "Undefined"]
  ELSE [run EXCEPT !.memory[assign.target.buffer] =
          CIndex(assign.target.index, env)
            :> Scalar(assign.op,
                      [k \in DOMAIN assign.loads |->
                         run.memory[assign.loads[k].buffer]
                                   [CIndex(assign.loads[k].index, env)]])
          @@ @]

RunNest(kernel, run, nest) ==
  FoldLeft(LAMBDA r, t :
             FoldLeft(LAMBDA s, assign :
                        Step(kernel, s, assign, Iteration(nest.levels, t - 1)),
                      r, nest.body),
           run, [t \in 1 .. Trips(nest.levels) |-> t])

RunStatements(kernel, stream) ==
  FoldLeft(LAMBDA run, nest : RunNest(kernel, run, nest),
           [err    |-> "None",
            memory |-> [b \in DOMAIN kernel.buffers |-> Declared(kernel, stream, b)]],
           kernel.body)

\* The copies to out0, out1, ... read every cell of an output.
ProgramError(kernel, run) ==
  IF run.err # "None" THEN run.err
  ELSE IF \E k \in DOMAIN kernel.outputs :
            ~ (0 .. (Numel(kernel.output_shapes[k]) - 1)
                 \subseteq DOMAIN run.memory[kernel.outputs[k]])
  THEN "Undefined" ELSE "None"

OutputStream(kernel, run) ==
  FlattenSeq([k \in DOMAIN kernel.outputs |->
                Printed(run.memory[kernel.outputs[k]],
                        Numel(kernel.output_shapes[k]))])

-----------------------------------------------------------------------------
\* parse_outputs
ParsedOutputs(kernel, run) ==
  [k \in DOMAIN kernel.outputs |->
     [shape |-> kernel.output_shapes[k],
      data  |-> Parsed(OutputStream(kernel, run), kernel.output_shapes, k)]]

FinishedRun(kernel, run) ==
  [err     |-> ProgramError(kernel, run),
   outputs |-> IF ProgramError(kernel, run) = "None" THEN ParsedOutputs(kernel, run)
                                                     ELSE << >>]

CompileAndRun(kernel, env) ==
  FinishedRun(kernel, RunStatements(kernel, InputStream(kernel, env)))

=============================================================================
