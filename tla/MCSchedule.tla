------------------------------ MODULE MCSchedule ------------------------------
(***************************************************************************)
(* Lowering and all sequences of up to MaxMoves moves, on graphs that put  *)
(* every operation, aliases by reshape, sums over one and several axes,    *)
(* scalars and empty tensors next to one another.                          *)
(***************************************************************************)
EXTENDS Schedule, LoopSemantics

F(name, shape) == InputNode(name, "f64", shape)
Literals(shape, data) == ConstNode("f64", shape, data)

Square == <<2, 2>>

\* Arenas, each with the lists of outputs to take.
Unary2 ==
  {<<F("x", s), UnaryNode("Neg", 1), UnaryNode("Relu", 2)>> :
     s \in {Square, <<4>>, <<0, 2>>, << >>}}
\* Strides that fit, of a tensor whose elements can not be counted.
Uncounted ==
  {<<F("x", <<2, 5, 5, 0>>), UnaryNode("Neg", 1)>>}
Sums ==
  {<<F("x", s), UnaryNode("Neg", 1), SumNode(2, axes, keepdim)>> :
     s \in {Square, <<0, 2>>}, axes \in {<<1>>, <<2>>, <<2, 1>>},
     keepdim \in BOOLEAN}
DeepSums ==
  {<<F("x", <<2, 2, 2>>), SumNode(1, axes, FALSE)>> : axes \in {<<2>>, <<1, 3>>}}
TwoSums ==
  {<<F("x", Square), SumNode(1, <<1>>, FALSE), SumNode(1, <<2>>, FALSE),
     BinaryNode("Add", 2, 3)>>}
\* A sum next to a nest of the same bounds, which may be fused with it.
SumAndMap ==
  {<<F("x", Square), SumNode(1, axes, FALSE), UnaryNode("Neg", 1)>> :
     axes \in {<<1>>, <<2, 1>>}}
Products ==
  {<<F("x", s), F("y", t), BinaryNode("Matmul", 1, 2)>> :
     s \in {Square, <<2, 0>>}, t \in {Square, <<2, 1>>, <<0, 2>>}}
    \cup {<<F("x", Square), UnaryNode("Neg", 1), BinaryNode("Matmul", 2, 1),
            UnaryNode("Relu", 3)>>}
Aliases ==
  {<<F("x", <<4>>), UnaryNode("Neg", 1), ReshapeNode(2, Square), F("y", Square),
     BinaryNode(op, 3, 4)>> : op \in {"Sub", "Mul"}}
Constants ==
  {<<Literals(<<2>>, <<a, <<-1, 2>> >>), F("x", <<2>>), BinaryNode("Mul", 1, 2),
     BinaryNode("Sub", 3, 1)>> : a \in {<<1, 3>>, NaN}}
\* Loop variables run out, and a fused nest gets the last one again.
ManyLoops ==
  {<<F("x", <<2>>), F("y", <<1, 1, 1, 1>>), UnaryNode("Neg", 1), UnaryNode("Relu", 3),
     UnaryNode("Neg", 4), BinaryNode("Sub", 5, 3), UnaryNode("Neg", 2)>>}
Refused ==
  {<<InputNode("x", "bool", <<2>>)>>, <<ConstNode("bool", << >>, <<TRUE>>)>>,
   <<F("x", <<0, 3, 3>>), UnaryNode("Neg", 1)>>,
   <<F("x", <<2, 2, 2>>), UnaryNode("Neg", 1), SumNode(2, <<2>>, FALSE),
     UnaryNode("Relu", 3)>>,
   <<F("x", <<2>>), F("y", <<4>>), BinaryNode("Add", 1, 2)>>}

Arenas == Unary2 \cup Uncounted \cup Sums \cup DeepSums \cup TwoSums \cup SumAndMap \cup Products \cup Aliases
            \cup Constants \cup ManyLoops \cup Refused

GraphOf(arena, outputs) ==
  [nodes |-> arena,
   inputs |-> SelectSeq([i \in DOMAIN arena |-> i],
                        LAMBDA i : arena[i].op = "Input"),
   outputs |-> outputs]

MCGraphs ==
  {GraphOf(a, <<Len(a)>>) : a \in Arenas}
    \cup {GraphOf(a, <<2, Len(a)>>) : a \in Unary2 \cup Aliases \cup SumAndMap}
    \cup {GraphOf(a, <<6, 7>>) : a \in ManyLoops}

-----------------------------------------------------------------------------
\* Values for a shape, the first ones of a list.
Filled(shape, list) ==
  [shape |-> shape, data |-> [i \in 0 .. (Numel(shape) - 1) |-> list[i + 1]]]

InputShape(g, name) ==
  g.nodes[CHOOSE i \in Ids(g) :
            g.nodes[i].op = "Input" /\ g.nodes[i].attr.name = name].attr.shape

Env(g, x, y) ==
  [name \in {g.nodes[i].attr.name : i \in Range(g.inputs)} |->
     Filled(InputShape(g, name), IF name = "x" THEN x ELSE y)]

ExactEnv(g) ==
  Env(g, <<2, -3, 5, 7, -11, 13, 17, -19>>, <<-1, 4, 6, -9>>)

\* Sums whose result depends on the order, and signed zeros.
FloatEnv(g) ==
  Env(g, << <<1, 4>>, <<1, 1>>, <<-1, 1>>, <<-1, 3>>, <<-1, 0>>, <<1, 6>>,
            <<1, 1>>, <<-1, 2>> >>,
      << <<1, 3>>, <<-1, 0>>, <<-1, 1>>, <<1, 2>> >>)

\* A caller that supplies one input only, of another shape than declared.
WrongEnv(g) == [x |-> Filled(<<3>>, <<1, 2, 3>>)]

SameExact == ExactLoops!EvalLoops(kernel, ExactEnv(graph)) = Exact!Eval(graph, ExactEnv(graph))

SameBits  == FloatLoops!EvalLoops(kernel, FloatEnv(graph)) = Float!Eval(graph, FloatEnv(graph))

FailsAlike ==
  ExactLoops!EvalLoops(kernel, WrongEnv(graph)) = Exact!Eval(graph, WrongEnv(graph))

\* The kernel computes the graph it was lowered from, whatever legal moves were
\* made: over the rationals in both modes, and bit for bit in Strict mode and
\* before any move.  It fails on wrong inputs as the graph does.
KernelComputesGraph ==
  kernel.err = "None" =>
     /\ SameExact /\ FailsAlike
     /\ mode = "Strict" \/ applied = 0 => SameBits

\* What C is emitted for computes what the loop interpreter computes, bit for
\* bit, after any moves: no temporary is read before a statement has written
\* that very element, though nothing zeroes it as the interpreter does, no index
\* leaves its array, and inputs and outputs keep their order in the streams.
ProgramComputesKernel ==
  kernel.err = "None" /\ Program!CodegenError(kernel) = "None" =>
     Program!CompileAndRun(kernel, FloatEnv(graph))
       = FloatLoops!EvalLoops(kernel, FloatEnv(graph))
=============================================================================
