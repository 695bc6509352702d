---------------------------- MODULE MCEggSearch ----------------------------
(***************************************************************************)
(* The search on every small graph over the operations that the rules look *)
(* at, with opaque operations between them, and on graphs that the tests   *)
(* of the search use, that share nodes between outputs, or are ill-typed.  *)
(***************************************************************************)
EXTENDS EggSearch

Wide == <<2, 4>>
X == InputNode("x", "f64", Wide)
Y == InputNode("y", "f64", Wide)
Z == InputNode("z", "f64", Wide)
W == InputNode("w", "f64", <<4, 1>>)
Flag  == InputNode("b", "bool", Wide)
Const(data) == ConstNode("f64", Wide, [k \in 1 .. 8 |-> data])

\* Opaque to the expressions, and of its operand's shape.
Opaque(i) == SumNode(i, << >>, FALSE)

Unaries(n)   == {UnaryNode(op, i) : op \in UnaryOps, i \in 1 .. n}
Adds(n)      == {BinaryNode("Add", i, j) : i, j \in 1 .. n}
Products(n)  == {BinaryNode(op, i, n) : op \in {"Mul", "Sub"}, i \in 1 .. n}
Opaques(n)   == {Opaque(i) : i \in 1 .. n}

Extend(arenas, operations(_)) ==
  UNION {{Append(a, node) : node \in operations(Len(a))} : a \in arenas}

Mixed(n)     == Unaries(n) \cup Adds(n) \cup Opaques(n)
Algebra(n)   == Unaries(n) \cup Adds(n) \cup Products(n)

Arenas ==
  Extend(Extend({<<X, Y>>}, Algebra), Algebra)
    \cup Extend(Extend(Extend({<<X>>}, Mixed), Opaques), Mixed)
    \cup Extend(Extend({<<X, Y, Z>>}, Adds), Adds)

LastOnly(a) ==
  [nodes   |-> a,
   inputs  |-> SelectSeq([i \in DOMAIN a |-> i], LAMBDA i : a[i].op = "Input"),
   outputs |-> <<Len(a)>>]

Outputs(a, outputs) == [LastOnly(a) EXCEPT !.outputs = outputs]

Special ==
  {LastOnly(a) : a \in
     {<<X, W, BinaryNode("Matmul", 1, 2), UnaryNode("Neg", 3), UnaryNode("Neg", 4)>>,
      <<X, W, BinaryNode("Add", 1, 2)>>,
      <<Flag, UnaryNode("Neg", 1), UnaryNode("Neg", 2)>>,
      <<Flag, Y, UnaryNode("Relu", 2), UnaryNode("Relu", 3)>>,
      <<X, Const(PosZero), BinaryNode("Add", 1, 2)>>,
      <<X, Const(<<1, 1>>), BinaryNode("Add", 2, 1)>>,
      <<X, Const(NaN), BinaryNode("Mul", 2, 1)>>}}
  \cup
  {Outputs(<<X, UnaryNode("Neg", 1), UnaryNode("Neg", 2), UnaryNode("Relu", o)>>, outputs) :
     o \in 1 .. 3, outputs \in {<<3, 4>>, <<4, 2>>, <<4, 4>>}}

MCGraphs == {LastOnly(a) : a \in Arenas} \cup Special

MCConfigs ==
  [mode : {"Strict", "FastMath"}, rules : {"Bundled"}, iter_limit : {2},
   validation_trials : {0, 1}]
  \cup [mode : {"Strict", "FastMath"}, rules : {"Unsound"}, iter_limit : {1},
        validation_trials : {1}]

-----------------------------------------------------------------------------
\* What trials draw has zeros of both signs and no infinity or NaN.
Mixture(k) ==
  [exact |-> [o \in 1 .. 8 |-> ((o * k) % 7) - 3],
   float |-> [o \in 1 .. 8 |->
                LET r == ((o * k) % 9) - 4
                IN  IF r = 0 THEN <<-1, 0>> ELSE IF r = 4 THEN PosZero
                    ELSE IF r > 0 THEN <<1, r>> ELSE <<-1, -r>>]]
\* A draw that tells little apart: relu makes it zero, and nothing else than the
\* sign of its zero changes when zero is added to it.
Dull == [exact |-> [o \in 1 .. 8 |-> -1],
         float |-> [o \in 1 .. 8 |-> IF o = 1 THEN <<-1, 0>> ELSE <<-1, 1>>]]

Names == {"x", "y", "z", "w", "b"}
Factor == [x |-> 1, y |-> 2, z |-> 5, w |-> 4, b |-> 1]

MCDraws == {[n \in Names |-> Mixture(Factor[n])], [n \in Names |-> Dull]}

\* Values of every kind, for comparing what graphs mean.
Kinds(first) ==
  LET kinds == <<NaN, <<1, Infinite>>, PosZero, <<-1, 0>>, <<1, 3>>, <<-1, 1>>,
                 <<-1, Infinite>>, <<1, 6>> >>
  IN  [exact |-> [o \in 1 .. 8 |-> o * first - 9],
       float |-> [o \in 1 .. 8 |-> kinds[((o * first) % 8) + 1]]]

EveryKind == [n \in Names |-> Kinds(2 * Factor[n] - 1)]

\* h means what g means, for the inputs that g declares and the values drawn.
SameOn(mode, g, h, draw) ==
  LET meaning(p) == MeaningOn(p, Drawn(g, draw, "exact"), Drawn(g, draw, "float"))
  IN  SameMeaning(mode, meaning(g), meaning(h))

Preserved(asked, g, h) ==
  \/ g = h
  \/ \E draw \in IF asked.rules = "Bundled" THEN {EveryKind} ELSE MCDraws :
        SameOn(asked.mode, g, h, draw)

Optimizer ==
  INSTANCE SoundOptimizer
    WITH Programs <- Graphs, Requests <- Configs, Preserves <- Preserved,
         request <- config, original <- source, program <- graph,
         done <- Returned

\* With the bundled rules the search is sound even when the gate makes no trial
\* and wherever saturation was stopped: what is extracted and converted back
\* means what the caller's graph means.  With a rule that is not sound, what is
\* returned has passed a trial in both of the domains that the mode asks for.
ImplementsSoundOptimizer == Optimizer!Spec

\* Of a well-typed graph the bundled rules make a well-typed candidate, with the
\* same outputs: converting it back never fails, and it has exactly the declared
\* inputs that its outputs depend on.  Those that are not used any more are
\* dropped, which pruning is careful not to do.
UsedInputs(g) ==
  {g.nodes[i].attr : i \in InputIds(g) \cap
     FoldLeft(LAMBDA S, i : S \cup UNION {Operands(g.nodes[j]) : j \in S},
              Range(g.outputs), g.nodes)}

CandidateWellFormed ==
  stage = "Validate" /\ config.rules = "Bundled" /\ Computes(InferTypes(source)) =>
     LET candidate == Candidate.graph
     IN  /\ Candidate.err = "None"
         /\ OutputTypes(candidate, InferTypes(candidate))
              = OutputTypes(source, InferTypes(source))
         /\ Range(Signature(candidate)) = UsedInputs(source)

\* In Strict mode the bundled rules add no class to an e-graph, so that the
\* candidate for a single output is no larger than the graph, and nothing that
\* the gate looks at rejects it: provided that no algebraic node is below an
\* opaque one, where it would be emitted twice, and that the graph evaluates.
PlainAtoms(g) ==
  \A i \in Ids(g) : g.nodes[i].op \in {"Sum", "Reshape"} =>
     \A a \in Operands(g.nodes[i]) : ~ Algebraic(g, a)

MustBeAccepted(g) ==
  /\ Len(g.outputs) = 1
  /\ PlainAtoms(g)
  /\ \A draw \in MCDraws : Passes("Strict", g, g, draw)

StrictAccepts ==
  stage = "Returned" /\ config.mode = "Strict" /\ config.rules = "Bundled" =>
     (MustBeAccepted(source) => accepted)
=============================================================================
