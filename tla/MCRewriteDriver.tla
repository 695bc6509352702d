--------------------------- MODULE MCRewriteDriver ---------------------------
(***************************************************************************)
(* The driver on every graph of up to GraphSize nodes over the operations  *)
(* the rules look at, with the meaning of the graphs computed by the       *)
(* interpreters on an input vector that holds every kind of float.         *)
(***************************************************************************)
EXTENDS RewriteDriver, Semantics

Wide   == <<8>>
Shapes == {<<2, 4>>, <<8>>}
Zeros  == ConstNode("f64", Wide, [k \in 1 .. 8 |-> PosZero])

X == InputNode("x", "f64", Wide)
Y == InputNode("y", "f64", Wide)

\* Nodes that may follow n nodes.
Operations(n) ==
  {UnaryNode(op, i) : op \in UnaryOps, i \in 1 .. n}
    \cup {ReshapeNode(i, s) : i \in 1 .. n, s \in Shapes}
    \cup {BinaryNode("Add", i, j) : i, j \in 1 .. n}

Extend(arenas) ==
  UNION {{Append(a, node) : node \in Operations(Len(a))} : a \in arenas}

Arenas1 == {<<X>>}
Arenas2 == {<<X, Y>>, <<X, Zeros>>, <<X, X>>} \cup Extend(Arenas1)
Arenas3 == Extend(Arenas2)
Arenas4 == Extend(Arenas3)

\* The last node is the output, or a dead node, or there are two outputs.
OutputLists(n) == {<<n>>, <<n - 1>>, <<2, n>>}

\* Chains long enough for several rewrites, and for the cap to bind.
Links(n) ==
  {UnaryNode(op, n) : op \in UnaryOps} \cup {ReshapeNode(n, s) : s \in Shapes}

Lengthen(chains) ==
  UNION {{Append(c, node) : node \in Links(Len(c))} : c \in chains}

Chains4 == Lengthen(Lengthen(Lengthen(Arenas1)))
Chains6 == Lengthen(Lengthen(Chains4))

MCGraphs ==
  {e.graph : e \in {Emission(a, outputs) : a \in Arenas4,
                                            outputs \in OutputLists(4)}
                \cup {Emission(c, outputs) : c \in Chains6,
                                             outputs \in {<<6>>, <<3, 6>>}}}

MCAttributes ==
  {X.attr, Y.attr, Zeros.attr, NoAttr} \cup {[shape |-> s] : s \in Shapes}

MCRuleLists == {<<"neg-neg-elim", "add-zero-elim", "relu-idempotent-elim",
                  "reshape-reshape-fuse">>}

-----------------------------------------------------------------------------
Vector(data) == [shape |-> Wide, data |-> [i \in 0 .. 7 |-> data[i + 1]]]

FloatEnv ==
  [x |-> Vector(<<PosZero, <<-1, 0>>, NaN, <<1, Infinite>>, <<-1, Infinite>>,
                  <<1, 1>>, <<-1, 3>>, <<1, 6>> >>),
   y |-> Vector(<< <<-1, 0>>, <<-1, 0>>, <<1, 1>>, <<-1, 2>>, <<1, Infinite>>,
                  <<-1, 4>>, <<1, 2>>, <<1, 4>> >>)]
ExactEnv ==
  [x |-> Vector(<<0, 1, -1, 2, -3, 5, -7, 11>>),
   y |-> Vector(<<-1, 3, 0, -2, 3, -6, 9, -11>>)]

Meaning(g) == MeaningOn(g, ExactEnv, FloatEnv)

Preserved(mode, g, h) == SameMeaning(mode, Meaning(g), Meaning(h))

Optimizer ==
  INSTANCE SoundOptimizer
    WITH Programs <- GraphsOver(Attributes), Requests <- Modes,
         Preserves <- Preserved, request <- config.mode, original <- source, program <- graph,
         done <- Returned

\* The driver is a sound optimizer: at every step of the run the graph means
\* what the caller's graph means under the mode of the run.
ImplementsSoundOptimizer == Optimizer!Spec
=============================================================================
