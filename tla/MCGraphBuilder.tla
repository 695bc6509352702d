--------------------------- MODULE MCGraphBuilder ---------------------------
(***************************************************************************)
(* Every sequence of builder calls that makes a graph of up to MaxNodes    *)
(* nodes, and what type inference and the exact interpreter do with the    *)
(* result.                                                                 *)
(***************************************************************************)
EXTENDS GraphBuilder, Semantics

\* Extents include 0 and 1; <<3, 0, 3>> has no elements, and without its zero
\* extent it has more of them than MaxUsize.
MCShapes    == {<<1, 2>>, <<2, 1>>, <<2, 3>>, <<3, 0, 3>>}
MCPayloads  == {<< >>, << <<-1, 0>>, <<1, 2>> >>, << NaN, <<1, 2>> >>}
MCAxisLists == {<< >>, <<2>>, <<2, 1>>, <<1, 1>>}

\* One input for each shape; its elements tell positions apart.
MCEnvironments ==
  {[x |-> [shape |-> s, data |-> [i \in 0 .. (Numel(s) - 1) |-> 2 ^ i]]] :
     s \in MCShapes}

-----------------------------------------------------------------------------
\* The coordinates of a tensor, and an offset computed by counting those that
\* come before in row-major order: a reference for the stride arithmetic.
Coordinates(shape) ==
  {c \in [DOMAIN shape -> 0 .. 2] : \A a \in DOMAIN shape : c[a] < shape[a]}

RowMajorOffset(c, shape) ==
  Cardinality({b \in Coordinates(shape) :
     \E a \in DOMAIN shape :
        b[a] < c[a] /\ \A z \in 1 .. (a - 1) : b[z] = c[z]})

Slices(shape, axes) ==
  {{b \in Coordinates(shape) : \A a \in DOMAIN c \ axes : b[a] = c[a]} :
   c \in Coordinates(shape)}

\* Over the offsets of each slice of t, in the order of the slices.
AddsSlices(t, slices, sum) ==
  LET total(p) == FoldSet(LAMBDA o, s : s + t.data[o], 0, p)
  IN  /\ \A p \in slices :
            sum.data[Cardinality({q \in slices : Min(q) < Min(p)})] = total(p)
      /\ slices # {} => Cardinality(slices) = Cardinality(DOMAIN sum.data)

SliceOffsets(shape, axes) ==
  {{RowMajorOffset(c, shape) : c \in p} : p \in Slices(shape, axes)}

\* sum adds every input element exactly once, to the output element whose kept
\* coordinates are its own.  With no axes that returns the input unchanged, as
\* infer.rs says of it.
SumsAreRight(values) ==
  \A i \in DOMAIN values : graph.nodes[i].op = "Sum" =>
     LET t    == values[graph.nodes[i].args[1]]
         axes == Range(graph.nodes[i].attr.axes)
     IN  /\ AddsSlices(t, SliceOffsets(t.shape, axes), values[i])
         /\ axes = {} => values[i] = t

SumAddsEachSliceOnce ==
  result = "None" =>
     \A env \in Environments : SumsAreRight(EvalValues(graph, env).values)
=============================================================================
