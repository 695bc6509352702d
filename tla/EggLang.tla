------------------------------- MODULE EggLang -------------------------------
(***************************************************************************)
(* The conversions of crates/rewrite/src/egg_lang.rs between graphs and    *)
(* the expressions that equality saturation works on.                      *)
(*                                                                         *)
(* An expression is a table of e-nodes [op, args, atom], whose args are    *)
(* keys of the table; an atom is the id of the node of the original graph  *)
(* that AtomTable finds for it.  The table of an extracted expression has  *)
(* one e-node per class.                                                   *)
(***************************************************************************)
EXTENDS TypeInference

AlgebraicOps == {"Neg", "Relu", "Add", "Sub", "Mul", "Matmul"}

ENode(op, args) == [op |-> op, args |-> args, atom |-> 0]
Atom(id)        == [op |-> "Atom", args |-> << >>, atom |-> id]

-----------------------------------------------------------------------------
(* From a graph: one e-node for each node that the output reaches through   *)
(* algebraic operations; where it meets another operation it has an atom.   *)
Algebraic(g, i) == g.nodes[i].op \in AlgebraicOps

Below(g, S) ==
  S \cup UNION {Operands(g.nodes[i]) : i \in {j \in S : Algebraic(g, j)}}

ExpressionIds(g, output) ==
  FoldLeft(LAMBDA S, i : Below(g, S), {output}, g.nodes)

Expression(g, output) ==
  [i \in ExpressionIds(g, output) |->
     IF Algebraic(g, i) THEN ENode(g.nodes[i].op, g.nodes[i].args) ELSE Atom(i)]

\* RightAssocCost of egg_search.rs, from the costs of the operands.
RightAssocCost(enode, costs) ==
  LET arg(p) == costs[enode.args[p]]
  IN  CASE enode.op = "Atom"            -> 1
        [] enode.op \in {"Neg", "Relu"} -> 1 + arg(1)
        [] enode.op = "Matmul"          -> 8 + arg(1) + arg(2)
        [] enode.op = "Add"             -> 1 + 2 * arg(1) + arg(2)
        [] enode.op \in {"Sub", "Mul"}  -> 1 + arg(1) + arg(2)

-----------------------------------------------------------------------------
(* Back to a graph.  Nodes are emitted into a builder, operands first, and  *)
(* at most once for each key: the keys <<k, c>> of the k-th output's        *)
(* expression, and <<0, i>> for the nodes i of the original graph, which    *)
(* the outputs share.                                                       *)
\* What a key stands for: a node over other keys, or another key.
CopyOf(original, i) == [node |-> original.nodes[i],
                         keys |-> [p \in DOMAIN original.nodes[i].args |->
                                     <<0, original.nodes[i].args[p]>>]]

\* A slip: matmul operands are exchanged.
SplitExchanged(k, enode) ==
  [node |-> [op |-> enode.op, args |-> enode.args, attr |-> NoAttr],
   keys |-> [p \in DOMAIN enode.args |->
               <<k, enode.args[Len(enode.args) + 1 - p]>>]]

Split(k, enode) ==
  [node |-> [op |-> enode.op, args |-> enode.args, attr |-> NoAttr],
   keys |-> [p \in DOMAIN enode.args |-> <<k, enode.args[p]>>]]

EmptyBuild == [graph |-> EmptyGraph, memo |-> << >>, err |-> "None"]

Remember(build, key, id) ==
  [build EXCEPT !.memo = [k \in DOMAIN @ \cup {key} |-> IF k = key THEN id ELSE @[k]]]

\* One call of the builder.
EmitOnce(build, key, part) ==
  LET node == WithOperands(part.node,
                [p \in DOMAIN part.keys |-> build.memo[part.keys[p]]])
  IN  IF build.err # "None" THEN build
      ELSE IF EmitError(build.graph, node) # "None"
      THEN [build EXCEPT !.err = EmitError(build.graph, node)]
      ELSE Remember([build EXCEPT !.graph = Push(@, node)],
                    key, Len(build.graph.nodes) + 1)

\* copy_original_subdag
RECURSIVE CopySubdag(_, _, _)
CopySubdag(original, build, i) ==
  IF build.err # "None" \/ <<0, i>> \in DOMAIN build.memo THEN build
  ELSE EmitOnce(FoldLeft(LAMBDA b, a : CopySubdag(original, b, a),
                         build, original.nodes[i].args),
                <<0, i>>, CopyOf(original, i))

\* A slip: what was emitted for a key is not looked up.
RECURSIVE EmitExprAnew(_, _, _, _, _)
EmitExprAnew(original, exprs, build, k, c) ==
  LET enode == exprs[k][c]
      atom  == CopySubdag(original, build, enode.atom)
  IN  IF build.err # "None" THEN build
      ELSE IF enode.op = "Atom"
      THEN IF atom.err # "None" THEN atom
           ELSE Remember(atom, <<k, c>>, atom.memo[<<0, enode.atom>>])
      ELSE EmitOnce(FoldLeft(LAMBDA b, a : EmitExprAnew(original, exprs, b, k, a),
                             build, enode.args),
                    <<k, c>>, Split(k, enode))

\* emit_graph_expr
RECURSIVE EmitExpr(_, _, _, _, _)
EmitExpr(original, exprs, build, k, c) ==
  LET enode == exprs[k][c]
      atom  == CopySubdag(original, build, enode.atom)
  IN  IF build.err # "None" \/ <<k, c>> \in DOMAIN build.memo THEN build
      ELSE IF enode.op = "Atom"
      THEN IF atom.err # "None" THEN atom
           ELSE Remember(atom, <<k, c>>, atom.memo[<<0, enode.atom>>])
      ELSE EmitOnce(FoldLeft(LAMBDA b, a : EmitExpr(original, exprs, b, k, a),
                             build, enode.args),
                    <<k, c>>, Split(k, enode))

\* recexprs_to_graph: the graph of all outputs, or the first error.
Emitted(original, exprs, roots) ==
  FoldLeft(LAMBDA b, k : EmitExpr(original, exprs, b, k, roots[k]),
           EmptyBuild, [k \in DOMAIN roots |-> k])

Finished(build, roots) ==
  LET g == [build.graph EXCEPT !.outputs =
              [k \in DOMAIN roots |-> build.memo[<<k, roots[k]>>]]]
  IN  [err |-> InferTypes(g).err, graph |-> g]

Rebuilt(build, roots) ==
  IF build.err # "None" THEN [err |-> build.err, graph |-> EmptyGraph]
  ELSE Finished(build, roots)

ToGraph(original, exprs, roots) ==
  Rebuilt(Emitted(original, exprs, roots), roots)

=============================================================================
