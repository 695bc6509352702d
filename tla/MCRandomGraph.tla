---------------------------- MODULE MCRandomGraph ----------------------------
(***************************************************************************)
(* The generator with extents small enough to draw everything, and a usize *)
(* small enough that some shapes cannot be sized.                          *)
(***************************************************************************)
EXTENDS RandomGraph, Semantics

Surgery == INSTANCE GraphRewrite WITH IsZeroLiteral <- IsZero

Config(size, max_dim, pattern) ==
  [size |-> size, max_dim |-> max_dim, pattern |-> pattern]

MCConfigs ==
  {Config(0, 2, pattern) : pattern \in Patterns}
    \cup {Config(1, 2, pattern) : pattern \in {"None", "NegNeg"}}
    \cup {Config(1, 1, "ReshapeReshape"), Config(2, 1, "None")}

One == <<1, 1>>

\* "Pattern guaranteed to occur in a generated graph" (gen.rs:40): in the graph
\* that the driver would prune first, the rule for the pattern fires.  The tests
\* of a rule pass over graphs in which it does not.
RuleOf(pattern) ==
  CASE pattern = "NegNeg"         -> "neg-neg-elim"
    [] pattern = "ReluRelu"       -> "relu-idempotent-elim"
    [] pattern = "ReshapeReshape" -> "reshape-reshape-fuse"

PatternFires ==
  status = "Returned" /\ config.pattern # "None" =>
     LET pruned == Surgery!PruneAndRebuild(Graph)
     IN  /\ pruned.ok
         /\ \E i \in Ids(pruned.graph) :
               Surgery!TryAt(RuleOf(config.pattern), pruned.graph, i).ok
=============================================================================
