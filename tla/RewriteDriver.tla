---------------------------- MODULE RewriteDriver ----------------------------
(***************************************************************************)
(* The deterministic fixpoint driver, crates/rewrite/src/driver.rs: `run`  *)
(* prunes the graph it is given, then applies the first firing rule and    *)
(* prunes again, until no rule fires or the step cap is reached.           *)
(***************************************************************************)
EXTENDS GraphRewrite

CONSTANTS Attributes, \* what else than operands nodes may carry
          Graphs,     \* graphs that run may be called with: built by GraphBuilder
          RuleLists,  \* rule sets, as insertion orders
          StepCaps    \* values of DriverConfig::max_steps

ASSUME DriverAssumption ==
  /\ \A g \in Graphs : /\ g \in GraphsOver(Attributes)
                      /\ Valid(g)
                      /\ InputsListed(g)
                      /\ \A i \in Ids(g) : AttrFits(g.nodes[i])
  /\ \A list \in RuleLists : list \in Seq(Rules)
  /\ StepCaps \subseteq Nat

VARIABLES source,   \* the graph run was called with
          rules,    \* the rules of the rule set
          config,   \* [mode, max_steps]
          graph,    \* the graph being rewritten
          applied,  \* names of the rules applied so far
          status    \* "Called", "Running", "Fixpoint", "Capped" or "Error"

vars == <<source, rules, config, graph, applied, status>>

Init ==
  /\ source \in Graphs
  /\ rules \in RuleLists
  /\ config \in [mode : Modes, max_steps : StepCaps]
  /\ graph = source
  /\ applied = << >>
  /\ status = "Called"

-----------------------------------------------------------------------------
\* find_first_firing: nodes by ascending id, at each node the enabled rules in
\* order.  <<i, k>> stands for the k-th rule firing at node i.
Enabled == EnabledRules(rules, config.mode)

\* A slip: the last node is not visited.
FiringsBeforeLast ==
  {p \in (Ids(graph) \ {Len(graph.nodes)}) \X Enabled :
     TryAt(rules[p[2]], graph, p[1]).ok}

Firings == {p \in Ids(graph) \X Enabled : TryAt(rules[p[2]], graph, p[1]).ok}

FirstFiring ==
  {p \in Firings : \A q \in Firings :
     p[1] < q[1] \/ (p[1] = q[1] /\ p[2] <= q[2])}

\* The graph becomes what pruning h returns, or run returns its error.
Canonicalize(h, next) ==
  LET pruned == Once(PruneAndRebuild, h)
  IN  /\ graph'  = IF pruned.ok THEN pruned.graph ELSE graph
      /\ status' = IF pruned.ok THEN next ELSE "Error"

Start ==
  /\ status = "Called"
  /\ Canonicalize(source, "Running")
  /\ UNCHANGED <<source, rules, config, applied>>

\* A slip: one rewrite too many.
BelowCapOrAt == Len(applied) <= config.max_steps

BelowCap == Len(applied) < config.max_steps

Fire ==
  /\ status = "Running"
  /\ BelowCap
  /\ \E p \in FirstFiring :
        /\ Canonicalize(TryAt(rules[p[2]], graph, p[1]).graph, "Running")
        /\ applied' = Append(applied, rules[p[2]])
  /\ UNCHANGED <<source, rules, config>>

StopAtFixpoint ==
  /\ status = "Running"
  /\ Firings = {}
  /\ status' = "Fixpoint"
  /\ UNCHANGED <<source, rules, config, graph, applied>>

StopAtCap ==
  /\ status = "Running"
  /\ Firings # {}
  /\ ~ BelowCap
  /\ status' = "Capped"
  /\ UNCHANGED <<source, rules, config, graph, applied>>

Next == Start \/ Fire \/ StopAtFixpoint \/ StopAtCap

Spec == Init /\ [][Next]_vars

Returned == status \in {"Fixpoint", "Capped", "Error"}

-----------------------------------------------------------------------------
TypeOK ==
  /\ source \in GraphsOver(Attributes)
  /\ rules \in RuleLists
  /\ config \in [mode : Modes, max_steps : StepCaps]
  /\ graph \in GraphsOver(Attributes)
  /\ applied \in Seq(Rules)
  /\ Len(applied) <= config.max_steps
  /\ status \in {"Called", "Running", "Fixpoint", "Capped", "Error"}

\* A rewrite never makes a graph that validation refuses: run returns no error
\* for a graph that was built, whatever rules fire in whatever order.
NeverFails == status # "Error" /\ Valid(graph) /\ InputsListed(graph)

\* The caller binds inputs and reads outputs by what it declared: unused inputs
\* survive every pruning, and no input or output is moved, added or dropped.
SignatureKept ==
  /\ Signature(graph) = Signature(source)
  /\ Len(graph.outputs) = Len(source.outputs)

\* Once pruned, every node is an input, an output, or used by another node.
NoDeadNodes == status # "Called" => AllUsed(graph)

\* A reported fixpoint is one: nothing of the shape a rule of the list removes
\* is left anywhere.  Rules swallow the errors of the surgery they attempt, so
\* this also says that no match is ever lost to a refused surgery.
Nested(op) ==
  \E i \in Ids(graph) : OpAt(graph, i) = op /\ OpAt(graph, ArgOf(graph, i)) = op

FixpointHasNoRedex ==
  status = "Fixpoint" =>
     /\ "neg-neg-elim" \in Range(rules)         => ~ Nested("Neg")
     /\ "relu-idempotent-elim" \in Range(rules) => ~ Nested("Relu")
     /\ "reshape-reshape-fuse" \in Range(rules) => ~ Nested("Reshape")
     /\ "add-zero-elim" \in Range(rules) /\ config.mode = "FastMath" =>
           ~ \E i \in Ids(graph) :
                 /\ OpAt(graph, i) = "Add"
                 /\ \E a \in Operands(graph.nodes[i]) : ZeroConst(graph, a)

\* How many reshapes lie one upon the other from each node down.
ReshapeDepths(g) ==
  LET depth[i \in Ids(g)] == IF OpAt(g, i) = "Reshape"
                             THEN 1 + depth[ArgOf(g, i)] ELSE 0
  IN  depth

\* The sums of the first numbers of a list.
SumsOf(list) ==
  LET sum[n \in 0 .. Len(list)] == IF n = 0 THEN 0 ELSE sum[n - 1] + list[n]
  IN  sum

ReshapeDepth(g) == SumsOf(ReshapeDepths(g))[Len(g.nodes)]

\* Every rewrite removes a node, or shortens the chains of reshapes and adds
\* none: what makes the loop end, whatever the step cap.
RewritesProgress ==
  [][applied' # applied =>
        \/ Len(graph'.nodes) < Len(graph.nodes)
        \/ /\ Len(graph'.nodes) = Len(graph.nodes)
           /\ ReshapeDepth(graph') < ReshapeDepth(graph)]_vars
=============================================================================
