------------------------------ MODULE EggSearch ------------------------------
(***************************************************************************)
(* The search by equality saturation, crates/rewrite/src/egg_search.rs:    *)
(* each output of the pruned graph is saturated with untrusted rules on    *)
(* its own, the cheapest expressions become a candidate graph, and the     *)
(* candidate replaces the original only if it is no larger and an oracle   *)
(* finds no difference on random inputs.                                   *)
(***************************************************************************)
EXTENDS EGraph, Semantics

CONSTANTS Graphs,      \* graphs the search may be called with
          Configs,     \* [mode, rules, iter_limit, validation_trials]
          Draws        \* values a trial may draw: [name -> [exact, float]]

Surgery == INSTANCE GraphRewrite WITH IsZeroLiteral <- IsZero

VARIABLES source, config,
          graph,       \* the pruned original, in the end the result
          stage,       \* "Called", "Convert", "Saturate", "Extract", "Validate",
                       \* "Return", "Returned" or "Error"
          egraph, root, iteration,
          extracted,   \* the expressions of the outputs so far: <<table, root>>
          accepted

vars == <<source, config, graph, stage, egraph, root, iteration, extracted,
          accepted>>
search == <<egraph, root, iteration>>

-----------------------------------------------------------------------------
(* egg_rules_for_mode, and the rule of tests/egg.rs that is not sound.      *)
A == Var("a")
B == Var("b")
C == Var("c")

Rule(searcher, applier) == [searcher |-> searcher, applier |-> applier]

NegNeg   == Rule(Term("Neg", <<Term("Neg", <<A>>)>>), A)
ReluReluToOperand == Rule(Term("Relu", <<Term("Relu", <<A>>)>>), A)   \* a slip
ReluRelu == Rule(Term("Relu", <<Term("Relu", <<A>>)>>), Term("Relu", <<A>>))
Comm(op) == Rule(Term(op, <<A, B>>), Term(op, <<B, A>>))

LeftNested  == Term("Add", <<Term("Add", <<A, B>>), C>>)
RightNested == Term("Add", <<A, Term("Add", <<B, C>>)>>)

RulesForMode(mode) ==
  <<NegNeg, ReluRelu, Comm("Add"), Comm("Mul")>>
    \o IF mode = "Strict" THEN << >>
       ELSE <<Rule(LeftNested, RightNested), Rule(RightNested, LeftNested)>>

UnsoundAddLeft == <<Rule(Term("Add", <<A, B>>), A)>>

Rules == IF config.rules = "Bundled" THEN RulesForMode(config.mode) ELSE UnsoundAddLeft

-----------------------------------------------------------------------------
Init ==
  /\ source \in Graphs
  /\ config \in Configs
  /\ graph = source
  /\ stage = "Called"
  /\ egraph = EmptyEGraph /\ root = 0 /\ iteration = 0
  /\ extracted = << >>
  /\ accepted = FALSE

Start ==
  /\ stage = "Called"
  /\ LET pruned == Surgery!PruneAndRebuild(source)
     IN  /\ graph' = pruned.graph
         /\ stage' = IF pruned.ok THEN "Convert" ELSE "Error"
  /\ UNCHANGED <<source, config, search, extracted, accepted>>

\* extract_outputs: the next output becomes an expression and an e-graph.
Convert ==
  /\ stage = "Convert"
  /\ Len(extracted) < Len(graph.outputs)
  /\ LET output == graph.outputs[Len(extracted) + 1]
         added  == AddExpression(Expression(graph, output))
     IN  egraph' = added.eg /\ root' = added.class[output]
  /\ iteration' = 0
  /\ stage' = "Saturate"
  /\ UNCHANGED <<source, config, graph, extracted, accepted>>

\* The limits on nodes and on time are looked at after each rule, so that an
\* iteration may be cut short, and be the last.
Iterate ==
  /\ stage = "Saturate"
  /\ iteration < config.iter_limit
  /\ \E n \in DOMAIN Rules :
        /\ egraph' = Saturated(egraph, Rules, n)
        /\ stage'  = IF n = Len(Rules) THEN "Saturate" ELSE "Extract"
  /\ root' = egraph'.find[root]
  /\ iteration' = iteration + 1
  /\ UNCHANGED <<source, config, graph, extracted, accepted>>

Stop ==
  /\ stage = "Saturate"
  /\ stage' = "Extract"
  /\ UNCHANGED <<source, config, graph, search, extracted, accepted>>

Extract ==
  /\ stage = "Extract"
  /\ \E expr \in Cheapest(egraph, root) :
        extracted' = Append(extracted, <<expr, root>>)
  /\ egraph' = EmptyEGraph /\ root' = 0 /\ iteration' = 0
  /\ stage' = "Convert"
  /\ UNCHANGED <<source, config, graph, accepted>>

EndOfOutputs ==
  /\ stage = "Convert"
  /\ Len(extracted) = Len(graph.outputs)
  /\ stage' = "Validate"
  /\ UNCHANGED <<source, config, graph, search, extracted, accepted>>

-----------------------------------------------------------------------------
(* The gate.                                                                *)
Candidate ==
  ToGraph(graph, [k \in DOMAIN extracted |-> extracted[k][1]],
          [k \in DOMAIN extracted |-> extracted[k][2]])

\* Inputs by name, as the original declares them.
InputIds(g) == {g.inputs[k] : k \in DOMAIN g.inputs}

Drawn(g, draw, domain) ==
  [name \in {g.nodes[i].attr.name : i \in InputIds(g)} |->
     LET i == Max({j \in InputIds(g) : g.nodes[j].attr.name = name})
     IN  [shape |-> g.nodes[i].attr.shape,
          data  |-> [o \in 0 .. (Numel(g.nodes[i].attr.shape) - 1) |->
                       draw[name][domain][o + 1]]]]

\* No values are drawn for a boolean, or for a shape that has no element count.
Drawable(g) ==
  \A i \in InputIds(g) : /\ g.nodes[i].attr.dtype # "bool"
                         /\ Numel(g.nodes[i].attr.shape) # Overflow

SameRun(before, after) == Computes(before) /\ after = before

\* A slip: the candidate is compared with itself in the second domain.
PassesExact(mode, original, candidate, draw) ==
  LET exact == Drawn(original, draw, "exact")
      float == Drawn(original, draw, "float")
  IN  /\ Drawable(original)
      /\ SameRun(Exact!Eval(original, exact), Exact!Eval(candidate, exact))
      /\ mode = "Strict" =>
            SameRun(Float!Eval(candidate, float), Float!Eval(candidate, float))

Passes(mode, original, candidate, draw) ==
  LET exact == Drawn(original, draw, "exact")
      float == Drawn(original, draw, "float")
  IN  /\ Drawable(original)
      /\ SameRun(Exact!Eval(original, exact), Exact!Eval(candidate, exact))
      /\ mode = "Strict" =>
            SameRun(Float!Eval(original, float), Float!Eval(candidate, float))

\* Each trial has its own draw.
Validated(candidate) ==
  \A t \in 1 .. config.validation_trials :
     \E draw \in Draws : Passes(config.mode, graph, candidate, draw)
Refuted(candidate) ==
  config.validation_trials > 0 /\ \E draw \in Draws : ~ Passes(config.mode, graph, candidate, draw)

Fits(candidate) ==
  /\ candidate.err = "None"
  /\ Len(candidate.graph.nodes) <= Len(graph.nodes)

Accept ==
  /\ stage = "Validate"
  /\ Fits(Candidate)
  /\ Validated(Candidate.graph)
  /\ graph' = Candidate.graph
  /\ accepted' = TRUE
  /\ stage' = "Return"
  /\ UNCHANGED <<source, config, search, extracted>>

Reject ==
  /\ stage = "Validate"
  /\ ~ Fits(Candidate) \/ Refuted(Candidate.graph)
  /\ stage' = "Return"
  /\ UNCHANGED <<source, config, graph, search, extracted, accepted>>

Return ==
  /\ stage = "Return"
  /\ stage' = "Returned"
  /\ UNCHANGED <<source, config, graph, search, extracted, accepted>>

Next ==
  \/ Start \/ Convert \/ Iterate \/ Stop \/ Extract \/ EndOfOutputs
  \/ Accept \/ Reject \/ Return

Spec == Init /\ [][Next]_vars

Returned == stage \in {"Returned", "Error"}

=============================================================================
