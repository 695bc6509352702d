---------------------------- MODULE GraphRewrite ----------------------------
(***************************************************************************)
(* Graph surgery and the rewrite rules of crates/rewrite: surgery.rs,      *)
(* rules.rs, ruleset.rs and the real-only rule of tests/driver.rs.         *)
(*                                                                         *)
(* Every operation returns [ok, graph]; ok is FALSE where the code returns *)
(* an error.  No caller looks at which error it is.                        *)
(***************************************************************************)
EXTENDS TensorGraph, AscendingIds, NumericSafety

CONSTANT IsZeroLiteral(_)  \* a literal is +0 or -0

Refused(g) == [ok |-> FALSE, graph |-> g]

-----------------------------------------------------------------------------
(* Surgery.                                                                 *)

\* Emit nodes one by one into a fresh builder, mark the outputs, and build.
Emission(nodes, outputs) ==
  LET h == [nodes   |-> nodes,
            inputs  |-> Ascending({i \in 1 .. Len(nodes) :
                                     nodes[i].op = "Input"}),
            outputs |-> outputs]
  IN  [ok |-> Valid(h), graph |-> h]

\* The target keeps its own definition; all other uses of it are redirected.
ReplaceAllUses(g, target, replacement) ==
  LET use(a) == IF a = target THEN replacement ELSE a
      renamed(node) == [k \in DOMAIN node.args |-> use(node.args[k])]
  IN  IF ~ (target \in Ids(g) /\ replacement \in Ids(g) /\ Valid(g))
      THEN Refused(g)
      ELSE Emission([i \in Ids(g) |->
                       IF i = target THEN g.nodes[i]
                       ELSE WithOperands(g.nodes[i], renamed(g.nodes[i]))],
                    [k \in DOMAIN g.outputs |-> use(g.outputs[k])])

RedefineNode(g, id, node) ==
  IF ~ (id \in Ids(g) /\ Operands(node) \subseteq 1 .. (id - 1) /\ Valid(g))
  THEN Refused(g)
  ELSE Emission([g.nodes EXCEPT ![id] = node], g.outputs)

\* collect_reachable from every output: the least set of ids that holds the
\* outputs and the operands of its members.
ClosedFromOutputs(g, S) ==
  /\ Range(g.outputs) \subseteq S
  /\ \A i \in S : Operands(g.nodes[i]) \subseteq S

Reachable(g) ==
  {i \in Ids(g) : \A S \in SUBSET Ids(g) : ClosedFromOutputs(g, S) => i \in S}

\* Every node is an input, an output, or used by a node.
AllUsed(g) ==
  \A i \in Ids(g) : \/ g.nodes[i].op = "Input"
                    \/ i \in Range(g.outputs)
                    \/ \E j \in Ids(g) : i \in Operands(g.nodes[j])

\* Slips: unused inputs are dropped; nothing is.
KeptReachable(g) == Reachable(g)
KeptAll(g)       == Ids(g)

\* Declared inputs are kept even when they are not used.
Kept(g) == Reachable(g) \cup Range(g.inputs)

\* A slip: outputs keep their old ids.
CompactNotOutputs(g, keep) ==
  LET old    == Ascending(keep)
      new(a) == Rank(keep, a)
      renamed(node) == [p \in DOMAIN node.args |-> new(node.args[p])]
  IN  Emission([k \in DOMAIN old |->
                  WithOperands(g.nodes[old[k]], renamed(g.nodes[old[k]]))], g.outputs)

\* The kept nodes in ascending order, their operands and the outputs renamed.
Compact(g, keep) ==
  LET old    == Ascending(keep)
      new(a) == Rank(keep, a)
      renamed(node) == [p \in DOMAIN node.args |-> new(node.args[p])]
  IN  Emission([k \in DOMAIN old |->
                  WithOperands(g.nodes[old[k]], renamed(g.nodes[old[k]]))],
               [k \in DOMAIN g.outputs |-> new(g.outputs[k])])

\* op(x), with x computed once: TLC may compute it anew wherever op uses it.
Once(op(_), x) == CHOOSE y \in {op(v) : v \in {x}} : TRUE

PruneAndRebuild(g) ==
  IF ~ Valid(g) THEN Refused(g) ELSE Once(LAMBDA keep : Compact(g, keep), Kept(g))

-----------------------------------------------------------------------------
(* Rules.  A rule that does not match at a node, or whose surgery fails,    *)
(* does not fire there.                                                     *)
OpAt(g, i)  == g.nodes[i].op
ArgOf(g, i) == g.nodes[i].args[1]

NegNegElim(g, i) ==
  IF OpAt(g, i) = "Neg" /\ OpAt(g, ArgOf(g, i)) = "Neg"
  THEN ReplaceAllUses(g, i, ArgOf(g, ArgOf(g, i))) ELSE Refused(g)

\* A slip: the node is replaced by itself.
ReluIdempotentSelf(g, i) ==
  IF OpAt(g, i) = "Relu" /\ OpAt(g, ArgOf(g, i)) = "Relu"
  THEN ReplaceAllUses(g, i, i) ELSE Refused(g)

ReluIdempotentElim(g, i) ==
  IF OpAt(g, i) = "Relu" /\ OpAt(g, ArgOf(g, i)) = "Relu"
  THEN ReplaceAllUses(g, i, ArgOf(g, i)) ELSE Refused(g)

ReshapeReshapeFuse(g, i) ==
  IF OpAt(g, i) = "Reshape" /\ OpAt(g, ArgOf(g, i)) = "Reshape"
  THEN RedefineNode(g, i, [g.nodes[i] EXCEPT
                              !.args = <<ArgOf(g, ArgOf(g, i))>>])
  ELSE Refused(g)

ZeroConst(g, i) ==
  /\ OpAt(g, i) = "Const"
  /\ g.nodes[i].attr.dtype # "bool"
  /\ \A k \in DOMAIN g.nodes[i].attr.data : IsZeroLiteral(g.nodes[i].attr.data[k])

AddZeroElim(g, i) ==
  IF OpAt(g, i) # "Add" THEN Refused(g)
  ELSE IF ZeroConst(g, g.nodes[i].args[2])
  THEN ReplaceAllUses(g, i, g.nodes[i].args[1])
  ELSE IF ZeroConst(g, g.nodes[i].args[1])
  THEN ReplaceAllUses(g, i, g.nodes[i].args[2])
  ELSE Refused(g)

Rules == {"neg-neg-elim", "relu-idempotent-elim", "reshape-reshape-fuse",
          "add-zero-elim"}

RuleLaws(rule) ==
  CASE rule = "neg-neg-elim"         -> <<"NegInvolutive">>
    [] rule = "relu-idempotent-elim" -> <<"ReluIdempotent">>
    [] rule = "reshape-reshape-fuse" -> <<"StructuralOnly">>
    [] rule = "add-zero-elim"        -> <<"AddZeroIdentity">>

TryAt(rule, g, i) ==
  CASE rule = "neg-neg-elim"         -> NegNegElim(g, i)
    [] rule = "relu-idempotent-elim" -> ReluIdempotentElim(g, i)
    [] rule = "reshape-reshape-fuse" -> ReshapeReshapeFuse(g, i)
    [] rule = "add-zero-elim"        -> AddZeroElim(g, i)

\* RuleSet::enabled: the places of the rules that the mode allows.
EnabledRules(rules, mode) ==
  {k \in DOMAIN rules : Allows(mode, SafetyOf(RuleLaws(rules[k])))}

=============================================================================
