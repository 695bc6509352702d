-------------------------------- MODULE EGraph --------------------------------
(***************************************************************************)
(* The e-graphs of the egg library, as crates/rewrite/src/egg_search.rs    *)
(* uses them: expressions are added, rules merge classes of equal          *)
(* expressions, and the cheapest expression of a class is extracted.       *)
(*                                                                         *)
(* An e-graph is [nodes, find]: its e-nodes, whose args are ids of         *)
(* classes, and the class that each id stands for by now.  The n-th e-node *)
(* makes the class n, which merging may identify with an earlier one.      *)
(***************************************************************************)
EXTENDS EggLang, FiniteSetsExt, Functions

EmptyEGraph == [nodes |-> << >>, find |-> << >>]

Canonical(eg, enode) ==
  [enode EXCEPT !.args = [p \in DOMAIN @ |-> eg.find[@[p]]]]

Classes(eg) == Range(eg.find)

\* The e-nodes of a class.
Members(eg, c) ==
  {Canonical(eg, eg.nodes[i]) : i \in {j \in DOMAIN eg.nodes : eg.find[j] = c}}

\* [eg, class]: an e-node that is there already is found, not added.
Holding(eg, enode) ==
  {eg.find[i] : i \in {j \in DOMAIN eg.nodes :
                         Canonical(eg, eg.nodes[j]) = Canonical(eg, enode)}}

AddENode(eg, enode) ==
  IF Holding(eg, enode) # {} THEN [eg |-> eg, class |-> Min(Holding(eg, enode))]
  ELSE [eg    |-> [nodes |-> Append(eg.nodes, enode),
                   find  |-> Append(eg.find, Len(eg.nodes) + 1)],
        class |-> Len(eg.nodes) + 1]

Merge(eg, a, b) ==
  LET both == {eg.find[a], eg.find[b]}
  IN  [eg EXCEPT !.find = [i \in DOMAIN @ |-> IF @[i] \in both THEN Min(both) ELSE @[i]]]

\* rebuild: equal operations on merged classes are equal.
Congruent(eg) ==
  {p \in (DOMAIN eg.nodes) \X (DOMAIN eg.nodes) :
     /\ p[1] < p[2]
     /\ eg.find[p[1]] # eg.find[p[2]]
     /\ Canonical(eg, eg.nodes[p[1]]) = Canonical(eg, eg.nodes[p[2]])}

RECURSIVE Rebuild(_)
Rebuild(eg) ==
  LET pairs == Congruent(eg)
      pair  == CHOOSE p \in pairs : TRUE
  IN  IF pairs = {} THEN eg ELSE Rebuild(Merge(eg, pair[1], pair[2]))

\* An expression, operands first: [eg, class], where class has the expression's keys.
AddExpression(expr) ==
  LET add(acc, i) ==
        LET enode == [expr[i] EXCEPT !.args = [p \in DOMAIN @ |-> acc.class[@[p]]]]
            added == AddENode(acc.eg, enode)
        IN  [eg |-> added.eg, class |-> acc.class @@ (i :> added.class)]
  IN  FoldLeft(add, [eg |-> EmptyEGraph, class |-> << >>],
               SetToSortSeq(DOMAIN expr, <))

-----------------------------------------------------------------------------
(* Rules.  A pattern is a variable or an operation on patterns.             *)
Var(v)         == [var |-> v]
Term(op, args) == [op |-> op, args |-> args]
IsVar(p)       == "var" \in DOMAIN p

\* The substitutions that extend s and make p an expression of the class c.
RECURSIVE Matching(_, _, _, _), MatchingAll(_, _, _, _)
Matching(eg, p, c, s) ==
  IF IsVar(p)
  THEN IF p.var \notin DOMAIN s THEN {(p.var :> c) @@ s}
       ELSE IF s[p.var] = c THEN {s} ELSE {}
  ELSE UNION {MatchingAll(eg, p.args, enode.args, s) :
                enode \in {e \in Members(eg, c) : e.op = p.op}}

MatchingAll(eg, ps, cs, s) ==
  IF ps = << >> THEN {s}
  ELSE UNION {MatchingAll(eg, Tail(ps), Tail(cs), t) :
                t \in Matching(eg, Head(ps), Head(cs), s)}

Matches(eg, rule) ==
  {[class |-> c, subst |-> s] :
     <<c, s>> \in UNION {{c} \X Matching(eg, rule.searcher, c, << >>) :
                           c \in Classes(eg)}}

RECURSIVE Instantiate(_, _, _)
Instantiate(eg, p, s) ==
  LET part(acc, q) == LET i == Instantiate(acc.eg, q, s)
                      IN  [eg |-> i.eg, classes |-> Append(acc.classes, i.class)]
      parts == FoldLeft(part, [eg |-> eg, classes |-> << >>], p.args)
  IN  IF IsVar(p) THEN [eg |-> eg, class |-> s[p.var]]
      ELSE AddENode(parts.eg, ENode(p.op, parts.classes))

ApplyMatch(eg, rule, match) ==
  LET applied == Instantiate(eg, rule.applier, match.subst)
  IN  Merge(applied.eg, applied.class, match.class)

\* One iteration: all rules are searched for, then the first n are applied to
\* what was found, and the e-graph is rebuilt.
Saturated(eg, rules, n) ==
  LET found == [k \in DOMAIN rules |-> Matches(eg, rules[k])]
      apply(acc, k) ==
        FoldSet(LAMBDA match, e : ApplyMatch(e, rules[k], match), acc, found[k])
  IN  Rebuild(FoldLeft(apply, eg, [k \in 1 .. n |-> k]))

-----------------------------------------------------------------------------
(* Extraction.  The least costs are found in rounds; a class has none until *)
(* one of its e-nodes has operands with costs.                              *)
Costed(eg, costs, c) ==
  {e \in Members(eg, c) : Range(e.args) \subseteq DOMAIN costs}

Round(eg, costs) ==
  [c \in {d \in Classes(eg) : Costed(eg, costs, d) # {}} |->
     Min({RightAssocCost(e, costs) : e \in Costed(eg, costs, c)})]

RECURSIVE LeastCosts(_, _)
LeastCosts(eg, costs) ==
  LET next == Round(eg, costs)
  IN  IF next = costs THEN costs ELSE LeastCosts(eg, next)

\* Every expression of least cost that has one e-node for each class: which
\* one is taken where several cost the same is up to the library.
RECURSIVE Extractions(_, _, _)
Extractions(best, open, expr) ==
  IF open \subseteq DOMAIN expr THEN {expr}
  ELSE LET c == Min(open \ DOMAIN expr)
       IN  UNION {Extractions(best, open \cup Range(e.args), (c :> e) @@ expr) :
                    e \in best[c]}

Cheapest(eg, root) ==
  LET costs == LeastCosts(eg, << >>)
      best  == [c \in Classes(eg) |->
                  {e \in Costed(eg, costs, c) : RightAssocCost(e, costs) = costs[c]}]
  IN  Extractions(best, {root}, << >>)

=============================================================================
