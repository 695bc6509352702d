----------------------------- MODULE MCTopoOrder -----------------------------
(***************************************************************************)
(* Every arena of up to three nodes with up to two operands each, dangling *)
(* ones included, and of four nodes that use at most one node, up to twice.*)
(***************************************************************************)
EXTENDS TopoOrder

Pairs(ids)  == {<< >>} \cup {<<a>> : a \in ids} \cup {<<a, b>> : a, b \in ids}
Single(ids) == {<< >>} \cup {<<a>> : a \in ids} \cup {<<a, a>> : a \in ids}

MCArenas ==
  {<< >>}
    \cup UNION {[1 .. n -> Pairs(1 .. (n + 1))] : n \in 1 .. 3}
    \cup [1 .. 4 -> Single(1 .. 4)]
=============================================================================
