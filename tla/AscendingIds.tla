---------------------------- MODULE AscendingIds ----------------------------
(***************************************************************************)
(* Ids in arena order: what a loop over an arena enumerates of a set.      *)
(***************************************************************************)
EXTENDS Integers, FiniteSets

\* The members of a set of ids in ascending order, and the place of one there.
\* (SetToSortSeq is the same sequence; this form gives the prover its terms.)
Rank(S, i)   == Cardinality({j \in S : j <= i})
Ascending(S) == [k \in 1 .. Cardinality(S) |-> CHOOSE i \in S : Rank(S, i) = k]
=============================================================================
