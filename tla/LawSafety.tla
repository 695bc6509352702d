------------------------------ MODULE LawSafety ------------------------------
(***************************************************************************)
(* The table that decides which rewrites a bit-faithful compilation may    *)
(* make, Law::preserves_bits of crates/rewrite/src/safety.rs, against the  *)
(* arithmetic it speaks of: each law is tried on triples of floats.        *)
(***************************************************************************)
EXTENDS NumericSafety, TinyFloat

\* What a law equates, as its variant's comment writes it.  The laws that are
\* not about floats have no equation here.
FloatLaws == Laws \ {"StructuralOnly", "IntegerArithmetic"}

Relu(x) == IF FloatPositive(x) THEN x ELSE PosZero
One     == <<1, 1>>

Sides(law, a, b, c) ==
  CASE law = "FloatAddComm" -> <<FloatAdd(a, b), FloatAdd(b, a)>>
    [] law = "FloatMulComm" -> <<FloatMul(a, b), FloatMul(b, a)>>
    [] law = "FloatAddAssoc" ->
         <<FloatAdd(FloatAdd(a, b), c), FloatAdd(a, FloatAdd(b, c))>>
    [] law = "FloatMulAssoc" ->
         <<FloatMul(FloatMul(a, b), c), FloatMul(a, FloatMul(b, c))>>
    [] law = "FloatDistributive" ->
         <<FloatMul(a, FloatAdd(b, c)), FloatAdd(FloatMul(a, b), FloatMul(a, c))>>
    [] law = "AddZeroIdentity"    -> <<FloatAdd(a, PosZero), a>>
    [] law = "MulOneIdentity"     -> <<FloatMul(a, One), a>>
    [] law = "MulZeroAnnihilator" -> <<FloatMul(a, PosZero), PosZero>>
    [] law = "ReluIdempotent"     -> <<Relu(Relu(a)), Relu(a)>>
    [] law = "NegInvolutive"      -> <<FloatNeg(FloatNeg(a)), a>>

HoldsAt(law, t) == LET s == Sides(law, t[1], t[2], t[3]) IN s[1] = s[2]

VARIABLES law, triple

vars == <<law, triple>>

Init == law \in FloatLaws /\ triple \in Floats \X Floats \X Floats

Next == UNCHANGED vars

Spec == Init /\ [][Next]_vars

-----------------------------------------------------------------------------
\* A law that Strict mode relies on holds bit for bit, on zeros of both signs,
\* on infinities and on NaN.
BitExactLawsHold == PreservesBits(law) => HoldsAt(law, triple)

\* The table is no stricter than it must be: each other law has floats that it
\* fails on.
RealOnlyLawsFail ==
  ~ PreservesBits(law) => \E t \in Floats \X Floats \X Floats : ~ HoldsAt(law, t)
=============================================================================
