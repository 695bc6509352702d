------------------------------ MODULE TinyFloat ------------------------------
(***************************************************************************)
(* A floating-point format small enough to enumerate, standing for the     *)
(* IEEE-754 doubles that eval_f64.rs computes with.  It keeps what the     *)
(* bit-exactness claims of crates/rewrite turn on: two zeros, infinities,  *)
(* a NaN, rounding (round to nearest, ties to even) and overflow, so that  *)
(* addition is commutative and not associative.                            *)
(*                                                                         *)
(* A number is <<sign, magnitude>> with sign 1 or -1; magnitude Infinite   *)
(* is an infinity and <<0, 0>> is the NaN: payloads are not told apart, as *)
(* TensorF64::bit_eq does not.  Magnitudes have two significant bits.      *)
(***************************************************************************)
EXTENDS Integers

MaxFinite  == 6
Infinite   == 7
Magnitudes == {0, 1, 2, 3, 4, 6}      \* the finite ones

NaN      == <<0, 0>>
PosZero  == <<1, 0>>
Finites  == {1, -1} \X Magnitudes
Floats   == Finites \cup {<<1, Infinite>>, <<-1, Infinite>>, NaN}

IsFiniteFloat(x) == x \in Finites
IsZero(x)        == x # NaN /\ x[2] = 0
RealOf(x)        == x[1] * x[2]       \* the rational value of a finite one

\* The nearest magnitude; between 4, 6 and 8 ties go to the even significand,
\* and what rounds to 8 overflows.
RoundMagnitude(m) ==
  IF m >= 7 THEN Infinite ELSE IF m = 5 THEN 4 ELSE m

\* Round a real result whose exact value is not zero.
RoundReal(r) ==
  IF r > 0 THEN <<1, RoundMagnitude(r)>> ELSE <<-1, RoundMagnitude(-r)>>

FloatNeg(x) == <<-x[1], x[2]>>

FloatAdd(x, y) ==
  CASE x = NaN \/ y = NaN                       -> NaN
    [] x[2] = Infinite /\ y[2] = Infinite       -> IF x = y THEN x ELSE NaN
    [] x # NaN /\ x[2] = Infinite /\ IsFiniteFloat(y) -> x
    [] y # NaN /\ y[2] = Infinite /\ IsFiniteFloat(x) -> y
    [] IsFiniteFloat(x) /\ IsFiniteFloat(y) ->
         IF RealOf(x) + RealOf(y) # 0 THEN RoundReal(RealOf(x) + RealOf(y))
         ELSE IF x = y THEN x ELSE PosZero      \* (-0) + (-0) = -0

FloatSub(x, y) == FloatAdd(x, FloatNeg(y))

FloatMul(x, y) ==
  CASE x = NaN \/ y = NaN                                     -> NaN
    [] {x[2], y[2]} = {0, Infinite}                           -> NaN
    [] x # NaN /\ y # NaN /\ Infinite \in {x[2], y[2]} /\ 0 \notin {x[2], y[2]} ->
         <<x[1] * y[1], Infinite>>
    [] IsFiniteFloat(x) /\ IsFiniteFloat(y) ->
         <<x[1] * y[1], RoundMagnitude(x[2] * y[2])>>

FloatPositive(x) == x # NaN /\ x[1] = 1 /\ x[2] # 0

=============================================================================
