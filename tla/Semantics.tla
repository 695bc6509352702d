------------------------------ MODULE Semantics ------------------------------
(***************************************************************************)
(* The two meanings of a graph that the project's validation compares:     *)
(* eval.rs over the rationals (on integers, which all operations of the    *)
(* IR stay within) and eval_f64.rs over floats (in a small format).  A     *)
(* literal is written in that format; the exact interpreter lifts it to    *)
(* its rational value.                                                     *)
(***************************************************************************)
EXTENDS TypeInference, TinyFloat

IntPlus(a, b)    == a + b
IntMinus(a, b)   == a - b
IntTimes(a, b)   == a * b
IntNegate(a)     == -a
IntIsPositive(a) == a > 0
Same(x)          == x

Exact == INSTANCE TensorEval
           WITH Zero <- 0, Plus <- IntPlus, Minus <- IntMinus,
                Times <- IntTimes, Negate <- IntNegate,
                IsPositive <- IntIsPositive, LiftLiteral <- RealOf,
                IsFinite <- IsFiniteFloat

Float == INSTANCE TensorEval
           WITH Zero <- PosZero, Plus <- FloatAdd, Minus <- FloatSub,
                Times <- FloatMul, Negate <- FloatNeg,
                IsPositive <- FloatPositive, LiftLiteral <- Same,
                IsFinite <- IsFiniteFloat

Computes(run) == run.err = "None"

\* What a graph means to its caller: the types of its outputs and what both
\* interpreters make of them.
OutputTypes(g, inferred) ==
  [typed |-> Computes(inferred),
   types |-> IF ~ Computes(inferred) THEN << >>
             ELSE [k \in DOMAIN g.outputs |-> inferred.types[g.outputs[k]]]]

MeaningOn(g, exactEnv, floatEnv) ==
  [output |-> OutputTypes(g, InferTypes(g)),
   exact  |-> Exact!Eval(g, exactEnv),
   float  |-> Float!Eval(g, floatEnv)]

\* A well-typed graph stays well-typed, and computes what it computed: over the
\* rationals in both modes, and bit for bit in Strict mode.
SameMeaning(mode, before, after) ==
  before.output.typed =>
     /\ after.output = before.output
     /\ Computes(before.exact) => after.exact = before.exact
     /\ mode = "Strict" /\ Computes(before.float) =>
           after.float = before.float

=============================================================================
