---------------------------- MODULE LoopSemantics ----------------------------
(***************************************************************************)
(* The two meanings of a kernel, beside the two meanings of a graph: the   *)
(* same two number domains, run by the loop interpreters.                  *)
(***************************************************************************)
EXTENDS Semantics, LoopIR

ExactLoops == INSTANCE LoopEval
                WITH Zero <- 0, Plus <- IntPlus, Minus <- IntMinus,
                     Times <- IntTimes, Negate <- IntNegate,
                     IsPositive <- IntIsPositive, LiftLiteral <- RealOf,
                     IsFinite <- IsFiniteFloat

FloatLoops == INSTANCE LoopEval
                WITH Zero <- PosZero, Plus <- FloatAdd, Minus <- FloatSub,
                     Times <- FloatMul, Negate <- FloatNeg,
                     IsPositive <- FloatPositive, LiftLiteral <- Same,
                     IsFinite <- IsFiniteFloat

\* The same kernel, emitted as C, compiled and run over doubles.
Program == INSTANCE EmittedC
             WITH Zero <- PosZero, Plus <- FloatAdd, Minus <- FloatSub,
                  Times <- FloatMul, Negate <- FloatNeg,
                  IsPositive <- FloatPositive, LiftLiteral <- Same,
                  IsFinite <- IsFiniteFloat

=============================================================================
