---------------------------- MODULE NumericSafety ----------------------------
(***************************************************************************)
(* The numeric-safety classification of rewrites (crates/rewrite/src/      *)
(* safety.rs): the laws a rewrite names as its justification decide        *)
(* whether it is bit-exact, and the mode decides whether it may run.       *)
(***************************************************************************)
EXTENDS Sequences, SequencesExt

BitExactLaws ==
  {"StructuralOnly", "IntegerArithmetic", "FloatAddComm", "FloatMulComm",
   "MulOneIdentity", "ReluIdempotent", "NegInvolutive"}

RealOnlyLaws ==
  {"FloatAddAssoc", "FloatMulAssoc", "FloatDistributive", "AddZeroIdentity",
   "MulZeroAnnihilator"}

Laws  == BitExactLaws \cup RealOnlyLaws
Modes == {"Strict", "FastMath"}

\* Slips: a real-only law taken for bit-exact, and the other way round.
PreservesBitsOfAddZero(law) == law \in BitExactLaws \cup {"AddZeroIdentity"}
PreservesBitsNotMulOne(law) == law \in BitExactLaws \ {"MulOneIdentity"}

PreservesBits(law) == law \in BitExactLaws

\* from_laws: a rewrite without a justification is not bit-exact.
SafetyOf(laws) ==
  IF laws # << >> /\ \A law \in Range(laws) : PreservesBits(law)
  THEN "BitExact" ELSE "RealOnly"

Allows(mode, safety) == mode = "FastMath" \/ safety = "BitExact"

=============================================================================
