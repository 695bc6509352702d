-------------------------------- MODULE LoopIR --------------------------------
(***************************************************************************)
(* The affine loop IR of crates/loopir/src/loop_ir.rs.                     *)
(*                                                                         *)
(* The statements of a kernel are trees of loops in the code.  Lowering    *)
(* and the schedule moves build perfect nests only, of loops that count    *)
(* from zero to a constant around a list of assignments, so a statement is *)
(* [levels, body] here and a level is [var, extent].  A scalar expression  *)
(* is the name of one of the forms that lowering writes, with its loads:   *)
(*   Zero   Add   Sub   Mul   Neg   Relu   MulAdd, l1 + l2 * l3            *)
(* No index has a constant term, and every coefficient is positive: an     *)
(* affine expression is the function of the variables it depends on.       *)
(* Terms with coefficient zero, which are written by lowering for empty    *)
(* tensors, are dropped, as every reader of expressions in the code does.  *)
(***************************************************************************)
EXTENDS TypeInference

CONSTANTS MaxI64,      \* the largest coefficient, index and extent
          MaxLoopVar   \* the largest id of a loop variable, u32::MAX

ASSUME LoopAssumption ==
  MaxI64 \in Nat \ {0} /\ MaxI64 <= MaxUsize /\ MaxLoopVar \in Nat

-----------------------------------------------------------------------------
(* Affine expressions; the arithmetic saturates.                            *)
\* A slip: a product is taken as it comes.
SaturateNot(x) == x

Saturate(x) == IF x > MaxI64 THEN MaxI64 ELSE x

Affine(f) == [v \in {w \in DOMAIN f : f[w] # 0} |-> f[v]]

\* AffineExpr::new of one term and of two.
Term(v, a)           == [x \in {v} |-> a]
TwoTerms(v, a, w, b) == [x \in {v, w} |-> IF x = v THEN a ELSE b]

\* Also the value of a variable in an environment: a missing one is zero.
Coefficient(e, v) == IF v \in DOMAIN e THEN e[v] ELSE 0

\* The sums of the terms of the variables below n.
PartialSums(e, env) ==
  LET sum[n \in 0 .. MaxLoopVar + 1] ==
        IF n = 0 THEN 0
        ELSE IF n - 1 \notin DOMAIN e THEN sum[n - 1]
        ELSE Saturate(sum[n - 1] + Saturate(e[n - 1] * Coefficient(env, n - 1)))
  IN  sum

EvalAffine(e, env) == PartialSums(e, env)[MaxLoopVar + 1]

Substitute(e, var, replacement) ==
  Affine([v \in (DOMAIN e \ {var}) \cup DOMAIN replacement |->
            Saturate((IF v = var THEN 0 ELSE Coefficient(e, v))
                       + Saturate(Coefficient(e, var)
                                    * Coefficient(replacement, v)))])

-----------------------------------------------------------------------------
(* Buffers, statements and kernels.                                         *)
Buffer(role, shape, init) == [role |-> role, shape |-> shape, init |-> init]
Ref(buffer, index)        == [buffer |-> buffer, index |-> index]
Assign(target, op, loads) == [target |-> target, op |-> op, loads |-> loads]
Level(var, extent)        == [var |-> var, extent |-> extent]
Nest(levels, body)        == [levels |-> levels, body |-> body]

LevelVars(nest) == {nest.levels[k].var : k \in DOMAIN nest.levels}

Writes(body)    == {body[k].target : k \in DOMAIN body}
Reads(body)     == UNION {Range(body[k].loads) : k \in DOMAIN body}
BuffersOf(refs) == {ref.buffer : ref \in refs}

\* collect_stmt_vars
StmtVars(nest) ==
  LevelVars(nest)
    \cup UNION {DOMAIN ref.index : ref \in Reads(nest.body) \cup Writes(nest.body)}

SubstituteRef(ref, var, replacement) ==
  Ref(ref.buffer, Substitute(ref.index, var, replacement))

SubstituteBody(body, var, replacement) ==
  [k \in DOMAIN body |->
     Assign(SubstituteRef(body[k].target, var, replacement), body[k].op,
            [l \in DOMAIN body[k].loads |->
               SubstituteRef(body[k].loads[l], var, replacement)])]

=============================================================================
