----------------------------- MODULE TunedKernels -----------------------------
(***************************************************************************)
(* The tuner and what it tunes: the world of module Autotune that a graph  *)
(* makes, with the kernels that the moves of ScheduleMoves reach from the  *)
(* lowered one, what StaticCost estimates for them, and what the two loop  *)
(* interpreters compute for them.                                          *)
(***************************************************************************)
EXTENDS StaticCost, LoopSemantics

\* The kernels that n moves may lead to, or fewer.
Reached(mode, start, tile_sizes, n) ==
  FoldLeft(LAMBDA kernels, i :
             kernels \cup UNION {{m[2] : m \in Range(MovesFrom(mode, k, tile_sizes))} :
                                   k \in kernels},
           {start}, [i \in 1 .. n |-> i])

NumberOf(kernels, k) == CHOOSE i \in DOMAIN kernels : kernels[i] = k

Numbered(list, kernels) ==
  [i \in DOMAIN list |-> <<list[i][1], NumberOf(kernels, list[i][2])>>]

\* In any order.
Listed(kernels) == FoldSet(LAMBDA k, list : Append(list, k), << >>, kernels)

\* Kernels that are reached in the last of the rounds are left as they are.
NumberedMoves(mode, start, tile_sizes, rounds, kernels) ==
  LET left == Reached(mode, start, tile_sizes, rounds - 1)
  IN  [i \in DOMAIN kernels |->
         IF kernels[i] \in left
         THEN Numbered(MovesFrom(mode, kernels[i], tile_sizes), kernels) ELSE << >>]

\* eval_loops and eval_loops_f64, failed taking the place of an error.
Outcome(run, failed) == IF run.err = "None" THEN run.outputs ELSE failed

ExactOutcomes(kernel, envs, failed) ==
  [x \in DOMAIN envs |-> Outcome(ExactLoops!EvalLoops(kernel, envs[x]), failed)]
FloatOutcomes(kernel, envs, failed) ==
  [x \in DOMAIN envs |-> Outcome(FloatLoops!EvalLoops(kernel, envs[x]), failed)]

WorldOf(g, tile_sizes, rounds, exact, float, failed) ==
  LET start   == LoweredKernel(g)
      kernels == Listed(UNION {Reached(mode, start, tile_sizes, rounds) :
                                   mode \in {"Strict", "FastMath"}})
  IN  [start    |-> NumberOf(kernels, start),
       moves    |-> [mode \in {"Strict", "FastMath"} |->
                       NumberedMoves(mode, start, tile_sizes, rounds, kernels)],
       cost     |-> [i \in DOMAIN kernels |-> {CostOf(kernels[i])}],
       rational |-> [i \in DOMAIN kernels |-> ExactOutcomes(kernels[i], exact, failed)],
       bits     |-> [i \in DOMAIN kernels |-> FloatOutcomes(kernels[i], float, failed)]]

=============================================================================
