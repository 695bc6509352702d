---------------------------- MODULE MCCompiledRun ----------------------------
(***************************************************************************)
(* Kernels that read and print less and more than a pipe holds, some that  *)
(* cannot be emitted and some whose inputs are missing.                    *)
(***************************************************************************)
EXTENDS CompiledRun

MCKernels ==
  [reads : {0, 1, 2, 5}, prints : {1, 2, 5}, emittable : {TRUE}, bound : {TRUE}]
  \cup [reads : {1}, prints : {1}, emittable : BOOLEAN, bound : BOOLEAN]
=============================================================================
