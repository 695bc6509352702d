------------------------- MODULE CompiledRun_proofs -------------------------
(***************************************************************************)
(* Safety of running a compiled kernel, for pipes of any capacity and      *)
(* kernels of any size.                                                    *)
(***************************************************************************)
EXTENDS CompiledRun, TLAPS

\* Where every value is: the inputs are unsent, in the pipe or consumed, and the
\* outputs are printed once they are in the pipe or received.
NothingLost ==
  /\ child # "None" => unsent + stdin + consumed = kernel.reads
  /\ stdout + received = printed
  /\ printed <= kernel.prints
  /\ child \in {"Printing", "Exited"} => consumed = kernel.reads
  /\ child = "Exited" => printed = kernel.prints

\* How far the child is, seen from the caller.
InStep ==
  /\ caller \in {"Called", "Compiled"} => child = "None"
  /\ child = "None" => stdin = 0 /\ consumed = 0 /\ printed = 0
  /\ caller = "Called" => ~ directory
  /\ caller \in {"Compiled", "Writing", "Draining"} => directory
  /\ result # "None" => caller = "Returned"

IInv == TypeOK /\ NothingLost /\ InStep /\ OnlyFinishedRunsCount /\ ChildConfined

-----------------------------------------------------------------------------
\* When the call is made nothing is compiled, started or read.
LEMMA InitIInv == Init => IInv
<1> SUFFICES ASSUME Init
             PROVE  IInv
  OBVIOUS
<1> kernel.prints \in Nat /\ 0 \in 0 .. PipeCapacity
  BY CompiledRunAssumption DEF Init
<1>1. TypeOK
  BY DEF Init, TypeOK
<1>2. NothingLost /\ InStep
  BY DEF Init, NothingLost, InStep
<1>3. OnlyFinishedRunsCount /\ ChildConfined
  BY DEF Init, OnlyFinishedRunsCount, ChildConfined, ChildAlive
<1> QED
  BY <1>1, <1>2, <1>3 DEF IInv

\* Whatever run_compiled does keeps the invariant.
LEMMA CallerKeeps == IInv /\ CallerStep => IInv'
<1> SUFFICES ASSUME IInv, CallerStep
             PROVE  IInv'
  OBVIOUS
<1> kernel.reads \in Nat /\ kernel.prints \in Nat /\ PipeCapacity \in Nat \ {0}
  BY CompiledRunAssumption DEF IInv, TypeOK
<1> USE DEF IInv, TypeOK, NothingLost, InStep, OnlyFinishedRunsCount,
            ChildConfined, ChildAlive, ChildGone, childVars, pipes
<1>1. CASE CompileFails
  BY <1>1 DEF CompileFails, Return
<1>2. CASE Compile
  BY <1>2 DEF Compile
<1>3. CASE SpawnFails
  BY <1>3 DEF SpawnFails, Return
<1>4. CASE Spawn
  BY <1>4 DEF Spawn
<1>5. CASE Write
  <2>1. /\ stdin' \in 0 .. PipeCapacity /\ unsent' \in Nat
        /\ unsent' + stdin' + consumed = unsent + stdin + consumed
    BY <1>5 DEF Write
  <2>2. TypeOK'
    BY <1>5, <2>1 DEF Write
  <2>3. (NothingLost /\ InStep)'
    BY <1>5, <2>1 DEF Write
  <2>4. (OnlyFinishedRunsCount /\ ChildConfined)'
    BY <1>5 DEF Write
  <2> QED
    BY <2>2, <2>3, <2>4
<1>6. CASE WriteFails
  BY <1>6 DEF WriteFails, Return
<1>7. CASE CloseStdin
  BY <1>7 DEF CloseStdin
<1>8. CASE Drain
  BY <1>8 DEF Drain
<1>9. CASE Collect
  <2>1. Verdict = "Ok" => child = "Exited" /\ received = kernel.prints
    BY <1>9 DEF Collect, Verdict
  <2>2. TypeOK'
    BY <1>9 DEF Collect, Return, Verdict
  <2>3. (NothingLost /\ InStep)'
    BY <1>9 DEF Collect, Return
  <2>4. (OnlyFinishedRunsCount /\ ChildConfined)'
    BY <1>9, <2>1 DEF Collect, Return
  <2> QED
    BY <2>2, <2>3, <2>4
<1> QED
  BY <1>1, <1>2, <1>3, <1>4, <1>5, <1>6, <1>7, <1>8, <1>9 DEF CallerStep

\* So does what the compiled program does, and its crash at any point.
LEMMA ChildKeeps == IInv /\ (ChildStep \/ Crash) => IInv'
<1> SUFFICES ASSUME IInv, ChildStep \/ Crash
             PROVE  IInv'
  OBVIOUS
<1> kernel.reads \in Nat /\ kernel.prints \in Nat /\ PipeCapacity \in Nat \ {0}
  BY CompiledRunAssumption DEF IInv, TypeOK
<1> USE DEF IInv, TypeOK, NothingLost, InStep, OnlyFinishedRunsCount,
            ChildConfined, ChildAlive, ChildGone, callerVars, pipes
<1>1. CASE Read
  <2>1. /\ stdin' \in 0 .. PipeCapacity /\ consumed' \in Nat
        /\ unsent + stdin' + consumed' = unsent + stdin + consumed
    BY <1>1 DEF Read
  <2>2. TypeOK'
    BY <1>1, <2>1 DEF Read
  <2>3. (NothingLost /\ InStep)'
    BY <1>1, <2>1 DEF Read
  <2>4. (OnlyFinishedRunsCount /\ ChildConfined)'
    BY <1>1 DEF Read
  <2> QED
    BY <2>2, <2>3, <2>4
<1>2. CASE Compute
  BY <1>2 DEF Compute
<1>3. CASE PrintNext
  BY <1>3 DEF PrintNext
<1>4. CASE Exit
  BY <1>4 DEF Exit
<1>5. CASE Crash
  BY <1>5 DEF Crash
<1> QED
  BY <1>1, <1>2, <1>3, <1>4, <1>5 DEF ChildStep

\* Hence it holds in every reachable state.
LEMMA Invariance == Spec => []IInv
<1>1. IInv /\ [Next]_vars => IInv'
  <2> SUFFICES ASSUME IInv, [Next]_vars
               PROVE  IInv'
    OBVIOUS
  <2>1. CASE UNCHANGED vars
    BY <2>1 DEF IInv, TypeOK, NothingLost, InStep, OnlyFinishedRunsCount,
                ChildConfined, ChildAlive, vars, callerVars, childVars, pipes
  <2> QED
    BY <2>1, CallerKeeps, ChildKeeps DEF Next, Stop
<1> QED
  BY <1>1, InitIInv, PTL DEF Spec

-----------------------------------------------------------------------------
\* bench.rs, run_compiled: whatever the interleaving, neither pipe ever holds
\* more than its capacity and every variable keeps its type.
THEOREM TypeCorrect == Spec => []TypeOK
  BY Invariance, PTL DEF IInv

\* bench.rs, run_compiled: a result, or a measured time, is reported only of a
\* program that ran to its end, and then of all its output.
THEOREM FinishedRuns == Spec => []OnlyFinishedRunsCount
  BY Invariance, PTL DEF IInv

\* bench.rs, CompiledKernel: the binary outlives the child, and neither a child
\* nor a directory outlives the call.
THEOREM Confined == Spec => []ChildConfined
  BY Invariance, PTL DEF IInv
=============================================================================
