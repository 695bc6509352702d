----------------------------- MODULE CompiledRun -----------------------------
(***************************************************************************)
(* compile_and_run and measure_runtime of crates/codegen/src/bench.rs: the *)
(* caller compiles the emitted program into a temporary directory, runs it *)
(* as a child process, writes all inputs to its standard input and then    *)
(* collects its standard output.  The other side is the main function that *)
(* emit_c writes.  Both pipes hold at most PipeCapacity values; the child  *)
(* may be killed at any moment, and writes nothing to its standard error.  *)
(***************************************************************************)
EXTENDS Integers

CONSTANTS Kernels,       \* [reads, prints, emittable, bound]: the values read
                         \* and printed, whether C can be emitted, and whether
                         \* the caller's inputs fit the declared ones
          PipeCapacity

ASSUME CompiledRunAssumption ==
  /\ PipeCapacity \in Nat \ {0}
  /\ \A k \in Kernels : k.reads \in Nat /\ k.prints \in Nat

VARIABLES kernel,
          purpose,   \* "Run" or "Measure"
          caller,    \* "Called", "Compiled", "Writing", "Draining", "Returned"
          result,    \* "Ok" or an error; "None" before the return
          directory, \* the temporary directory, with the binary, exists
          unsent,    \* values the caller has still to write
          stdin,     \* values in the child's standard input
          stdout,    \* values in its standard output
          received,  \* values the caller has collected
          child,     \* "None", "Reading", "Printing", "Exited" or "Failed"
          consumed, printed

callerVars == <<caller, result, directory, unsent, received>>
childVars  == <<child, consumed, printed>>
pipes      == <<stdin, stdout>>
vars       == <<kernel, purpose, callerVars, childVars, pipes>>

Init ==
  /\ kernel \in Kernels
  /\ purpose \in {"Run", "Measure"}
  /\ caller = "Called" /\ result = "None" /\ directory = FALSE
  /\ unsent = 0 /\ received = 0
  /\ stdin = 0 /\ stdout = 0
  /\ child = "None" /\ consumed = 0 /\ printed = 0

ChildGone  == child \in {"Exited", "Failed"}
ChildAlive == child \in {"Reading", "Printing"}

-----------------------------------------------------------------------------
(* The caller.                                                              *)

\* Every return drops the CompiledKernel, and with it the directory.
Return(r) ==
  /\ result' = r
  /\ caller' = "Returned"
  /\ directory' = FALSE

\* compile_kernel: detect the compiler, emit, write the source, compile.
CompileFails ==
  /\ caller = "Called"
  /\ \E r \in {"NoCompiler", "CompileFailed", "Io"} : Return(r)
  /\ UNCHANGED <<kernel, purpose, unsent, received, childVars, pipes>>

\* A slip: the directory is dropped when compilation ends.
CompileAndDrop ==
  /\ caller = "Called"
  /\ kernel.emittable
  /\ caller' = "Compiled"
  /\ UNCHANGED <<kernel, purpose, result, directory, unsent, received,
                 childVars, pipes>>

Compile ==
  /\ caller = "Called"
  /\ kernel.emittable
  /\ directory' = TRUE
  /\ caller' = "Compiled"
  /\ UNCHANGED <<kernel, purpose, result, unsent, received, childVars, pipes>>

\* input_bits refuses the inputs, or the process cannot be created.
SpawnFails ==
  /\ caller = "Compiled"
  /\ IF kernel.bound THEN Return("Io") ELSE Return("RunFailed")
  /\ UNCHANGED <<kernel, purpose, unsent, received, childVars, pipes>>

Spawn ==
  /\ caller = "Compiled"
  /\ kernel.bound
  /\ child' = "Reading"
  /\ unsent' = kernel.reads
  /\ caller' = "Writing"
  /\ UNCHANGED <<kernel, purpose, result, directory, received, consumed,
                 printed, pipes>>

\* write_all blocks while the pipe is full, and fails once nobody reads.
Write ==
  /\ caller = "Writing" /\ unsent > 0
  /\ ChildAlive /\ stdin < PipeCapacity
  /\ stdin' = stdin + 1
  /\ unsent' = unsent - 1
  /\ UNCHANGED <<kernel, purpose, caller, result, directory, received,
                 childVars, stdout>>

WriteFails ==
  /\ caller = "Writing" /\ unsent > 0
  /\ ChildGone
  /\ Return("Io")
  /\ UNCHANGED <<kernel, purpose, unsent, received, childVars, pipes>>

CloseStdin ==
  /\ caller = "Writing" /\ unsent = 0
  /\ caller' = "Draining"
  /\ UNCHANGED <<kernel, purpose, result, directory, unsent, received,
                 childVars, pipes>>

\* wait_with_output reads until the child has closed its output, then waits
\* for the child.
\* Slips: the end of the output is taken for a value; the child is waited for
\* first.
DrainPastEnd ==
  /\ caller = "Draining"
  /\ stdout' = stdout - 1
  /\ received' = received + 1
  /\ UNCHANGED <<kernel, purpose, caller, result, directory, unsent,
                 childVars, stdin>>
DrainAfterExit ==
  /\ caller = "Draining" /\ ChildGone /\ stdout > 0
  /\ stdout' = stdout - 1
  /\ received' = received + 1
  /\ UNCHANGED <<kernel, purpose, caller, result, directory, unsent,
                 childVars, stdin>>

Drain ==
  /\ caller = "Draining" /\ stdout > 0
  /\ stdout' = stdout - 1
  /\ received' = received + 1
  /\ UNCHANGED <<kernel, purpose, caller, result, directory, unsent,
                 childVars, stdin>>

\* Only compile_and_run looks at the output: measure_runtime discards it.
\* A slip: the exit status is not looked at.
VerdictOfOutput ==
  IF purpose = "Run" /\ received # kernel.prints THEN "Parse" ELSE "Ok"

Verdict ==
  IF child = "Failed"                               THEN "RunFailed"
  ELSE IF purpose = "Run" /\ received # kernel.prints THEN "Parse"
  ELSE "Ok"

Collect ==
  /\ caller = "Draining" /\ stdout = 0 /\ ChildGone
  /\ Return(Verdict)
  /\ UNCHANGED <<kernel, purpose, unsent, received, childVars, pipes>>

-----------------------------------------------------------------------------
(* The child: it reads all its inputs before it prints anything.            *)
Read ==
  /\ child = "Reading" /\ consumed < kernel.reads
  /\ stdin > 0
  /\ stdin' = stdin - 1
  /\ consumed' = consumed + 1
  /\ UNCHANGED <<kernel, purpose, callerVars, child, printed, stdout>>

Compute ==
  /\ child = "Reading" /\ consumed = kernel.reads
  /\ child' = "Printing"
  /\ UNCHANGED <<kernel, purpose, callerVars, consumed, printed, pipes>>

PrintNext ==
  /\ child = "Printing" /\ printed < kernel.prints
  /\ stdout < PipeCapacity
  /\ stdout' = stdout + 1
  /\ printed' = printed + 1
  /\ UNCHANGED <<kernel, purpose, callerVars, child, consumed, stdin>>

Exit ==
  /\ child = "Printing" /\ printed = kernel.prints
  /\ child' = "Exited"
  /\ UNCHANGED <<kernel, purpose, callerVars, consumed, printed, pipes>>

\* A stack overflow, a signal, a full disk: the child ends with a failure.
Crash ==
  /\ ChildAlive
  /\ child' = "Failed"
  /\ UNCHANGED <<kernel, purpose, callerVars, consumed, printed, pipes>>

-----------------------------------------------------------------------------
CallerStep == \/ CompileFails \/ Compile \/ SpawnFails \/ Spawn
              \/ Write \/ WriteFails \/ CloseStdin \/ Drain \/ Collect
ChildStep  == Read \/ Compute \/ PrintNext \/ Exit

\* Nothing is left to do.
Stop == caller = "Returned" /\ ~ ChildAlive /\ UNCHANGED vars

Next == CallerStep \/ ChildStep \/ Crash \/ Stop

Spec == Init /\ [][Next]_vars

\* Either process runs when it is not blocked; nothing makes the child crash.
FairSpec == Spec /\ WF_vars(CallerStep) /\ WF_vars(ChildStep)

-----------------------------------------------------------------------------
TypeOK ==
  /\ kernel \in Kernels
  /\ purpose \in {"Run", "Measure"}
  /\ caller \in {"Called", "Compiled", "Writing", "Draining", "Returned"}
  /\ result \in {"None", "Ok", "NoCompiler", "CompileFailed", "RunFailed",
                 "Parse", "Io"}
  /\ directory \in BOOLEAN
  /\ unsent \in Nat /\ received \in Nat
  /\ stdin \in 0 .. PipeCapacity /\ stdout \in 0 .. PipeCapacity
  /\ consumed \in Nat /\ printed \in Nat
  /\ child \in {"None", "Reading", "Printing", "Exited", "Failed"}

\* A run counts only if the program ran to its end, whatever part of its output
\* had arrived when it died: a kernel that crashes early would otherwise be the
\* fastest that the tuner measures.  What then arrived is all of the output.
OnlyFinishedRunsCount ==
  result = "Ok" =>
     /\ child = "Exited"
     /\ consumed = kernel.reads
     /\ received = kernel.prints

\* The binary is there as long as the child runs, the caller does not return
\* before the child is gone, and no directory is left behind.
ChildConfined ==
  /\ ChildAlive => directory /\ caller # "Returned"
  /\ caller = "Returned" => ~ directory

\* The caller and the child never wait for each other for ever: every call
\* returns, for pipes of any capacity, however much goes through them.
CallReturns == <>(caller = "Returned")
=============================================================================
