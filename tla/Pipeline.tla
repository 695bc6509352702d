------------------------------ MODULE Pipeline ------------------------------
(***************************************************************************)
(* run_pipeline of crates/cli/src/pipeline.rs: build the example, rewrite, *)
(* search with egg, lower, tune, emit C, write it, compile and run it, and *)
(* check the result against the graph that was built.                      *)
(*                                                                         *)
(* What a stage makes of its program is one of Meanings: the values it has *)
(* over the rationals and over floats on the inputs of the check, those of *)
(* the graph that was built being Original.  Any stage may go wrong.  The  *)
(* C compiler may come and go at any moment.                               *)
(***************************************************************************)
EXTENDS Integers

CONSTANT MaxNodes   \* bound: the nodes of the graphs that are built

ASSUME PipelineAssumption == MaxNodes \in Nat \ {0}

Meanings == [exact : {0, 1}, float : {0, 1}]
Original == [exact |-> 0, float |-> 0]
Modes    == {"Strict", "FastMath"}

Options ==
  [mode : Modes, egg : BOOLEAN, cost : {"Static", "Measured"},
   check : BOOLEAN, emit : BOOLEAN, no_compile : BOOLEAN]

VARIABLES opts,
          compiler,   \* a working C compiler is installed now
          probed,     \* what has_c_compiler said
          stage,      \* the stage that comes next
          nodes,      \* of the optimized graph
          program,    \* meaning of the graph, and then of the kernel
          outputs,    \* what the compiled program computed, or << >>
          ran_c,      \* some C was compiled and run
          written,    \* the C file was written
          result      \* "Report" or an error; "None" before the return

vars == <<opts, compiler, probed, stage, nodes, program, outputs, ran_c,
          written, result>>

Init ==
  /\ opts \in Options
  /\ compiler \in BOOLEAN
  /\ probed = FALSE
  /\ stage = "Build"
  /\ nodes = 0 /\ program = Original /\ outputs = << >>
  /\ ran_c = FALSE /\ written = FALSE
  /\ result = "None"

CompilerChanges ==
  /\ stage # "Done"
  /\ compiler' = ~ compiler
  /\ UNCHANGED <<opts, probed, stage, nodes, program, outputs, ran_c, written,
                 result>>

-----------------------------------------------------------------------------
Return(r) == result' = r /\ stage' = "Done"

\* A stage that returns an error ends the run where it is.
Fails ==
  /\ \/ stage = "Build"   /\ Return("BadRequest")
     \/ stage = "Rewrite" /\ Return("Surgery")
     \/ stage = "Egg"     /\ opts.egg /\ Return("Egg")
     \/ stage = "Lower"   /\ Return("Lower")
     \/ stage = "Emit"    /\ Return("Codegen")
     \/ stage = "Write"   /\ opts.emit /\ Return("Io")
     \/ stage = "Check"   /\ opts.check /\ Return("Eval")
  /\ UNCHANGED <<opts, compiler, probed, nodes, program, outputs, ran_c, written>>

\* build_example, infer_types and the generated inputs.
Build ==
  /\ stage = "Build"
  /\ nodes' \in 1 .. MaxNodes
  /\ stage' = "Rewrite"
  /\ UNCHANGED <<opts, compiler, probed, program, outputs, ran_c, written, result>>

\* The driver returns the graph of its fixpoint or of its step cap.
Rewrite ==
  /\ stage = "Rewrite"
  /\ program' \in Meanings
  /\ nodes' \in 1 .. nodes
  /\ stage' = "Egg"
  /\ UNCHANGED <<opts, compiler, probed, outputs, ran_c, written, result>>

\* optimize_with_egg accepts a candidate that is not larger and that its gate
\* passes; the pipeline adopts it only if it is smaller.
EggAccepts(candidate) == candidate.nodes <= nodes /\ candidate.passes
EggAdopts(candidate)  == EggAccepts(candidate) /\ candidate.nodes < nodes

Egg ==
  /\ stage = "Egg"
  /\ IF ~ opts.egg THEN UNCHANGED <<nodes, program>>
     ELSE \E candidate \in [nodes : 1 .. (MaxNodes + 1), passes : BOOLEAN,
                            meaning : Meanings] :
            IF EggAdopts(candidate)
            THEN nodes' = candidate.nodes /\ program' = candidate.meaning
            ELSE UNCHANGED <<nodes, program>>
  /\ stage' = "Lower"
  /\ UNCHANGED <<opts, compiler, probed, outputs, ran_c, written, result>>

\* lower, and the probe for a compiler, which is made once.
Lower ==
  /\ stage = "Lower"
  /\ program' \in Meanings
  /\ probed' = compiler
  /\ stage' = "Tune"
  /\ UNCHANGED <<opts, compiler, nodes, outputs, ran_c, written, result>>

UsedCost == IF opts.cost = "Measured" /\ ~ probed THEN "Static" ELSE opts.cost

\* Measuring compiles and runs every candidate.  Where that fails the cost is
\* the largest there is, and the run goes on.
Tune ==
  /\ stage = "Tune"
  /\ program' \in Meanings
  /\ \E some \in BOOLEAN :
        ran_c' = (UsedCost = "Measured" /\ compiler /\ some)
  /\ stage' = "Emit"
  /\ UNCHANGED <<opts, compiler, probed, nodes, outputs, written, result>>

Emit ==
  /\ stage = "Emit"
  /\ stage' = "Write"
  /\ UNCHANGED <<opts, compiler, probed, nodes, program, outputs, ran_c,
                 written, result>>

Write ==
  /\ stage = "Write"
  /\ written' = opts.emit
  /\ stage' = "Compile"
  /\ UNCHANGED <<opts, compiler, probed, nodes, program, outputs, ran_c, result>>

\* A slip: what the probe said is not taken into account.
ShouldCompileAlways == ~ opts.no_compile

ShouldCompile == ~ opts.no_compile /\ probed

SkipCompile ==
  /\ stage = "Compile" /\ ~ ShouldCompile
  /\ stage' = "Check"
  /\ UNCHANGED <<opts, compiler, probed, nodes, program, outputs, ran_c,
                 written, result>>

\* compile_and_run looks for the compiler again.
CompileFails ==
  /\ stage = "Compile" /\ ShouldCompile
  /\ Return(IF compiler THEN "Bench" ELSE "NoCompiler")
  /\ UNCHANGED <<opts, compiler, probed, nodes, program, outputs, ran_c, written>>

CompileAndRun ==
  /\ stage = "Compile" /\ ShouldCompile /\ compiler
  /\ ran_c' = TRUE
  /\ \E value \in {0, 1} : outputs' = <<value>>
  /\ stage' = "Check"
  /\ UNCHANGED <<opts, compiler, probed, nodes, program, written, result>>

-----------------------------------------------------------------------------
(* check_pipeline: which comparisons are made depends on the mode and on     *)
(* whether there are outputs; any difference is an error.                    *)
ExactDiffers == program.exact # Original.exact
FloatDiffers == program.float # Original.float
COutputDiffers == outputs # << >> /\ outputs[1] # program.float

\* A slip: the outputs of C are compared in Strict mode only.
DiffersInStrict ==
  ExactDiffers \/ (opts.mode = "Strict" /\ (FloatDiffers \/ COutputDiffers))

Differs ==
  \/ ExactDiffers
  \/ opts.mode = "Strict" /\ FloatDiffers
  \/ COutputDiffers

Check ==
  /\ stage = "Check"
  /\ IF opts.check /\ Differs THEN Return("CheckFailed") ELSE Return("Report")
  /\ UNCHANGED <<opts, compiler, probed, nodes, program, outputs, ran_c, written>>

Next ==
  \/ CompilerChanges \/ Fails \/ Build \/ Rewrite \/ Egg \/ Lower \/ Tune
  \/ Emit \/ Write \/ SkipCompile \/ CompileFails \/ CompileAndRun \/ Check

Spec == Init /\ [][Next]_vars

-----------------------------------------------------------------------------
\* A report after a self-check means, whatever went wrong in whichever stages:
\* the kernel computes what the graph that was built computes over the
\* rationals; in Strict mode the kernel and the compiled program compute its
\* floats; and in both modes the compiled program computes the kernel's.
CheckedReportAgrees ==
  result = "Report" /\ opts.check =>
     /\ program.exact = Original.exact
     /\ opts.mode = "Strict" =>
           program.float = Original.float /\ outputs \in {<< >>, <<Original.float>>}
     /\ outputs \in {<< >>, <<program.float>>}

\* That there is no compiler is not an error: it is one only if the compiler
\* that the run had found has since disappeared, between the probe and its use.
MissingCompilerIsNoError == result = "NoCompiler" => probed /\ ~ compiler

\* The doc comment of RunOpts::no_compile: "Skip C compilation and execution."
NoCompileSkipsCompilation == opts.no_compile => ~ ran_c
=============================================================================
