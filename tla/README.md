# A TLA+ development for vtc

vtc compiles tensor programs: a graph is built, rewritten, lowered to loop nests,
scheduled, emitted as C, compiled, run, and checked against the graph it came from.
Its claim is that no stage changes what the program computes: exactly over the rationals,
and bit for bit over floats in `Strict` mode. This directory holds TLA+ modules
for the parts that carry that claim, the TLC runs that check them on small instances,
and TLAPS proofs of their safety for instances of every size.

`PROJECT.json` lists the components, the runs, for each property a mutated definition
that breaks it, the source lines each definition stands for, the hazards, the findings
and the theorems.

## 1. The system

| Component | Source (`src/crates/`) | State | Operations | What makes it correct |
|---|---|---|---|---|
| Graph IR | `ir/src/graph.rs`, `op.rs` | arena of nodes, inputs, outputs | `validate_structure`, `topo_order` | every operand precedes its user; sorting is right on any arena |
| Builder | `ir/src/builder.rs` | the same three lists | one call per operation, `mark_output`, `build` | refused calls change nothing; what is built is valid |
| Type inference | `ir/src/infer.rs` | none | `infer_types` | accepts only what the interpreter can evaluate |
| Interpreters | `interp/src/eval.rs`, `eval_f64.rs` | values by node | `eval`, `eval_f64` | the definition of meaning |
| Surgery, rules | `rewrite/src/surgery.rs`, `rules.rs` | none | `replace_all_uses`, `redefine_node`, `prune_and_rebuild`, `try_at` | results are valid; signature kept; no redex lost |
| Safety classes | `rewrite/src/safety.rs`, `ruleset.rs` | none | `preserves_bits`, `allows`, `enabled` | the table agrees with float arithmetic |
| Driver | `rewrite/src/driver.rs` | graph, applied rules | `run` | never fails, ends, fixpoints are complete, meaning is kept |
| Equality saturation | `rewrite/src/egg_search.rs`, `egg_lang.rs` | e-graph, memo tables of the conversion | `optimize_with_egg` | returns the caller's graph or one that means the same and is no larger; refuses nothing it should accept |
| Random graph generator | `rewrite/src/gen.rs` | builder, pool of values with tracked shapes, names | `gen_graph`, `gen_graph_with_pattern`, `random_*_inputs` | draws well-typed graphs with inputs that fit and the pattern asked for |
| Loop IR, lowering | `loopir/src` | buffers, environment | `lower`, loop interpreters | a kernel computes what its graph does |
| Schedule primitives | `schedule/src/{interchange,tile,fuse,deps,primitives,cost}.rs` | the kernel at hand | `tile`, `interchange`, `fuse`, `legal_moves`, `static_cost` | legal moves keep the meaning |
| Tuner | `schedule/src/autotune.rs` | current, best, their costs and moves | `autotune` | the result is what its moves give and has passed the gate |
| C emitter | `codegen/src/emit_c.rs` | none | `emit_c` | the program computes what the kernel does |
| Compile and run | `codegen/src/bench.rs` | temporary directory, child process, two pipes | `compile_and_run`, `measure_runtime` | no deadlock; only finished runs count |
| Pipeline | `cli/src/pipeline.rs` | the program so far, the probe | `run_pipeline`, `check_pipeline` | a checked report means agreement |

The components call each other: `run_pipeline` calls every stage in turn, each hands the
next a value, and an error of a stage ends the run. The tests of all stages draw their
graphs and inputs from the random graph generator. The tuner calls back a cost model
(static, or one that compiles and runs the kernel) and the loop interpreters. Nothing is
shared between threads. The only concurrency is between the caller and the compiled
program, over pipes, and with a machine whose C compiler may come or go.

The hard behaviours follow from that:

* long sequences of calls whose single steps are right: builder calls, rewrites with a
  pruning after each, search moves with restarts;
* errors that are swallowed (`.ok()?` in each rule and in `find_first_firing`; every error
  of converting an expression back counts as a candidate rejected);
* a search that a clock stops anywhere (saturation) and one that draws again when refused
  (the generator);
* memory that one execution zeroes and the other does not: the buffers of the loop
  interpreter and the local arrays of the emitted program;
* boundaries: zero extents, element counts at `usize::MAX`, index coefficients that
  saturate at `i64::MAX`, loop variables at `u32::MAX`, repeated operands, the step cap,
  signed zeros and NaN;
* values that are read twice and may differ: measured costs, the presence of a compiler;
* two processes, each of which may wait for the other, and a child that may die.

## 2. The modules

Each line lists what a module is built on; an MC module instantiates it for TLC.

```
graphs       TensorGraph, AscendingIds
               TypeInference        <- TensorGraph
               TensorEval           <- TypeInference
               GraphBuilder         <- TensorEval                       MCGraphBuilder
               RandomGraph          <- TensorEval, AscendingIds         MCRandomGraph
               TopoOrder            <- AscendingIds                     MCTopoOrder
meaning      TinyFloat
               Semantics            <- TensorEval twice, over integers and TinyFloat
               LawSafety            <- TinyFloat, NumericSafety
rewriting    GraphRewrite           <- TensorGraph, AscendingIds, NumericSafety
               RewriteDriver        <- GraphRewrite                     MCRewriteDriver
             EggLang                <- TypeInference
               EGraph, EggSearch    <- EggLang, Semantics               MCEggSearch
kernels      LoopIR                 <- TypeInference
               Lower                <- LoopIR, AscendingIds
               LoopEval, EmittedC   <- LoopIR, TensorEval
               LoopSemantics        <- LoopEval and EmittedC twice
scheduling   ScheduleMoves          <- Lower
               Schedule             <- ScheduleMoves                    MCSchedule
               StaticCost           <- ScheduleMoves
               TunedKernels         <- StaticCost, LoopSemantics
             Autotune               (its worlds: TunedKernels)          MCAutotune
execution    CompiledRun                                                MCCompiledRun
             Pipeline
abstract     SoundOptimizer, which RewriteDriver, EggSearch and Autotune implement
proofs       CommonLemmas, and on it GraphBuilder_proofs, RandomGraph_proofs,
             RewriteDriver_proofs, TopoOrder_proofs, Schedule_proofs, Autotune_proofs;
             CompiledRun_proofs
```

* **TensorGraph**: nodes `[op, args, attr]`, graphs, the node constructors, `Push`,
  `EmitError` (what a builder call reports) and `StructureError` (`validate_structure`).
  Ids start at 1 here and at 0 in the code. Strings, types and literal data are values
  that are only compared. `MaxUsize` is the width of `usize`: `Numel` is `checked_mul`.
* **TypeInference**: `infer_types`. **TensorEval**: the interpreter, once, over any
  arithmetic, with each check that it makes of an operand, an index or a result as an
  error it may end in. What runs over the nodes or the elements is a function on how many
  were treated (`Evaluations`, `Scattered`, `Offsets`), so that it can be proved about. **Semantics** instantiates it twice: over integers for `eval.rs` (every
  operation of the IR maps integers to integers) and over **TinyFloat** for
  `eval_f64.rs`, a format with two significant bits, two zeros, infinities, NaN, rounding
  to even and overflow, so that addition does not associate.
* **GraphBuilder**: one action per method. A refused call changes nothing, so it is a stuttering
  step; ids beyond the arena are among the arguments. What is built is evaluated on each
  environment of `Environments`.
* **TopoOrder**: Kahn's algorithm as a state machine, one `Pop` per iteration.
* **GraphRewrite**: the surgery and the rules as operators that return `[ok, graph]`, and
  `add-zero-elim`, the real-only rule that `tests/driver.rs` defines. **RewriteDriver**:
  `run`, one `Fire` (rule, surgery and pruning together) per iteration.
* **NumericSafety**: the law table and the gate by mode. **LawSafety**: that table against
  float arithmetic.
* **EggLang**: the language of the expressions and the conversions of a graph with
  several outputs to one expression per output and back, with both memo tables. An
  expression is a table of e-nodes; an operation outside the language is an *atom*, named
  by the node it stands for. **EGraph**: the e-graph of the egg library (external): adding,
  merging, congruence, matching, extraction; the bundled rules are those of
  `egg_search.rs`. **EggSearch**: `optimize_with_egg`. An iteration may be cut short after
  any of its rules, since saturation stops at a wall-clock limit; extraction takes any
  cheapest expression. The cost, which saturates in the code, is far from its limit here.
* **RandomGraph**: each step of a draw is one action and each random choice is free. A
  refused builder call makes the graph begin again from nothing, as the code does after
  reseeding. Names of inputs are numbers.
* **SoundOptimizer**: what an optimizer promises: at every moment the program held means
  what the original means, as far as the request asks, and it finishes. The driver, the
  equality saturation and the tuner are shown to implement it, by refinement mappings in
  their MC modules.
* **Autotune**: one action per step of the loop nest of `autotune`. Kernels are opaque: a
  world is a table of legal moves in each mode, of meanings on inputs, and of what the
  cost model may answer. **TunedKernels** makes such a world of a graph: it lowers it,
  numbers every kernel that moves reach in the rounds allowed, and tabulates their legal
  moves, static costs and outcomes in both loop interpreters. `sort_by_key` asks for the
  key again at each comparison, so a cost that varies gives it no total order. Up to
  `SmallSort` candidates (20 in Rust's library) are sorted by insertion, which compares
  every element with its neighbours: the result is any arrangement that the answers can
  justify. Of more candidates the library promises an order only if the answers are
  consistent; otherwise the model takes any permutation or, in the action `SortPanics`, the
  panic that the library's documentation reserves. Nothing in the repository catches it.
* **LoopIR**: affine expressions as functions from loop variables to coefficients, with
  the saturating arithmetic of `AffineExpr`; references, assignments and kernels. The code's
  statements are trees; lowering and the moves build perfect nests with constant bounds
  only, so a statement is `[levels, body]`, and a scalar expression is one of the seven
  forms that lowering writes. **Lower** is `lower` with its refusals in their order, node by
  node in the order of the sort. **LoopEval** is the loop interpreter over any arithmetic,
  and **LoopSemantics** its two instances, beside those of the graph.
* **EmittedC**: what the C program that `emit_c` writes does, over any arithmetic: what the
  emitter refuses; input and output streams; arrays of which nothing is written until a
  statement writes it, and whose indices nothing checks. Whatever C leaves undefined is
  the outcome `Undefined`.
* **ScheduleMoves**: `interchange`, `tile` and `fuse` as operators, with their legality
  checks, the dependence classes of `deps.rs`, the substitution of variables and the
  choice of fresh ones, and `legal_moves`. **StaticCost**: `static_cost`. **Schedule**:
  one action per kind of move; a behaviour lowers a graph and applies legal moves, one
  after the other and without the oracle gate that the tuner puts between them.
* **CompiledRun**: the caller and the emitted program as two processes over bounded pipes;
  `Crash` kills the child at any moment.
* **Pipeline**: the stages in order with their errors. A program is its meaning, a pair
  (over the rationals, over floats); any stage may get it wrong.

## 3. What the runs show

| Run | Question | Bounds | Properties |
|---|---|---|---|
| `builder` | every sequence of calls | 3 nodes, 1 output, 4 shapes with extents 0 to 3, `MaxUsize` 8, a NaN literal, one input name | fails closed; input list; inference against interpreter; `sum` against a reference |
| `topo_order` | every arena | 3 nodes with up to 2 operands (dangling too), 4 nodes with one operand used up to twice | order, verdict, return |
| `driver` | every graph and mode | 4 nodes over the operations the rules read, chains of 6; caps 3 and 9 | never fails; signature; dead nodes; fixpoints; progress; refinement |
| `egg` | equality saturation | graphs of 2 or 3 operations over matrices 2 by 4, several outputs, ill-typed graphs; 2 iterations of the bundled rules, one of an unsound one; 0 or 1 trials | candidate well formed; nothing right refused; refinement |
| `generator` | all that it can draw | up to 2 steps, extents up to 2, rank up to 2 (3 in the code), `MaxUsize` 3 | well typed; inputs fit; pattern fires |
| `law_safety` | is the table right | all triples of 15 floats | both directions |
| `autotune` | the search | 4 made-up kernels, costs 1 to 3 and two varying models with 3 candidates to sort and with 4, `SmallSort` 3, 3 kinds of wrong kernels; 4 graphs lowered, with the 60 to 435 kernels their moves reach; up to 3 rounds, 0 to 2 trials, up to 1 restart | moves replay; outcome fits; cheapest move; restarts; refinement; the search ends, and when it returns |
| `schedule` | lowering and all sequences of moves | 48 graphs in both modes, up to 3 moves, tile sizes 1 and 2, `MaxI64` 8, `MaxLoopVar` 8 | closed indices; promise of the parallel class; kernel against graph; C program against kernel |
| `compiled_run` | two processes | pipes of 2, up to 5 values each way | no deadlock; finished runs; confinement; return |
| `pipeline` | stages and self-check | 2 nodes, all options | checked reports; missing compiler |
| `autotune_counts`, `pipeline_no_compile` | findings | as above | violated, see 5 |

Why the bounds are enough. A rule looks at most two operands deep, so four nodes
hold a redex with a user and a bystander, and six-node chains several rewrites and a cap
that binds (3) or does not (9). In `builder` an element count overflows from nine up and
the shape `<<3, 0, 3>>` hides one behind its zero. Each arena of three nodes includes
self-loops, cycles of two and three, diamonds and double edges. In `compiled_run` 5 is
more than both pipes hold, 0 and 1 less than one does. In `schedule` three moves are what it takes to reach the
boundaries: two tilings and an interchange between them, a fusion between tilings, three
tilings of an empty tensor, after which a coefficient saturates at 8, and fusions that use
up the variables to the last, after which the "fresh" one is in use already. The arenas
of `schedule` hold every operation, sums over inner, outer and several axes, reshape aliases next to
their operand, scalars, zero extents, adjacent nests with equal bounds, and graphs that
lowering refuses. The float inputs are such that sums in another order differ, and one
pair of inputs has a wrong name and shape. The tuner's worlds have a cycle of moves, moves that are
duplicated, kernels that fail to evaluate, and a *drift*, in which each step looks equal
to the one before although the end differs from the start; those made of real graphs
have every kind of move (in `FastMath` an interchange of a reduction too, which changes
bits, and which the tuner does adopt) and the costs of the code's model. `SmallSort` is 3 where
the library has 20: under either varying model three candidates are sorted by insertion,
and four are sorted in any order or not at all. In `egg` two
additions over three leaves are what associativity needs, an opaque operation between
algebraic ones what the two memo tables need, and two iterations what a rule needs to
apply to what another one made. In `generator` an element count overflows from four up,
so that a matrix of two by two cannot be sized.

Distinct states: `builder` 325,370, `schedule` 43,427, `autotune` 113,904, `driver`
112,058, `egg` 48,922, `generator` 224,594. The theorems of section 4 lift the bounds of
every property of `builder`, of `topo_order`, of the driver's but the
refinement, of the generator's but `PatternFires`, of the tuner's safety properties, of
`IndicesClosed` and `ParallelMeansIndependent`, and of `compiled_run`
(liveness apart, and `SumAddsEachSliceOnce` in another form).

`KernelComputesGraph` compares the loop interpreters with the graph interpreters after
lowering and after every move: exactly in both modes, bit for bit in `Strict` mode and
before any move, errors included. `ProgramComputesKernel` compares the emitted C program
with the float loop interpreter on every kernel the moves reach: nothing undefined is met,
though nothing zeroes a temporary and nothing checks an index. `IndicesClosed` is what keeps the zero that a missing
variable evaluates to from being read, and `ParallelMeansIndependent` checks the documented
promise of `LevelDep::Parallel` against the iterations themselves, on kernels that were
tiled and fused before.

`InternalErrorsOnlyFromOverflow` is the soundness of type inference: the consistency
errors of the interpreter (`EvalError::Internal`), an index out of range included, are
reached from an inferred graph only through an element count that a zero extent hides.
`InputsFitGraph` says of a drawn graph that the interpreter evaluates it without any error
on the inputs drawn for it. `RewritesProgress` is the variant of the
driver's loop: nodes, then the total depth of reshapes. `ImplementsSoundOptimizer` of
the driver compares the types and the values of both interpreters on vectors with every kind of float; of the equality saturation it says the same of the bundled rules,
with or without a trial and wherever the clock stopped it, and that with an unsound rule
what is returned has passed a trial. Of the tuner it says that a made-up kernel that
every input tells apart from the lowered one is never kept, provided the gate makes a
trial, and that over real kernels no input tells the result apart, though the gate may
make no trial.

`StrictAccepts` is the converse of soundness: errors of converting back, and candidates
that are larger, count as rejections, so a faulty conversion would look like a search
that found nothing; in `Strict` mode no candidate is refused. `CandidateWellFormed` gives
the candidate's inputs exactly; it drops those that nothing uses any more, which pruning
keeps. `PatternFires` says that the rule a drawn pattern is for fires on it.

**Deadlock** is checked in `compiled_run` (a returned call may idle, nothing else may)
and in `law_safety`; in the others the program returns, and the model stops there.

**Fairness.** `autotune` and `topo_order` are loops of one thread: `WF_vars(Next)`
says only that the thread is scheduled. The number of iterations is not assumed.
`TuningReturns` says that the search always ends, and that it ends by returning if the cost
model is static or no kernel has more than `SmallSort` legal moves. With a measured cost
and more of them it may end in the sort's panic, against which the code has no guard and
of which its docs do not speak; `pipeline` does not model that. In
`compiled_run` each process is scheduled (`WF` of the caller's and the child's steps) and
a crash is never obliged to happen. That the driver ends is not run as a liveness
property: `RewritesProgress` is the variant that makes it end, checked and proved of every step. That
the generator ends cannot hold of free choices: it may draw a graph that is refused again
and again, and only chance ends that.

## 4. What is proved

For every value of the constants under the named assumptions, which TLC also evaluates
in the runs: `MaxUsizeAssumption` and `LoopAssumption` (widths are positive, `i64` is
no wider than `usize`), `BuilderAssumption` (arguments are of their types; environments
bind tensors), `GeneratorAssumption` (no extent is zero, a drawn literal is finite),
`DriverAssumption` (the driver is given graphs as built, with attributes of their types), `ScheduleAssumption` (lowering
is given graphs, of any kind), `TopoAssumption`, `AutotuneAssumption`,
`CompiledRunAssumption`. The scalar arithmetic of the interpreter is a parameter of which
nothing is assumed.

Induction has to be over sets of numbers here (the library's theorems about it
take an operator, which the provers cannot instantiate): each result about a recursive
function defines the set S of the n up to which it holds, shows that 0 is in S and n + 1
with n, and cites `SetInduction`, which rests on the finiteness of intervals.

* **CommonLemmas**: that induction; ranks in finite sets of numbers, for the renumbering of
  pruning and for the queue of the sort; lists; inference node by node (what it makes of a
  node depends on the types before it only, and never is its internal error); counts of
  elements, which come out the same multiplied from the right as long as the code's, from
  the left, does not overflow; and `AcceptedGraphEvaluates`: the offsets of products and of sums are in
  range, the values that the interpreter computes fill the inferred shapes, so that none of
  its consistency checks fails. Then types and values as the solutions of equations, one per
  node (what solves them is what is computed, and nothing else does), what a node computes
  from operands that have moved, and values over any set of scalars that is closed under
  the arithmetic.
* **GraphBuilder_proofs**: `TypeOK`, `BuildFindsOnlyMissingOutputs`,
  `InputListIsInputNodes`, and `BuiltIsValid`, which discharges what the driver assumes.
  The invariant is that the graph is *sound* at every moment: no error of
  `validate_structure` but the missing output can be found in it, and each attribute is
  what its call was given. The property alone is about the last step only and is not
  inductive. `AcceptedGraphsCompute` is `InternalErrorsOnlyFromOverflow`: with that
  invariant a built graph is one that `AcceptedGraphEvaluates` is about. `SumAddsSlices`
  says of the sums of a built graph, whenever it evaluates, what `SumAddsEachSliceOnce`
  checks against a reference that counts coordinates: the element of the result at the
  coordinates that an element of the operand keeps holds what the elements of that slice
  add up to from zero, each once, in row-major order (`SliceSums`), elements of other
  slices go elsewhere, and zero is where nothing goes. It rests on `FlatToMulti` and
  `MultiToFlat` being inverse to each other below the number of elements, on dropped axes
  taking no other coordinate with them, and on the code's special case for a sum over all
  axes being none; an induction over the elements scattered so far does the rest.
* **RewriteDriver_proofs**: first surgery by itself. `PruneKeeps`: pruning a valid graph
  succeeds, keeps its signature and leaves no dead node; `RedexFires`: where a rule
  matches, its surgery succeeds, so that swallowing surgery errors loses nothing. Then the
  driver: `TypeOK`, `NeverFails`, `SignatureKept`, `NoDeadNodes` together are inductive,
  since pruning needs the validity that the rule's surgery leaves; `FixpointHasNoRedex`
  follows with `RedexFires`. `RewritesMakeProgress` is `RewritesProgress`: what a rule
  replaces has no user left and is pruned, so nodes get fewer; only the fusion of reshapes
  may keep their number, and then the chain it skips one of is shorter and no other is
  longer, renumbered or not. `RunKeepsMeaning`: inference gives the outputs of the
  rewritten graph the types it gave those of the caller's graph, and on all inputs on which
  that one evaluates without an error the two evaluate to the same. (A graph that fails
  may stop failing, since the node that failed may be dead.) The invariant
  is that the graph so far *follows* the caller's: solutions of the equations of one give
  solutions of those of the other, the same at the outputs, which composes over steps and
  does not mention what recursion computes. Pruning moves solutions; a rule
  that redirects uses has the same solutions because target and replacement are alike; a
  fused reshape has the same node type and value. `DriverImplementsSoundOptimizer`: so the
  driver implements SoundOptimizer with that meaning as what is preserved. The scalars are
  any set closed under the arithmetic with the literals of the graph in it, on which
  negating twice changes nothing (`Lawful`); in FastMath mode only, where the rule for added
  zeros is enabled, adding a zero literal must change nothing either. The run `law_safety`
  shows the first of floats, and the second to fail on them; clipping twice
  needs no law.
* **TopoOrder_proofs**: `TypeOK` (no indegree wraps), `OrderIsTopological`,
  `VerdictIsRight`, and `ValidatedGraphsSort`: a graph that passes validation is never
  called cyclic, so that the driver's `topo_order().ok()?` never ends a run early. The
  invariant says that an indegree counts the operands not in the order yet, that the
  queue holds exactly the ready nodes outside it, once each, and that nodes of a cycle stay out.
* **Schedule_proofs**: `ScheduleClosed` is `IndicesClosed`, of a stronger invariant: in
  every nest the loops have variables of their own, each index is over these, and each
  coefficient is from 1 to `MaxI64`. It is shown of lowering, node by node in the order of
  the sort (it needs the types inferred, since an index is made from the shapes of
  operands), and of each move: substitution of one variable by two keeps it as long as
  fresh variables are beyond all in use, which the refusal at the last `u32` guarantees, and
  fusing two nests renames both to variables that are shared. `ParallelIsIndependent` is
  `ParallelMeansIndependent`, and `IndicesStayInBuffers` says that no load or store, in any
  iteration, leaves its buffer. Neither is inductive. The invariant (`SoundInv`) adds that
  every nest is *sound*: each reference is within its buffer at every point of the loops;
  two points that write to the same place agree in all variables that its index mentions
  (a loop that it does not mention is not classified as parallel); and a buffer that a nest
  writes it accesses at one index only. Of lowering that is the arithmetic of strides: an
  offset is within the shape, and different coordinates have different offsets; operands
  come first in the order of the sort, so that what is read has been sized. Tiling splits
  the values of a variable one to one, an interchange permutes points, and a fusion is
  legal only between nests that agree on the buffers they share. The hypothesis
  `Allocatable` leaves out buffers with more elements than `i64` counts, whose addresses
  saturate; none can be allocated.
* **Autotune_proofs**: `OutcomeConsistent`, `MovesReplay`, `TakesCheapestMove`, and
  `TunerImplementsGatedOptimizer`: the tuner implements SoundOptimizer with its gate as
  what is preserved. The cost model is arbitrary: it may answer differently at each call
  (`TakesCheapestMove` is about one that does not). The invariant says of the attempt
  under way what the property says of the best one (cheaper than the lowered kernel exactly
  when moves were made, and then through the gate), that its moves are as many as the
  rounds that adopted one, that both lists of moves are recipes for their kernels, and
  that the candidates left are legal moves with the cheap ones first, none as cheap as the
  one a round has passed over. `RestartsRepeat` is `RestartsOnlyRepeat`: under a cost
  model that always answers the same, sorting by cost, description and place has one result
  (in two of them some place would come first in each), so where a number of rounds leads
  is a function of the kernel lowered (`Reached`); such answers are consistent
  (`StaticConsistent`), so long lists are sorted too, while of a varying model the proofs use
  only that a sort permutes; the invariant says that every attempt is
  where its rounds lead and that none has found better than what the first one gave.
* **RandomGraph_proofs**: for all sizes, extents, ranks and patterns. `InputsNamedApart`
  and `PoolKeepsToTheDraft`: the names returned are those of the inputs and differ, and no
  operand is drawn from a graph that was given up; the invariant numbers the inputs (the
  k-th is named k - 1), across helpers that emit one node or several and hand an error on.
  `GeneratedGraphsType` is `GeneratedIsWellTyped`: the shape tracked for each value of the
  pool is the one inferred for its node; the builder's list of nodes only grows at
  its end, so what inference made of the nodes there stays. `InputsFit` is `InputsFitGraph`: the
  graph is well drawn (operands and attributes as the constructors ask, every element
  count defined by `Sized`), so that `AcceptedGraphEvaluates` applies, and the errors which
  that leaves (a name that is not bound, an input in another shape, a literal that is
  not finite) are ruled out by how inputs and constants are made.
* **CompiledRun_proofs**: `TypeOK`, `OnlyFinishedRunsCount` and `ChildConfined`. The
  invariant adds that no value is lost (sent = read + in the pipe) and how far each process
  can be given the other; without the former a success would not imply that all was read.

Only model-checked: *which* values a program computes (`SumAddsEachSliceOnce` with its
own reference, which shares nothing with the stride arithmetic of the code, the
refinements of the equality saturation and of the tuner over real kernels, the law table,
`KernelComputesGraph`, `ProgramComputesKernel`), that the floats and the rationals of the
runs have the laws `RunKeepsMeaning` asks for (the run of the driver checks its refinement
on both), `PatternFires`, the two
properties of the conversions of the equality saturation, and the pipeline, whose only
parameter is the number of nodes. The modules of the equality saturation use recursive operators,
with which the provers do not work. Liveness under fairness is out of their reach.

## 5. Findings

* `autotune_counts`: `TuneResult::candidates_evaluated` is documented as the number of
  candidates examined by the oracle gate (`schedule/src/autotune.rs:83`) and counts
  those too that the cost check keeps from the gate (line 227).
* `pipeline_no_compile`: `RunOpts::no_compile` is documented as skipping compilation and
  execution (`cli/src/pipeline.rs:70`); with the measured cost the tuner compiles
  and runs every candidate all the same (line 376).

## 6. What is left out

* **Text forms** of graphs, kernels and numbers; wording of errors and notes. Errors are told apart by kind
  where a caller or a property does.
* **Rationals** beyond the integers (no operation of the IR divides), NaN payloads (the
  code's `bit_eq` ignores them), and widths of floats: TinyFloat shows that a law fails, or
  holds on every kind of float, not that it holds for doubles.
* **CompiledRun**: the child's output is not buffered in blocks and its standard error is
  empty. The emitted program reports a short read by exit code 3; the caller writes
  everything or finds the child gone, so that this branch is unreachable and not modelled.
  Run times are not modelled.
* **Pipeline**: the contents of the stages; programs are their meanings. That the gate of
  the equality saturation passes a candidate is a free choice, and so is whether a stage
  goes wrong: the self-check must catch it.
* **Schedule**: statements that no lowering and no move builds (imperfect nests, bounds
  that are not constant, indices with a constant term). The terms with
  coefficient zero that lowering writes for empty tensors are dropped.
* **EGraph**: the egg library is external, modelled from how it is used: in an iteration
  all rules are searched before any is applied, and classes are restored at its end. Its
  scheduler skips a rule only after a thousand matches, far more than there are here.
* **EmittedC**: the text of the program and its timing loop. Each repetition starts from
  fresh arrays, so that one stands for all.
* **RandomGraph**: the arithmetic of seeds; values of literals and inputs.
* **Not modelled**: the command line (argument parsing and literal example graphs; its
  calls are those of the builder and the pipeline) and the Lean files, a development of
  their own. Of the IR the text form is left out.

## 7. Plan

Done: (1) graphs, builder, inference, interpreters; (2) surgery, rules, driver and
`SoundOptimizer`; (3) tuner, over made-up and over real kernels; (4) compile and run, and
what the emitted program computes; (5) pipeline, topological sort; (6) loop IR, lowering,
schedule moves, static cost; (7) equality saturation; (8) the random graph generator;
proofs of (1) with the soundness of inference and the sums, of (2) with the progress of rewriting and
the meaning that every rewrite keeps, as a refinement of `SoundOptimizer`, of
the tuner's safety and its restarts, of `IndicesClosed`, indices within buffers and the
independence of parallel iterations through lowering and all moves, of the generator's
graphs and inputs, of the two processes and of the sort.

1. **More proofs**: the two invariants of the pipeline; that the pattern a generator draws
   fires its rule (`PatternFires`).
2. **Meaning**: that lowering writes what the interpreter computes, and that the legal
   moves on loops keep it.
3. **Composition**: Pipeline over the optimizers as `SoundOptimizer`s.
