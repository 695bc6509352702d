----------------------------- MODULE MCAutotune -----------------------------
(***************************************************************************)
(* The tuner over four made-up kernels that moves lead to and fro between, *)
(* with every static cost from 1 to 3 and some that vary, for a few moves  *)
(* and for more than are sorted by insertion, and meanings that the inputs *)
(* tell apart always, sometimes, in rounding only, or never; and over all  *)
(* the kernels that its moves make of lowered graphs.                      *)
(***************************************************************************)
EXTENDS Autotune

\* The lowered kernel, and what it becomes.
Lowered == 1
Tiled   == 2
Swapped == 3
Both    == 4
MadeUp  == 1 .. 4

Swap    == <<1, 0, 0, 0>>
TileBy2 == <<2, 0, 0, 2>>
TileBy4 == <<2, 0, 0, 4>>

\* A tile size that is listed twice makes the same move legal twice.
MCMoves ==
  [k \in MadeUp |->
     CASE k = Lowered -> << <<Swap, Swapped>>, <<TileBy2, Tiled>>, <<TileBy2, Tiled>> >>
       [] k = Tiled   -> << <<Swap, Both>> >>
       [] k = Swapped -> << <<Swap, Lowered>>, <<TileBy2, Both>> >>
       [] k = Both    -> << <<Swap, Tiled>> >>]

\* One candidate more than MCAutotune.cfg lets be sorted by insertion.
MoreMoves == [MCMoves EXCEPT ![Lowered] = Append(@, <<TileBy4, Both>>)]

Static(c) == [k \in MadeUp |-> {c[k]}]

Varying ==
  {[Static([k \in MadeUp |-> 2]) EXCEPT ![Tiled] = {1, 3}, ![Both] = {0, 2}],
   [k \in MadeUp |-> {1, 2}]}

MCCosts == {Static(c) : c \in {f \in [MadeUp -> 1 .. 3] : f[Lowered] > 1}} \cup Varying

\* What kernels compute on the two inputs: the same; something else if tiled;
\* an error if swapped; or a drift, in which each move keeps one of the results.
Meanings ==
  LET always(v) == [x \in Inputs |-> v]
      same      == [k \in MadeUp |-> always(0)]
  IN  [same    |-> same,
       wrong   |-> [same EXCEPT ![Tiled] = always(1)],
       failing |-> [same EXCEPT ![Swapped] = always(Failed)],
       drift   |-> [same EXCEPT ![Tiled] = [x \in Inputs |-> x - 1],
                                ![Both]  = always(1)]]

MadeUpWorld(legal, cost, rational, bits) ==
  [start |-> Lowered, moves |-> [mode \in {"Strict", "FastMath"} |-> legal],
   cost |-> cost, rational |-> rational, bits |-> bits]

MadeUpWorlds ==
  {MadeUpWorld(MCMoves, c, Meanings.same, bits) :
     c \in MCCosts, bits \in {Meanings.same, Meanings.wrong, Meanings.drift}}
  \cup
  {MadeUpWorld(MCMoves, c, rational, Meanings.same) :
     c \in MCCosts, rational \in {Meanings.wrong, Meanings.failing, Meanings.drift}}
  \cup
  {MadeUpWorld(MoreMoves, c, Meanings.same, bits) :
     c \in Varying, bits \in {Meanings.same, Meanings.wrong}}

-----------------------------------------------------------------------------
(* Graphs that the tuner's moves are made for.                              *)
Real == INSTANCE TunedKernels
          WITH MaxUsize <- 64, MaxI64 <- 32, MaxLoopVar <- 32, MaxU64 <- 2000

F(name, shape) == Real!InputNode(name, "f64", shape)

GraphOf(arena) ==
  [nodes   |-> arena,
   inputs  |-> SelectSeq([i \in DOMAIN arena |-> i], LAMBDA i : arena[i].op = "Input"),
   outputs |-> <<Len(arena)>>]

\* Products, of which one can be tiled and one only be reordered; nests that can
\* be fused; a sum over two axes.
TunedArenas ==
  {<<F("x", <<2, 2>>), F("y", <<2, 2>>), Real!BinaryNode("Matmul", 1, 2)>>,
   <<F("x", <<1, 3>>), F("y", <<3, 3>>), Real!BinaryNode("Matmul", 1, 2)>>,
   <<F("x", <<4>>), Real!UnaryNode("Neg", 1), Real!UnaryNode("Relu", 2),
     Real!BinaryNode("Sub", 3, 2)>>,
   <<F("x", <<2, 4>>), Real!SumNode(1, <<2, 1>>, FALSE)>>}

Spread(list, shape) ==
  [shape |-> shape,
   data  |-> [i \in 0 .. (Real!Numel(shape) - 1) |-> list[i + 1]]]

Env(arena, x, y) ==
  [name \in {arena[i].attr.name : i \in {j \in DOMAIN arena : arena[j].op = "Input"}} |->
     IF name = "x" THEN Spread(x, arena[1].attr.shape)
                   ELSE Spread(y, arena[2].attr.shape)]

\* Numbers whose float sums depend on the order, and zeros of both signs.
Floats(first) ==
  LET ring == << <<1, 4>>, <<1, 1>>, <<-1, 1>>, <<-1, 3>>, <<-1, 0>>, <<1, 6>>,
                 <<1, 1>>, <<-1, 2>> >>
  IN  [i \in 1 .. 9 |-> ring[((i + first) % 8) + 1]]

TunedWorld(arena) ==
  Real!WorldOf(GraphOf(arena), <<2>>, 3,
    [n \in Inputs |-> Env(arena, <<2, -3, 5, 7, -11, 13, 17, -19>>, <<n, 4, -6, 9, 1, -8, 2, 7, -5>>)],
    [n \in Inputs |-> Env(arena, Floats(n), Floats(n + 3))], Failed)

TunedWorlds == {TunedWorld(arena) : arena \in TunedArenas}

MCWorlds == MadeUpWorlds \cup TunedWorlds

MCConfigs ==
  [mode : {"Strict", "FastMath"}, max_rounds : {1, 2}, validation_trials : {0, 1},
   restarts : {1}]
  \cup [mode : {"Strict"}, max_rounds : {0, 3}, validation_trials : {2},
        restarts : {0}]

-----------------------------------------------------------------------------
\* A kernel that the inputs always tell apart from the original is not its
\* optimization, provided that the gate makes any trial.  Of a lowered kernel
\* legal moves make one that no input tells apart, with a trial or without.
Alike(asked, original, kernel) ==
  \A x \in Inputs :
     /\ Agree(asked.world.rational, original, kernel, x)
     /\ asked.config.mode = "Strict" => Agree(asked.world.bits, original, kernel, x)

NotRefuted(asked, original, kernel) ==
  LET similar(meaning) == \E x \in Inputs : Agree(meaning, original, kernel, x)
  IN  \/ asked.config.validation_trials = 0
      \/ /\ similar(asked.world.rational)
         /\ asked.config.mode = "Strict" => similar(asked.world.bits)

Sound(asked, original, kernel) ==
  IF asked.world \in TunedWorlds THEN Alike(asked, original, kernel)
                                 ELSE NotRefuted(asked, original, kernel)

Optimizer ==
  INSTANCE SoundOptimizer
    WITH Programs <- UNION {KernelsOf(w) : w \in Worlds},
         Requests <- [world : Worlds, config : Configs],
         Preserves <- Sound,
         request <- [world |-> world, config |-> config],
         original <- Start, program <- best, done <- Returned

\* The tuner is an optimizer as sound as its gate: the kernel it keeps as the
\* best, and so the one it returns, was compared with the lowered kernel itself
\* and not with the kernel the move was applied to, so errors cannot add up.
ImplementsSoundOptimizer == Optimizer!Spec

\* And the search ends, whatever the gate and the cost model say.  It returns if
\* the cost model always answers the same, or nowhere offers more moves than are
\* sorted by insertion: to sort more of them by costs that are measured anew for
\* every comparison may panic.
TuningReturns ==
  LET few == \A k \in KernelsOf(world) : Len(LegalMoves(k)) <= SmallSort
  IN  /\ <>(Returned \/ pc = "Panicked")
      /\ CostIsStatic \/ few => Optimizer!Finishes
=============================================================================
