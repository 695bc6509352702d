------------------------------- MODULE Schedule -------------------------------
(***************************************************************************)
(* What can be done to a kernel with the schedule moves: lower a graph,    *)
(* then apply legal moves one after the other, none of them compared with  *)
(* an oracle.                                                              *)
(***************************************************************************)
EXTENDS ScheduleMoves

CONSTANTS Graphs,
          TileSizes,   \* TuneConfig::tile_sizes
          MaxMoves     \* bounds the moves, as max_rounds does

ASSUME ScheduleAssumption ==
  /\ \A g \in Graphs : IsGraph(g)
  /\ TileSizes \subseteq Nat
  /\ MaxMoves \in Nat

VARIABLES mode, graph,
          kernel,
          applied      \* how many moves

vars == <<mode, graph, kernel, applied>>

Init ==
  /\ mode \in {"Strict", "FastMath"}
  /\ graph \in Graphs
  /\ kernel = LoweredKernel(graph)
  /\ applied = 0

-----------------------------------------------------------------------------
\* A bound on how many moves a behaviour makes.
OneMove ==
  /\ applied < MaxMoves
  /\ applied' = applied + 1
  /\ UNCHANGED <<mode, graph>>

Interchange(nest, level) ==
  /\ OneMove
  /\ MayInterchange(mode, kernel, nest, level)
  /\ kernel' = Interchanged(kernel, nest, level)

Tile(nest, level, size) ==
  /\ OneMove
  /\ MayTile(kernel, nest, level, size)
  /\ kernel' = Tiled(kernel, nest, level, size)

Fuse(nest) ==
  /\ OneMove
  /\ MayFuse(kernel, nest)
  /\ kernel' = Fused(kernel, nest)

\* legal_moves enumerates these; a refused one is left out.
Next ==
  \/ \E nest \in DOMAIN kernel.body :
        \E level \in DOMAIN kernel.body[nest].levels :
           \/ Interchange(nest, level)
           \/ \E size \in TileSizes : Tile(nest, level, size)
  \/ \E nest \in DOMAIN kernel.body : Fuse(nest)

Spec == Init /\ [][Next]_vars

-----------------------------------------------------------------------------
\* After any moves the indices of a nest depend on its own loops only, and no two
\* of these share a variable: otherwise an index would silently read zero for a
\* loop that is gone (AffineExpr::eval), or one loop would drive another's index.
\* No coefficient is zero or beyond i64, however often loops are tiled.
IndicesClosed ==
  \A nest \in Range(kernel.body) :
     /\ StmtVars(nest) \subseteq LevelVars(nest)
     /\ LevelVars(nest) \subseteq 0 .. MaxLoopVar
     /\ Cardinality(LevelVars(nest)) = Len(nest.levels)
     /\ \A ref \in Reads(nest.body) \cup Writes(nest.body) :
           Range(ref.index) \subseteq 1 .. MaxI64

\* The vectors of values that the first n loops run through.
VectorsOf(levels) ==
  LET across[n \in 0 .. Len(levels)] ==
        IF n = 0 THEN {<< >>}
        ELSE {Append(v, x) : v \in across[n - 1], x \in 0 .. (levels[n].extent - 1)}
  IN  across

Vectors(levels) == VectorsOf(levels)[Len(levels)]

\* The environment of an iteration.
EnvAt(levels, v) ==
  [x \in LevelVars(Nest(levels, << >>)) |->
     v[CHOOSE l \in DOMAIN levels : levels[l].var = x]]

Places(refs, levels, v) ==
  {<<ref.buffer, EvalAffine(ref.index, EnvAt(levels, v))>> : ref \in refs}

\* Two iterations of the level, within one of the levels around it.
Apart(v, w, level) ==
  v[level] # w[level] /\ \A l \in 1 .. (level - 1) : v[l] = w[l]

Independent(nest, level) ==
  \A v, w \in Vectors(nest.levels) :
     Apart(v, w, level) =>
        Places(Writes(nest.body), nest.levels, v)
          \cap Places(Reads(nest.body) \cup Writes(nest.body), nest.levels, w) = {}

\* A buffer of more elements than MaxI64 can not be allocated: a Vec holds at most
\* isize::MAX bytes.  Its addresses would saturate.
Allocatable(ref) == Numel(kernel.buffers[ref.buffer].shape) \in 0 .. MaxI64

\* The promise of LevelDep::Parallel (deps.rs:14) holds of every nest that moves
\* can make, fused and tiled ones included: no iteration of the level touches
\* what another one writes.
ParallelMeansIndependent ==
  \A nest \in Range(kernel.body) :
     (\A ref \in Writes(nest.body) : Allocatable(ref)) =>
        \A l \in DOMAIN nest.levels :
           ClassAt(nest, l) = "Parallel" => Independent(nest, l)
=============================================================================
