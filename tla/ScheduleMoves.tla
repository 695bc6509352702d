---------------------------- MODULE ScheduleMoves ----------------------------
(***************************************************************************)
(* The schedule moves of crates/schedule on kernels: interchange, tile and *)
(* fuse, when each is legal and what it makes of a kernel, and the list of *)
(* the legal moves from a kernel that the tuner asks for.                  *)
(***************************************************************************)
EXTENDS Lower

-----------------------------------------------------------------------------
(* Helpers of primitives.rs.                                                *)
UsedVars(k) == UNION {StmtVars(nest) : nest \in Range(k.body)}

\* A slip: the first "fresh" variable is the last one in use.
FirstFreshUsed(k) == IF UsedVars(k) = {} THEN 0 ELSE Max(UsedVars(k))

\* The first fresh variable; the addition saturates.
FirstFresh(k) ==
  IF UsedVars(k) = {} THEN 0
  ELSE IF Max(UsedVars(k)) >= MaxLoopVar THEN MaxLoopVar
                                         ELSE Max(UsedVars(k)) + 1

CanFresh(first, count) == first + count - 1 <= MaxLoopVar

\* decompose_perfect_nest refuses a scalar's bare assignment.
IsNest(k, nest) == nest \in DOMAIN k.body /\ k.body[nest].levels # << >>

WithNest(k, nest, stmt) == [k EXCEPT !.body[nest] = stmt]

-----------------------------------------------------------------------------
(* Dependence classes (deps.rs).                                            *)
\* Every iteration of the loop over var stores to the same place.
TargetFixed(assign, var) == var \notin DOMAIN assign.target.index

\* The first operand of a sum or product is the assignment's own target.
SelfAccumulation(assign) ==
  /\ assign.op \in {"Add", "Mul", "MulAdd"}
  /\ assign.loads[1] = assign.target

\* A slip: one assignment that depends on the level is enough.
ClassOfAny(body, var) ==
  IF \E k \in DOMAIN body : ~ TargetFixed(body[k], var) THEN "Parallel"
  ELSE IF \E k \in DOMAIN body : SelfAccumulation(body[k]) THEN "Reduction"
  ELSE "Unknown"

LevelClass(body, var) ==
  IF \E k \in DOMAIN body : TargetFixed(body[k], var) /\ SelfAccumulation(body[k])
  THEN "Reduction"
  ELSE IF \A k \in DOMAIN body : ~ TargetFixed(body[k], var) THEN "Parallel"
  ELSE "Unknown"

ClassAt(stmt, level) == LevelClass(stmt.body, stmt.levels[level].var)

-----------------------------------------------------------------------------
(* interchange                                                              *)
\* A slip: reductions may always be reordered.
MaySwapAnyReduction(mode, classes) == "Unknown" \notin classes

MaySwap(mode, classes) ==
  "Unknown" \notin classes /\ (mode = "Strict" => "Reduction" \notin classes)

MayInterchange(mode, k, nest, level) ==
  /\ IsNest(k, nest)
  /\ {level, level + 1} \subseteq DOMAIN k.body[nest].levels
  /\ MaySwap(mode, {ClassAt(k.body[nest], l) : l \in {level, level + 1}})

Swapped(stmt, level) ==
  Nest([l \in DOMAIN stmt.levels |->
          stmt.levels[CASE l = level     -> level + 1
                        [] l = level + 1 -> level
                        [] OTHER         -> l]], stmt.body)

Interchanged(k, nest, level) == WithNest(k, nest, Swapped(k.body[nest], level))

-----------------------------------------------------------------------------
(* tile: the level becomes two, and its variable T * outer + inner.         *)
Divides(size, extent) == size # 0 /\ size <= MaxI64 /\ extent % size = 0

MayTile(k, nest, level, size) ==
  /\ IsNest(k, nest)
  /\ level \in DOMAIN k.body[nest].levels
  /\ Divides(size, k.body[nest].levels[level].extent)
  /\ CanFresh(FirstFresh(k), 2)

StripMined(stmt, level, size, first) ==
  LET lv == stmt.levels
  IN  Nest(SubSeq(lv, 1, level - 1)
             \o <<Level(first, lv[level].extent \div size), Level(first + 1, size)>>
             \o SubSeq(lv, level + 1, Len(lv)),
           SubstituteBody(stmt.body, lv[level].var,
                          TwoTerms(first, size, first + 1, 1)))

Tiled(k, nest, level, size) ==
  WithNest(k, nest, StripMined(k.body[nest], level, size, FirstFresh(k)))

-----------------------------------------------------------------------------
(* fuse                                                                     *)
Extents(stmt) == [l \in DOMAIN stmt.levels |-> stmt.levels[l].extent]

\* The body over the shared variables, which are substituted one by one.
Substitutions(stmt, first) ==
  LET after[n \in 0 .. Len(stmt.levels)] ==
        IF n = 0 THEN stmt.body
        ELSE SubstituteBody(after[n - 1], stmt.levels[n].var, Term(first + n - 1, 1))
  IN  after

OverShared(stmt, first) == Substitutions(stmt, first)[Len(stmt.levels)]

\* What the second body reads of the first one's results was stored once, at
\* this iteration, and not accumulated.
ReadsSettled(a, b, read) ==
  /\ read.buffer \notin BuffersOf(Reads(a))
  /\ Cardinality({k \in DOMAIN a : a[k].target.buffer = read.buffer}) = 1
  /\ \A k \in DOMAIN a : a[k].target.buffer = read.buffer => a[k].target = read

BodiesMayFuse(a, b) ==
  /\ BuffersOf(Writes(a)) \cap BuffersOf(Writes(b)) = {}
  /\ BuffersOf(Reads(a)) \cap BuffersOf(Writes(b)) = {}
  /\ \A read \in Reads(b) :
        read.buffer \in BuffersOf(Writes(a)) => ReadsSettled(a, b, read)

MayFuse(k, nest) ==
  /\ IsNest(k, nest) /\ IsNest(k, nest + 1)
  /\ Extents(k.body[nest]) = Extents(k.body[nest + 1])
  /\ CanFresh(FirstFresh(k), Len(k.body[nest].levels))
  /\ BodiesMayFuse(OverShared(k.body[nest], FirstFresh(k)),
                   OverShared(k.body[nest + 1], FirstFresh(k)))

FusedNest(one, other, first) ==
  Nest([l \in DOMAIN one.levels |-> Level(first + l - 1, one.levels[l].extent)],
       OverShared(one, first) \o OverShared(other, first))

Fused(k, nest) ==
  [k EXCEPT !.body = SubSeq(@, 1, nest - 1)
                       \o <<FusedNest(@[nest], @[nest + 1], FirstFresh(k))>>
                       \o SubSeq(@, nest + 2, Len(@))]

-----------------------------------------------------------------------------
(* legal_moves.  A MoveDesc is the tuple of the numbers that its derived     *)
(* order compares: the variant, then its fields.                             *)
InterchangeDesc(nest, level) == <<1, nest, level, 0>>
TileDesc(nest, level, size)  == <<2, nest, level, size>>
FuseDesc(nest)               == <<3, nest, nest + 1, 0>>

IsLegal(mode, k, desc) ==
  CASE desc[1] = 1 -> MayInterchange(mode, k, desc[2], desc[3])
    [] desc[1] = 2 -> MayTile(k, desc[2], desc[3], desc[4])
    [] desc[1] = 3 -> MayFuse(k, desc[2])

Candidate(k, desc) ==
  CASE desc[1] = 1 -> Interchanged(k, desc[2], desc[3])
    [] desc[1] = 2 -> Tiled(k, desc[2], desc[3], desc[4])
    [] desc[1] = 3 -> Fused(k, desc[2])

\* What is tried for a nest; tile_sizes is a list and may repeat a size.
DescsOfNest(nest, levels, tile_sizes) ==
  [l \in DOMAIN levels |-> InterchangeDesc(nest, l)]
    \o FlattenSeq([l \in DOMAIN levels |->
                     [t \in DOMAIN tile_sizes |-> TileDesc(nest, l, tile_sizes[t])]])

Descs(k, tile_sizes) ==
  FlattenSeq([n \in DOMAIN k.body |-> DescsOfNest(n, k.body[n].levels, tile_sizes)])
    \o [n \in DOMAIN k.body |-> FuseDesc(n)]

MovesFrom(mode, k, tile_sizes) ==
  LET legal == SelectSeq(Descs(k, tile_sizes), LAMBDA desc : IsLegal(mode, k, desc))
  IN  [i \in DOMAIN legal |-> <<legal[i], Candidate(k, legal[i])>>]

=============================================================================
