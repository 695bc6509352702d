------------------------------ MODULE StaticCost ------------------------------
(***************************************************************************)
(* The static cost model of crates/schedule/src/cost.rs: an estimate of    *)
(* the memory traffic of a kernel, less a credit for nests that are cut    *)
(* into tiles, and more for temporaries that one nest fills for another.   *)
(***************************************************************************)
EXTENDS ScheduleMoves

CONSTANT MaxU64   \* where a cost saturates

TEMP_BUFFER_PENALTY   == 16
TEMP_BOUNDARY_PENALTY == 128
NEST_OVERHEAD         == 8

Bounded(n) == IF n > MaxU64 THEN MaxU64 ELSE n

BoundedSum(costs) == FoldLeft(LAMBDA a, b : Bounded(a + b), 0, costs)

-----------------------------------------------------------------------------
(* The nests.                                                               *)
AccessCost(index, inner) ==
  LET coeff == Coefficient(index, inner)
  IN  CASE coeff = 1      -> 1
        [] coeff = 0      -> 2
        [] coeff \in 2..4 -> 3
        [] coeff > 4      -> 5

\* Each reference to a buffer counts once.
AccessWeight(nest) ==
  LET inner == Last(nest.levels).var
  IN  Max({1, Bounded(MapThenSumSet(LAMBDA ref : AccessCost(ref.index, inner),
                                    Reads(nest.body) \cup Writes(nest.body)))})

TripCount(nest) ==
  FoldLeft(LAMBDA n, level : Bounded(n * level.extent), 1, nest.levels)

\* Only a nest of four levels or more gets a credit, and it may be zero.
StripMineCredit(nest) ==
  IF Len(nest.levels) <= 3 THEN 1
  ELSE Cardinality({l \in DOMAIN nest.levels : nest.levels[l].extent \in 2 .. 32})

StmtCost(k, n) ==
  LET nest == k.body[n]
  IN  IF ~ IsNest(k, n) THEN NEST_OVERHEAD
      ELSE Bounded(Bounded(TripCount(nest) * AccessWeight(nest)) + NEST_OVERHEAD)
             \div Max({1, StripMineCredit(nest)})

-----------------------------------------------------------------------------
(* The temporaries.                                                         *)
Temps(k) == {b \in DOMAIN k.buffers : k.buffers[b].role = "Temp"}

Nests(k) == {n \in DOMAIN k.body : IsNest(k, n)}

Writers(k, b) == {n \in Nests(k) : b \in BuffersOf(Writes(k.body[n].body))}
Readers(k, b) == {n \in Nests(k) : b \in BuffersOf(Reads(k.body[n].body))}

\* First read in a later nest than the one that first writes it.
CrossesNests(k, b) ==
  /\ Writers(k, b) # {} /\ Readers(k, b) # {}
  /\ Min(Readers(k, b)) > Min(Writers(k, b))

CostOf(k) ==
  BoundedSum([n \in DOMAIN k.body |-> StmtCost(k, n)]
     \o <<Cardinality(Temps(k)) * TEMP_BUFFER_PENALTY,
          Cardinality({b \in Temps(k) : CrossesNests(k, b)})
             * TEMP_BOUNDARY_PENALTY>>)

=============================================================================
