------------------------------ MODULE Autotune ------------------------------
(***************************************************************************)
(* The schedule tuner, crates/schedule/src/autotune.rs: from the lowered   *)
(* kernel, adopt the cheapest one-move candidate that both costs less and  *)
(* passes the oracle gate, round after round; do so once per restart; keep *)
(* the best kernel of all attempts.                                        *)
(*                                                                         *)
(* Kernels are numbers here.  A world says which moves are legal from each *)
(* in each mode, what each computes on each input, and what the cost model *)
(* may answer for it: one value if the model is static, any of several if  *)
(* it measures a run time.  Module TunedKernels has the worlds of kernels  *)
(* that graphs are lowered to.                                             *)
(***************************************************************************)
EXTENDS Integers, Sequences, SequencesExt, FiniteSets

CONSTANTS Inputs,     \* what random_rational_inputs and random_f64_inputs draw
          Worlds,     \* [start, moves, cost, rational, bits]
          Configs,    \* [mode, max_rounds, validation_trials, restarts]
          SmallSort,  \* the longest list that the library sorts by insertion
          Failed      \* the meaning of a kernel that does not evaluate

\* A MoveDesc is the numbers that its derived order compares: the variant, then
\* its fields.
Moves == [1 .. 4 -> Nat]

KernelsOf(w) == DOMAIN w.cost

ASSUME AutotuneAssumption ==
  /\ \A w \in Worlds :
        /\ w.start \in KernelsOf(w)
        /\ DOMAIN w.moves = {"Strict", "FastMath"}
        /\ \A mode \in DOMAIN w.moves :
              w.moves[mode] \in [KernelsOf(w) -> Seq(Moves \X KernelsOf(w))]
        /\ w.cost \in [KernelsOf(w) -> (SUBSET Nat) \ {{}}]
        /\ DOMAIN w.rational = KernelsOf(w) /\ DOMAIN w.bits = KernelsOf(w)
  /\ \A c \in Configs :
        /\ c.mode \in {"Strict", "FastMath"}
        /\ {c.max_rounds, c.validation_trials, c.restarts} \subseteq Nat
  /\ SmallSort \in Nat

VARIABLES world, config,
          pc,                    \* "Called", "Attempt", "Round", "Examine",
                                 \* "Close", "Returned" or "Panicked"
          cost_before,
          best, best_cost, best_moves,
          restart, round,
          current, current_cost, moves,
          candidates,            \* still to be examined in this round
          candidates_evaluated,
          gated                  \* how many of those the gate was asked about

request == <<world, config>>
result  == <<best, best_cost, best_moves>>
attempt == <<current, current_cost, moves>>
counts  == <<candidates_evaluated, gated>>
vars    == <<request, pc, cost_before, result, restart, round, attempt,
             candidates, counts>>

Start == world.start

Init ==
  /\ world \in Worlds
  /\ config \in Configs
  /\ pc = "Called"
  /\ cost_before = 0
  /\ best = Start /\ best_cost = 0 /\ best_moves = << >>
  /\ restart = 0 /\ round = 0
  /\ current = Start /\ current_cost = 0 /\ moves = << >>
  /\ candidates = << >>
  /\ candidates_evaluated = 0 /\ gated = 0

-----------------------------------------------------------------------------
(* legal_moves, its sorting, and the gate.                                  *)
LegalMoves(kernel) == world.moves[config.mode][kernel]

Before(desc, other) ==
  \E f \in DOMAIN desc : /\ desc[f] < other[f]
                         /\ \A e \in 1 .. (f - 1) : desc[e] = other[e]

\* A sort that asks for keys as it compares may leave x just before y if some
\* answers put <<cost, desc>> of x first; equal keys keep their places i and j.
MayPrecede(x, i, y, j) ==
  \E c \in world.cost[x[2]], d \in world.cost[y[2]] :
     \/ c < d
     \/ c = d /\ Before(x[1], y[1])
     \/ c = d /\ x[1] = y[1] /\ i < j

\* A slip: candidates are taken as they are enumerated.
SortedNot(list) == {list}

\* The orders that p may go on with: a place i of the list that is not in it.
Extensions(list, p) ==
  {Append(p, i) : i \in {j \in DOMAIN list \ Range(p) :
                          p # << >> => MayPrecede(list[Last(p)], Last(p), list[j], j)}}

\* The orders of any n places that are sorted.
Orders(list) ==
  LET sorted[n \in 0 .. Len(list)] ==
        IF n = 0 THEN {<< >>}
                 ELSE UNION {Extensions(list, p) : p \in sorted[n - 1]}
  IN  sorted

\* Whatever is answered, of any two places the same one comes first.
Consistent(list) ==
  \A i, j \in DOMAIN list :
     i # j => ~ (/\ MayPrecede(list[i], i, list[j], j)
                 /\ MayPrecede(list[j], j, list[i], i))

\* sort_by_key compares a short list by insertion: whatever is answered, every
\* element has been compared with its neighbours.  Of a longer one it promises
\* an order only if the answers are consistent.
Orderly(list) == Len(list) <= SmallSort \/ Consistent(list)

\* Otherwise it gives the elements in some order, or panics.
Sorted(list) ==
  LET places == DOMAIN list
  IN  {[k \in places |-> list[p[k]]] :
         p \in IF Orderly(list)
               THEN {q \in Orders(list)[Len(list)] : q \in [places -> places]}
               ELSE Bijection(places, places)}

Agree(meaning, a, b, x) ==
  meaning[a][x] # Failed /\ meaning[a][x] = meaning[b][x]

\* A slip: candidates are compared with the kernel they come from.
ValidatesStep(original, candidate, draws) ==
  \A t \in DOMAIN draws :
     /\ Agree(world.rational, current, candidate, draws[t][1])
     /\ config.mode = "Strict" =>
           Agree(world.bits, current, candidate, draws[t][2])

\* validate_equiv: each trial draws inputs for either interpreter.
Validates(original, candidate, draws) ==
  \A t \in DOMAIN draws :
     /\ Agree(world.rational, original, candidate, draws[t][1])
     /\ config.mode = "Strict" =>
           Agree(world.bits, original, candidate, draws[t][2])

Trials == [1 .. config.validation_trials -> Inputs \X Inputs]

-----------------------------------------------------------------------------
(* autotune.                                                                *)
CostStart ==
  /\ pc = "Called"
  /\ cost_before' \in world.cost[Start]
  /\ best_cost' = cost_before'
  /\ pc' = "Attempt"
  /\ UNCHANGED <<request, best, best_moves, restart, round, attempt, candidates,
                 counts>>

\* Slips: the moves of the last attempt stay; the search goes on from the best.
RewindNotMoves ==
  current' = Start /\ current_cost' = cost_before /\ moves' = moves
RewindToBest ==
  current' = best /\ current_cost' = best_cost /\ moves' = best_moves

Rewind == current' = Start /\ current_cost' = cost_before /\ moves' = << >>

BeginAttempt ==
  /\ pc = "Attempt"
  /\ restart < config.restarts + 1
  /\ Rewind
  /\ round' = 0
  /\ pc' = "Round"
  /\ UNCHANGED <<request, cost_before, result, restart, candidates, counts>>

RoundsLeft == round < config.max_rounds

BeginRound ==
  /\ pc = "Round"
  /\ RoundsLeft
  /\ candidates' \in Sorted(LegalMoves(current))
  /\ pc' = "Examine"
  /\ UNCHANGED <<request, cost_before, result, restart, round, attempt, counts>>

\* The panic is caught nowhere, and ends autotune.
SortPanics ==
  /\ pc = "Round"
  /\ RoundsLeft
  /\ ~ Orderly(LegalMoves(current))
  /\ pc' = "Panicked"
  /\ UNCHANGED <<request, cost_before, result, restart, round, attempt,
                 candidates, counts>>

\* The candidate's cost is asked for again, and decides whether it is gated.
ExamineNext ==
  /\ pc = "Examine"
  /\ candidates # << >>
  /\ candidates_evaluated' = candidates_evaluated + 1
  /\ UNCHANGED <<request, cost_before, result, restart>>

Skip ==
  /\ ExamineNext
  /\ \E cost \in world.cost[Head(candidates)[2]] : cost >= current_cost
  /\ candidates' = Tail(candidates)
  /\ UNCHANGED <<pc, round, attempt, gated>>

Reject ==
  /\ ExamineNext
  /\ \E cost \in world.cost[Head(candidates)[2]] : cost < current_cost
  /\ \E draws \in Trials : ~ Validates(Start, Head(candidates)[2], draws)
  /\ candidates' = Tail(candidates)
  /\ gated' = gated + 1
  /\ UNCHANGED <<pc, round, attempt>>

Adopt ==
  /\ ExamineNext
  /\ \E cost \in world.cost[Head(candidates)[2]] :
        cost < current_cost /\ current_cost' = cost
  /\ \E draws \in Trials : Validates(Start, Head(candidates)[2], draws)
  /\ current' = Head(candidates)[2]
  /\ moves' = Append(moves, Head(candidates)[1])
  /\ candidates' = << >>
  /\ gated' = gated + 1
  /\ round' = round + 1
  /\ pc' = "Round"

\* The attempt ends with a round that adopted nothing, or with the last round.
EndRounds ==
  /\ \/ pc = "Examine" /\ candidates = << >>
     \/ pc = "Round" /\ ~ RoundsLeft
  /\ pc' = "Close"
  /\ UNCHANGED <<request, cost_before, result, restart, round, attempt,
                 candidates, counts>>

\* A slip: the best cost is not updated.
KeepBestNotCost ==
  IF current_cost < best_cost
  THEN best' = current /\ best_moves' = moves /\ UNCHANGED best_cost
  ELSE UNCHANGED result

KeepBest ==
  IF current_cost < best_cost
  THEN best' = current /\ best_cost' = current_cost /\ best_moves' = moves
  ELSE UNCHANGED result

CloseAttempt ==
  /\ pc = "Close"
  /\ KeepBest
  /\ restart' = restart + 1
  /\ pc' = "Attempt"
  /\ UNCHANGED <<request, cost_before, round, attempt, candidates, counts>>

\* A slip: an attempt is waited for that does not come.
ReturnLate ==
  /\ pc = "Attempt"
  /\ restart > config.restarts + 1
  /\ pc' = "Returned"
  /\ UNCHANGED <<request, cost_before, result, restart, round, attempt,
                 candidates, counts>>

Return ==
  /\ pc = "Attempt"
  /\ restart >= config.restarts + 1
  /\ pc' = "Returned"
  /\ UNCHANGED <<request, cost_before, result, restart, round, attempt,
                 candidates, counts>>

Next == \/ CostStart \/ BeginAttempt \/ BeginRound \/ SortPanics \/ Skip \/ Reject
        \/ Adopt \/ EndRounds \/ CloseAttempt \/ Return

Spec == Init /\ [][Next]_vars

\* The search is a loop of one thread: it does not stop before it returns or
\* panics.
FairSpec == Spec /\ WF_vars(Next)

Returned == pc = "Returned"

-----------------------------------------------------------------------------
\* The moves reported are the recipe for the kernel returned: applied to the
\* lowered kernel one after the other, each is legal and together they give it.
Applied(legal, kernels, move) ==
  {step[2] : step \in {s \in UNION {Range(legal[k]) : k \in kernels} : s[1] = move}}

Replays(legal, start, list) ==
  LET after[n \in 0 .. Len(list)] ==
        IF n = 0 THEN {start} ELSE Applied(legal, after[n - 1], list[n])
  IN  after

Replay(list) == Replays(world.moves[config.mode], Start, list)[Len(list)]

MovesReplay ==
  /\ best \in Replay(best_moves)
  /\ current \in Replay(moves)

\* What is reported as the outcome fits together: an improvement is reported
\* exactly when moves are, the final cost is never above the initial one, no
\* attempt adopts more moves than it has rounds, and a kernel with moves has
\* passed the gate against the lowered kernel, over its whole chain of moves.
OutcomeConsistent ==
  /\ best_cost <= cost_before
  /\ best_cost < cost_before <=> best_moves # << >>
  /\ Len(best_moves) <= config.max_rounds
  /\ best_moves = << >> => best = Start
  /\ best_moves # << >> => \E draws \in Trials : Validates(Start, best, draws)

CostIsStatic == \A k \in KernelsOf(world) : \A c, d \in world.cost[k] : c = d

Equivalent(a, b) ==
  \A x \in Inputs : /\ Agree(world.rational, a, b, x)
                    /\ config.mode = "Strict" => Agree(world.bits, a, b, x)

AllEquivalent == \A k \in KernelsOf(world) : Equivalent(Start, k)

\* With a cost model that always answers the same, and legal moves that change
\* nothing, each round takes a cheapest of all the moves there are.
TakesCheapestMove ==
  [][CostIsStatic /\ AllEquivalent /\ moves' # moves /\ moves' # << >> =>
        /\ current_cost' \in world.cost[current']
        /\ \A m \in Range(LegalMoves(current)) :
              \A cost \in world.cost[m[2]] : current_cost' <= cost]_vars

\* In that case a restart repeats the first attempt and cannot find more: only
\* a gate that rejects, or costs that vary, make an attempt differ.
RestartsOnlyRepeat ==
  [][CostIsStatic /\ AllEquivalent /\ restart > 0 => UNCHANGED result]_vars

\* The doc comment of TuneResult::candidates_evaluated: "Number of candidates
\* examined by the oracle gate."
CountsGatedCandidates == candidates_evaluated = gated
=============================================================================
