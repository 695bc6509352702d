--------------------------- MODULE Autotune_proofs ---------------------------
(***************************************************************************)
(* What the tuner returns, for any kernels, moves, costs and meanings: it  *)
(* has passed the gate against the lowered kernel, its cost is below the   *)
(* initial one, and the moves reported make it.  And that the search is    *)
(* greedy as it says, if the cost model always answers the same, and that  *)
(* restarts repeat it then.                                                *)
(***************************************************************************)
EXTENDS Autotune, CommonLemmas

Types ==
  /\ world \in Worlds /\ config \in Configs
  /\ pc \in {"Called", "Attempt", "Round", "Examine", "Close", "Returned",
           "Panicked"}
  /\ cost_before \in Nat /\ best_cost \in Nat /\ current_cost \in Nat
  /\ best \in KernelsOf(world) /\ current \in KernelsOf(world)
  /\ best_moves \in Seq(Moves) /\ moves \in Seq(Moves)
  /\ round \in Nat
  /\ candidates \in Seq(Moves \X KernelsOf(world))

GatePassed(kernel) == \E draws \in Trials : Validates(Start, kernel, draws)

\* What holds of a search, of which list are the moves, and cost the last cost.
Improved(kernel, cost, list) ==
  /\ cost <= cost_before
  /\ cost < cost_before <=> list # << >>
  /\ Len(list) <= config.max_rounds
  /\ list = << >> => kernel = Start
  /\ list # << >> => GatePassed(kernel)

\* The attempt under way improves as the best one does; it is not begun yet as
\* long as the initial cost has not been asked for.
InStep ==
  /\ Improved(best, best_cost, best_moves)
  /\ pc \in {"Round", "Examine", "Close"} => Improved(current, current_cost, moves)
  /\ pc \in {"Round", "Examine"} => Len(moves) = round /\ round <= config.max_rounds
  /\ pc = "Examine" => round < config.max_rounds
  /\ pc = "Called" => best_moves = << >>

IInv == Types /\ InStep

-----------------------------------------------------------------------------
\* What the assumptions on worlds and configurations say of those in use.
LEMMA RequestTypes ==
  ASSUME Types
  PROVE  /\ Start \in KernelsOf(world)
         /\ \A k \in KernelsOf(world) :
               /\ LegalMoves(k) \in Seq(Moves \X KernelsOf(world))
               /\ world.cost[k] \subseteq Nat
         /\ config.max_rounds \in Nat /\ config.restarts \in Nat
<1>1. /\ config.mode \in {"Strict", "FastMath"}
      /\ config.max_rounds \in Nat /\ config.restarts \in Nat
  BY AutotuneAssumption DEF Types
<1>2. /\ world.start \in KernelsOf(world)
      /\ world.moves[config.mode] \in [KernelsOf(world) -> Seq(Moves \X KernelsOf(world))]
      /\ world.cost \in [KernelsOf(world) -> (SUBSET Nat) \ {{}}]
  BY <1>1, AutotuneAssumption DEF Types
<1> QED
  BY <1>1, <1>2 DEF Start, LegalMoves

\* The candidates are kernels of the world, in whatever order they are sorted.
LEMMA SortedTypes ==
  ASSUME Types, NEW list \in Sorted(LegalMoves(current))
  PROVE  list \in Seq(Moves \X KernelsOf(world))
<1> DEFINE given == LegalMoves(current)
<1>1. given \in Seq(Moves \X KernelsOf(world))
  BY RequestTypes DEF Types
<1>2. PICK p \in [DOMAIN given -> DOMAIN given] :
         list = [k \in DOMAIN given |-> given[p[k]]]
  BY DEF Sorted, Bijection, Injection
<1> HIDE DEF given
<1>3. DOMAIN given = 1 .. Len(given) /\ Len(given) \in Nat
  BY <1>1
<1>4. ASSUME NEW k \in 1 .. Len(given)
      PROVE  given[p[k]] \in Moves \X KernelsOf(world)
  <2>1. p[k] \in 1 .. Len(given)
    BY <1>2, <1>3
  <2> DEFINE Pairs == Moves \X KernelsOf(world)
  <2>2. given \in Seq(Pairs)
    BY <1>1
  <2> HIDE DEF Pairs
  <2>3. given[p[k]] \in Pairs
    BY <2>1, <2>2
  <2> QED
    BY <2>3 DEF Pairs
<1>5. list \in [1 .. Len(given) -> Moves \X KernelsOf(world)]
  BY <1>2, <1>3, <1>4
<1> QED
  BY <1>3, <1>5

\* When autotune is called there is nothing but the lowered kernel.
LEMMA InitIInv == Init => IInv
<1> SUFFICES ASSUME Init
             PROVE  IInv
  OBVIOUS
<1>1. world.start \in KernelsOf(world)
  BY AutotuneAssumption DEF Init
<1>2. << >> \in Seq(Moves) /\ << >> \in Seq(Moves \X KernelsOf(world)) /\ Len(<< >>) = 0
  OBVIOUS
<1>3. Types
  BY <1>1, <1>2 DEF Init, Types, Start
<1>4. config.max_rounds \in Nat
  BY <1>3, RequestTypes
<1> QED
  BY <1>2, <1>3, <1>4 DEF Init, IInv, InStep, Improved, Start

-----------------------------------------------------------------------------
(* One lemma per action.                                                    *)

\* The cost of the lowered kernel is where the comparison starts.
LEMMA CostStartKeeps == IInv /\ CostStart => IInv'
<1> SUFFICES ASSUME IInv, CostStart
             PROVE  IInv'
  OBVIOUS
<1>1. cost_before' \in Nat /\ config.max_rounds \in Nat
  BY RequestTypes DEF IInv, CostStart
<1>2. Types'
  BY <1>1 DEF IInv, Types, CostStart, request, attempt, KernelsOf
<1>3. best_moves' = << >> /\ best' = Start' /\ best_cost' = cost_before'
  BY DEF IInv, InStep, Improved, CostStart, request, Start
<1> QED
  BY <1>1, <1>2, <1>3 DEF IInv, InStep, Improved, CostStart, request

\* An attempt begins at the lowered kernel, as if nothing had been found.
LEMMA BeginAttemptKeeps == IInv /\ BeginAttempt => IInv'
<1> SUFFICES ASSUME IInv, BeginAttempt
             PROVE  IInv'
  OBVIOUS
<1>1. Start \in KernelsOf(world) /\ config.max_rounds \in Nat
  BY RequestTypes DEF IInv
<1>2. Types'
  BY <1>1 DEF IInv, Types, BeginAttempt, Rewind, request, result, KernelsOf
<1>3. GatePassed(best)' <=> GatePassed(best)
  BY DEF BeginAttempt, request, result, GatePassed, Validates, Agree, Trials, Start
<1>4. Improved(best, best_cost, best_moves)'
  BY <1>3 DEF IInv, InStep, Improved, BeginAttempt, request, result, Start
<1>5. Improved(current, current_cost, moves)' /\ Len(moves') = round'
  BY <1>1 DEF IInv, Types, Improved, BeginAttempt, Rewind, request, Start
<1> QED
  BY <1>1, <1>2, <1>4, <1>5 DEF IInv, InStep, BeginAttempt, request

\* A round begins only while there are rounds left.
LEMMA BeginRoundKeeps == IInv /\ BeginRound => IInv'
<1> SUFFICES ASSUME IInv, BeginRound
             PROVE  IInv'
  OBVIOUS
<1>1. candidates' \in Seq(Moves \X KernelsOf(world))
  BY SortedTypes DEF IInv, BeginRound
<1>2. Types'
  BY <1>1 DEF IInv, Types, BeginRound, request, result, attempt, KernelsOf
<1>3. /\ GatePassed(best)' <=> GatePassed(best)
      /\ GatePassed(current)' <=> GatePassed(current)
  BY DEF BeginRound, request, result, attempt, GatePassed, Validates, Agree,
         Trials, Start
<1>4. config.max_rounds \in Nat
  BY RequestTypes DEF IInv
<1> QED
  BY <1>2, <1>3, <1>4 DEF IInv, InStep, Types, Improved, BeginRound, RoundsLeft,
                          request, result, attempt, Start

\* A candidate that is passed over, for its cost or by the gate, leaves only the
\* others to be examined.
LEMMA PassOverKeeps == IInv /\ (Skip \/ Reject) => IInv'
<1> SUFFICES ASSUME IInv, Skip \/ Reject
             PROVE  IInv'
  OBVIOUS
<1> DEFINE Pairs == Moves \X KernelsOf(world)
<1>1. candidates' = Tail(candidates) /\ candidates # << >> /\ candidates \in Seq(Pairs)
  BY DEF IInv, Types, Skip, Reject, ExamineNext
<1>2. UNCHANGED <<request, pc, cost_before, result, round, attempt>>
  BY DEF Skip, Reject, ExamineNext
<1> HIDE DEF Pairs
<1>3. candidates' \in Seq(Pairs)
  BY <1>1
<1>4. Types'
  BY <1>2, <1>3 DEF IInv, Types, request, result, attempt, Pairs, KernelsOf
<1>5. /\ GatePassed(best)' <=> GatePassed(best)
      /\ GatePassed(current)' <=> GatePassed(current)
  BY <1>2 DEF request, result, attempt, GatePassed, Validates, Agree, Trials, Start
<1> QED
  BY <1>2, <1>4, <1>5 DEF IInv, InStep, Improved, request, result, attempt, Start

\* A kernel is adopted after it passed the gate, for less than the last one.
LEMMA AdoptKeeps == IInv /\ Adopt => IInv'
<1> SUFFICES ASSUME IInv, Adopt
             PROVE  IInv'
  OBVIOUS
<1> DEFINE Pairs == Moves \X KernelsOf(world)
<1>1. candidates # << >> /\ candidates \in Seq(Pairs) /\ pc = "Examine"
  BY DEF IInv, Types, Adopt, ExamineNext
<1> HIDE DEF Pairs
<1>2. Head(candidates) \in Pairs
  BY <1>1
<1>3. Head(candidates)[1] \in Moves /\ Head(candidates)[2] \in KernelsOf(world)
  BY <1>2 DEF Pairs
<1>4. current_cost' \in Nat /\ current_cost' < current_cost
  BY <1>3, RequestTypes DEF IInv, Adopt
<1> DEFINE move == Head(candidates)[1]
<1>5. moves' = Append(moves, move) /\ move \in Moves /\ moves \in Seq(Moves)
  BY <1>3 DEF IInv, Types, Adopt
<1> HIDE DEF move
<1>6. moves' \in Seq(Moves) /\ moves' # << >> /\ Len(moves') = Len(moves) + 1
  BY <1>5
<1>7. Types'
  BY <1>3, <1>4, <1>6 DEF IInv, Types, Adopt, ExamineNext, request, result, KernelsOf
<1>8. GatePassed(best)' <=> GatePassed(best)
  BY DEF Adopt, ExamineNext, request, result, GatePassed, Validates, Agree,
         Trials, Start
<1>9. GatePassed(current)'
  BY DEF Adopt, ExamineNext, request, GatePassed, Validates, Agree, Trials, Start
<1>10. Improved(best, best_cost, best_moves)'
  BY <1>8 DEF IInv, InStep, Improved, Adopt, ExamineNext, request, result, Start
<1>11. config.max_rounds \in Nat
  BY RequestTypes DEF IInv
<1>12. Len(moves') = round' /\ round' <= config.max_rounds
  BY <1>1, <1>6, <1>11 DEF IInv, InStep, Types, Adopt
<1>13. Improved(current, current_cost, moves)'
  <2>1. current_cost <= cost_before /\ current_cost \in Nat /\ cost_before \in Nat
    BY <1>1 DEF IInv, InStep, Improved, Types
  <2>2. UNCHANGED <<world, config, cost_before>>
    BY DEF Adopt, ExamineNext, request
  <2>3. current_cost' <= cost_before' /\ current_cost' < cost_before'
    BY <1>4, <2>1, <2>2
  <2>4. Len(moves') <= config'.max_rounds
    BY <1>12, <2>2
  <2> QED
    BY <1>6, <1>9, <2>3, <2>4 DEF Improved
<1> QED
  BY <1>7, <1>10, <1>12, <1>13 DEF IInv, InStep, Adopt, ExamineNext, request

\* Between the loops only the place in the code changes.
LEMMA MoveOnKeeps ==
  IInv /\ (SortPanics \/ EndRounds \/ Return \/ UNCHANGED vars) => IInv'
<1> SUFFICES ASSUME IInv, SortPanics \/ EndRounds \/ Return \/ UNCHANGED vars
             PROVE  IInv'
  OBVIOUS
<1>1. UNCHANGED <<request, cost_before, result, round, attempt, candidates>>
  BY DEF SortPanics, EndRounds, Return, vars
<1>2. \/ pc' = "Close" /\ pc \in {"Round", "Examine"}
      \/ pc' \in {"Returned", "Panicked"}
      \/ pc' = pc
  BY DEF SortPanics, EndRounds, Return, vars
<1>3. Types'
  BY <1>1, <1>2 DEF IInv, Types, request, result, attempt, KernelsOf
<1>4. /\ GatePassed(best)' <=> GatePassed(best)
      /\ GatePassed(current)' <=> GatePassed(current)
  BY <1>1 DEF request, result, attempt, GatePassed, Validates, Agree, Trials, Start
<1> QED
  BY <1>1, <1>2, <1>3, <1>4 DEF IInv, InStep, Improved, request, result, attempt, Start

\* The best attempt takes its kernel, its cost and its moves together.
LEMMA CloseAttemptKeeps == IInv /\ CloseAttempt => IInv'
<1> SUFFICES ASSUME IInv, CloseAttempt
             PROVE  IInv'
  OBVIOUS
<1>1. \/ best' = current /\ best_cost' = current_cost /\ best_moves' = moves
      \/ UNCHANGED result
  BY DEF CloseAttempt, KeepBest
<1>2. Types'
  BY <1>1 DEF IInv, Types, CloseAttempt, request, result, attempt, KernelsOf
<1>3. /\ GatePassed(best)' => GatePassed(current) \/ GatePassed(best)
      /\ UNCHANGED result => (GatePassed(best)' <=> GatePassed(best))
      /\ best' = current => (GatePassed(best)' <=> GatePassed(current))
  BY <1>1, SMTT(30) DEF CloseAttempt, request, result, GatePassed, Validates, Agree, Trials, Start
<1>4. Improved(best, best_cost, best_moves)'
  BY <1>1, <1>3 DEF IInv, InStep, Improved, CloseAttempt, request, result, Start
<1> QED
  BY <1>2, <1>4 DEF IInv, InStep, CloseAttempt, request

-----------------------------------------------------------------------------
(* Lists of moves and what they make of a kernel.                           *)
\* The kernels after a prefix of the moves.
LEMMA ReplaysDef ==
  ASSUME NEW legal, NEW start, NEW list, Len(list) \in Nat
  PROVE  Replays(legal, start, list) =
           [n \in 0 .. Len(list) |->
              IF n = 0 THEN {start}
              ELSE Applied(legal, Replays(legal, start, list)[n - 1], list[n])]
<1> DEFINE N == Len(list)
           Next1(n, ks) == Applied(legal, ks, list[n])
           Upto(m, f) == f = [n \in 0 .. m |-> IF n = 0 THEN {start} ELSE Next1(n, f[n - 1])]
           S == {m \in Nat : \E f : Upto(m, f)}
<1>1. Replays(legal, start, list) = CHOOSE f : Upto(N, f)
  BY DEF Replays
<1> HIDE DEF Next1
<1>2. 0 \in S
  <2> DEFINE f == [n \in 0 .. 0 |-> {start}]
  <2>1. Upto(0, f)
    OBVIOUS
  <2> QED
    BY <2>1
<1>3. ASSUME NEW m \in Nat, m \in S
      PROVE  m + 1 \in S
  <2>1. PICK f : Upto(m, f)
    BY <1>3
  <2> DEFINE h == [n \in 0 .. (m + 1) |-> IF n = m + 1 THEN Next1(n, f[m]) ELSE f[n]]
  <2>2. ASSUME NEW n \in 0 .. (m + 1)
        PROVE  h[n] = IF n = 0 THEN {start} ELSE Next1(n, h[n - 1])
    <3>1. CASE n = 0
      BY <2>1, <3>1
    <3>2. CASE n = m + 1
      BY <3>2
    <3>3. CASE n # 0 /\ n # m + 1
      <4>1. n \in 0 .. m /\ n - 1 \in 0 .. m
        BY <3>3
      <4>2. h[n] = f[n] /\ h[n - 1] = f[n - 1]
        BY <4>1, <3>3
      <4>3. f[n] = Next1(n, f[n - 1])
        BY <2>1, <4>1, <3>3
      <4> QED
        BY <4>2, <4>3, <3>3
    <3> QED
      BY <3>1, <3>2, <3>3
  <2>3. Upto(m + 1, h)
    <3> HIDE DEF h
    <3>1. h = [n \in 0 .. (m + 1) |-> h[n]]
      BY DEF h
    <3> QED
      BY <2>2, <3>1
  <2> HIDE DEF Upto, h
  <2> QED
    BY <2>3
<1>4. N \in S
  <2> HIDE DEF S
  <2> QED
    BY <1>2, <1>3, SetInduction
<1>5. Upto(N, Replays(legal, start, list))
  BY <1>1, <1>4
<1> QED
  BY <1>5 DEF Next1

ReplayOf(legal, start, list) == Replays(legal, start, list)[Len(list)]

\* No moves leave the kernel as it is; one more is applied to what those before made.
LEMMA ReplayAppends ==
  ASSUME NEW legal, NEW start, NEW list \in Seq(Moves), NEW move \in Moves
  PROVE  ReplayOf(legal, start, Append(list, move)) =
           Applied(legal, ReplayOf(legal, start, list), move)
<1> DEFINE N == Len(list)
           more == Append(list, move)
           f == Replays(legal, start, list)
           h == Replays(legal, start, more)
           S == {n \in Nat : n <= N => h[n] = f[n]}
<1>1. /\ N \in Nat /\ Len(more) = N + 1
      /\ \A n \in 1 .. N : more[n] = list[n]
      /\ more[N + 1] = move
  OBVIOUS
<1>2. f = [n \in 0 .. N |-> IF n = 0 THEN {start} ELSE Applied(legal, f[n - 1], list[n])]
  BY <1>1, ReplaysDef
<1> HIDE DEF more
<1>3. h = [n \in 0 .. (N + 1) |->
             IF n = 0 THEN {start} ELSE Applied(legal, h[n - 1], more[n])]
  <2>1. Len(more) \in Nat
    BY <1>1
  <2> QED
    BY <1>1, <2>1, ReplaysDef
<1> HIDE DEF f, h, N
<1>4. 0 \in S
  BY <1>1, <1>2, <1>3
<1>5. ASSUME NEW n \in Nat, n \in S
      PROVE  n + 1 \in S
  <2> SUFFICES ASSUME n + 1 <= N
               PROVE  h[n + 1] = f[n + 1]
    BY <1>5
  <2>1. /\ n + 1 \in 0 .. N /\ n + 1 \in 0 .. (N + 1) /\ n + 1 \in 1 .. N
        /\ n + 1 # 0 /\ (n + 1) - 1 = n /\ n <= N
    BY <1>1
  <2>2. h[n + 1] = Applied(legal, h[n], more[n + 1])
    BY <1>3, <2>1
  <2>3. f[n + 1] = Applied(legal, f[n], list[n + 1])
    BY <1>2, <2>1
  <2>4. h[n] = f[n] /\ more[n + 1] = list[n + 1]
    BY <1>1, <1>5, <2>1
  <2> QED
    BY <2>2, <2>3, <2>4
<1>6. h[N] = f[N]
  <2>1. N \in S
    <3> HIDE DEF S
    <3> QED
      BY <1>1, <1>4, <1>5, SetInduction
  <2> QED
    BY <1>1, <2>1
<1>7. h[N + 1] = Applied(legal, h[N], move)
  <2>1. N + 1 \in 0 .. (N + 1) /\ N + 1 # 0 /\ (N + 1) - 1 = N
    BY <1>1
  <2> QED
    BY <1>1, <1>3, <2>1
<1> QED
  BY <1>1, <1>6, <1>7 DEF ReplayOf, f, h, N, more

\* Replaying no move leaves the kernel where it was.
LEMMA ReplayOfNone ==
  ASSUME NEW legal, NEW start
  PROVE  ReplayOf(legal, start, << >>) = {start}
<1> DEFINE none == << >>
<1>1. Len(none) = 0
  OBVIOUS
<1> HIDE DEF none
<1>2. Replays(legal, start, none)[0] = {start}
  BY <1>1, ReplaysDef
<1> QED
  BY <1>1, <1>2 DEF ReplayOf, none

\* A legal move of a kernel that the moves before may make.
LEMMA ReplayStep ==
  ASSUME NEW legal, NEW start, NEW list \in Seq(Moves), NEW kernel,
         kernel \in ReplayOf(legal, start, list),
         NEW step, step \in Range(legal[kernel]), step[1] \in Moves
  PROVE  step[2] \in ReplayOf(legal, start, Append(list, step[1]))
<1> DEFINE kernels == ReplayOf(legal, start, list)
<1>1. ReplayOf(legal, start, Append(list, step[1])) = Applied(legal, kernels, step[1])
  BY ReplayAppends
<1> HIDE DEF kernels
<1>2. step[2] \in Applied(legal, kernels, step[1])
  BY DEF Applied, kernels
<1> QED
  BY <1>1, <1>2

-----------------------------------------------------------------------------
(* Sorting.                                                                 *)
\* The derived order of move descriptions, spelled out.
LEMMA BeforeMeans ==
  ASSUME NEW x \in Moves, NEW y \in Moves
  PROVE  Before(x, y) <=>
           \/ x[1] < y[1]
           \/ x[1] = y[1] /\ x[2] < y[2]
           \/ x[1] = y[1] /\ x[2] = y[2] /\ x[3] < y[3]
           \/ x[1] = y[1] /\ x[2] = y[2] /\ x[3] = y[3] /\ x[4] < y[4]
<1>1. DOMAIN x = {1, 2, 3, 4}
  BY DEF Moves
<1>2. /\ 1 .. (1 - 1) = {} /\ 1 .. (2 - 1) = {1} /\ 1 .. (3 - 1) = {1, 2}
      /\ 1 .. (4 - 1) = {1, 2, 3}
  OBVIOUS
<1>3. Before(x, y) <=> \E f \in {1, 2, 3, 4} : /\ x[f] < y[f]
                                               /\ \A e \in 1 .. (f - 1) : x[e] = y[e]
  BY <1>1 DEF Before
<1> QED
  BY <1>2, <1>3

\* It is transitive
LEMMA BeforeTransitive ==
  ASSUME NEW x \in Moves, NEW y \in Moves, NEW z \in Moves, Before(x, y), Before(y, z)
  PROVE  Before(x, z)
<1>1. \A k \in {1, 2, 3, 4} : x[k] \in Nat /\ y[k] \in Nat /\ z[k] \in Nat
  BY DEF Moves
<1> QED
  BY <1>1, BeforeMeans

\* and asymmetric.
LEMMA BeforeAsymmetric ==
  ASSUME NEW x \in Moves, NEW y \in Moves, Before(x, y)
  PROVE  ~ Before(y, x) /\ x # y
<1>1. \A k \in {1, 2, 3, 4} : x[k] \in Nat /\ y[k] \in Nat
  BY DEF Moves
<1> QED
  BY <1>1, BeforeMeans

\* The orders of some places.
LEMMA OrdersDef ==
  ASSUME NEW list, Len(list) \in Nat
  PROVE  Orders(list) =
           [n \in 0 .. Len(list) |->
              IF n = 0 THEN {<< >>}
              ELSE UNION {Extensions(list, p) : p \in Orders(list)[n - 1]}]
<1> DEFINE N == Len(list)
           More(ps) == UNION {Extensions(list, p) : p \in ps}
           Upto(m, f) == f = [n \in 0 .. m |-> IF n = 0 THEN {<< >>} ELSE More(f[n - 1])]
           S == {m \in Nat : \E f : Upto(m, f)}
<1>1. Orders(list) = CHOOSE f : Upto(N, f)
  BY DEF Orders
<1> HIDE DEF More
<1>2. 0 \in S
  <2> DEFINE f == [n \in 0 .. 0 |-> {<< >>}]
  <2>1. Upto(0, f)
    OBVIOUS
  <2> QED
    BY <2>1
<1>3. ASSUME NEW m \in Nat, m \in S
      PROVE  m + 1 \in S
  <2>1. PICK f : Upto(m, f)
    BY <1>3
  <2> DEFINE h == [n \in 0 .. (m + 1) |-> IF n = m + 1 THEN More(f[m]) ELSE f[n]]
  <2>2. ASSUME NEW n \in 0 .. (m + 1)
        PROVE  h[n] = IF n = 0 THEN {<< >>} ELSE More(h[n - 1])
    <3>1. CASE n = 0
      BY <2>1, <3>1
    <3>2. CASE n = m + 1
      BY <3>2
    <3>3. CASE n # 0 /\ n # m + 1
      <4>1. n \in 0 .. m /\ n - 1 \in 0 .. m
        BY <3>3
      <4>2. h[n] = f[n] /\ h[n - 1] = f[n - 1]
        BY <4>1, <3>3
      <4>3. f[n] = More(f[n - 1])
        BY <2>1, <4>1, <3>3
      <4> QED
        BY <4>2, <4>3, <3>3
    <3> QED
      BY <3>1, <3>2, <3>3
  <2>3. Upto(m + 1, h)
    <3> HIDE DEF h
    <3>1. h = [n \in 0 .. (m + 1) |-> h[n]]
      BY DEF h
    <3> QED
      BY <2>2, <3>1
  <2> HIDE DEF Upto, h
  <2> QED
    BY <2>3
<1>4. N \in S
  <2> HIDE DEF S
  <2> QED
    BY <1>2, <1>3, SetInduction
<1>5. Upto(N, Orders(list))
  BY <1>1, <1>4
<1> QED
  BY <1>5 DEF More

\* What the cost model may answer for x is never above what it may for y.
NotAbove(x, y) == \A c \in world.cost[x[2]], d \in world.cost[y[2]] : c <= d

\* A list with the cheap ones first.
Ascends(list) == \A i, j \in DOMAIN list : i <= j => NotAbove(list[i], list[j])

\* An order of n places of a list: no place twice, and sorted if costs are static.
OrderOf(list, n, p) ==
  /\ p \in Seq(1 .. Len(list)) /\ Len(p) = n
  /\ \A i, j \in 1 .. n : p[i] = p[j] => i = j
  /\ CostIsStatic => \A i, j \in 1 .. n : i <= j => NotAbove(list[p[i]], list[p[j]])

\* Under a static cost a move that the sort may put first does not cost more.
LEMMA StaticPrecede ==
  ASSUME Types, CostIsStatic, NEW x \in Moves \X KernelsOf(world),
         NEW y \in Moves \X KernelsOf(world), NEW i, NEW j, MayPrecede(x, i, y, j)
  PROVE  NotAbove(x, y)
<1>1. x[2] \in KernelsOf(world) /\ y[2] \in KernelsOf(world)
  OBVIOUS
<1>2. world.cost[x[2]] \subseteq Nat /\ world.cost[y[2]] \subseteq Nat
  BY <1>1, RequestTypes
<1>3. PICK c \in world.cost[x[2]], d \in world.cost[y[2]] : c < d \/ c = d
  BY DEF MayPrecede
<1>4. /\ \A e \in world.cost[x[2]] : e = c
      /\ \A e \in world.cost[y[2]] : e = d
  BY <1>1 DEF CostIsStatic
<1> QED
  BY <1>2, <1>3, <1>4 DEF NotAbove

\* Not costing more is reflexive
LEMMA NotAboveItself ==
  ASSUME Types, CostIsStatic, NEW x \in Moves \X KernelsOf(world)
  PROVE  NotAbove(x, x)
<1>1. x[2] \in KernelsOf(world)
  OBVIOUS
<1>2. world.cost[x[2]] \subseteq Nat
  BY <1>1, RequestTypes
<1> QED
  BY <1>1, <1>2 DEF NotAbove, CostIsStatic

\* and transitive.
LEMMA NotAboveTransitive ==
  ASSUME Types, NEW x \in Moves \X KernelsOf(world), NEW y \in Moves \X KernelsOf(world),
         NEW z \in Moves \X KernelsOf(world), NotAbove(x, y), NotAbove(y, z)
  PROVE  NotAbove(x, z)
<1>1. x[2] \in KernelsOf(world) /\ y[2] \in KernelsOf(world) /\ z[2] \in KernelsOf(world)
  OBVIOUS
<1>2. /\ world.cost[x[2]] \subseteq Nat /\ world.cost[y[2]] \subseteq Nat
      /\ world.cost[z[2]] \subseteq Nat /\ world.cost[y[2]] # {}
  BY <1>1, AutotuneAssumption DEF Types
<1>3. PICK d \in world.cost[y[2]] : TRUE
  BY <1>2
<1>4. ASSUME NEW c \in world.cost[x[2]], NEW e \in world.cost[z[2]]
      PROVE  c <= e
  <2>1. c <= d /\ d <= e
    BY <1>3 DEF NotAbove
  <2> QED
    BY <1>2, <1>3, <2>1
<1> QED
  BY <1>4 DEF NotAbove

\* An order is extended by a place that it does not have, and that may follow.
LEMMA ExtensionOrders ==
  ASSUME Types, NEW list \in Seq(Moves \X KernelsOf(world)), NEW n \in Nat, NEW p,
         OrderOf(list, n, p), NEW q \in Extensions(list, p)
  PROVE  OrderOf(list, n + 1, q)
<1> DEFINE Pairs == Moves \X KernelsOf(world)
<1>1. PICK e \in DOMAIN list \ Range(p) :
        /\ p # << >> => MayPrecede(list[Last(p)], Last(p), list[e], e)
        /\ q = Append(p, e)
  BY DEF Extensions
<1>2. DOMAIN list = 1 .. Len(list) /\ \A i \in 1 .. Len(list) : list[i] \in Pairs
  <2> HIDE DEF Pairs
  <2>1. list \in Seq(Pairs)
    BY DEF Pairs
  <2> QED
    BY <2>1
<1>3. /\ p \in Seq(1 .. Len(list)) /\ Len(p) = n /\ e \in 1 .. Len(list)
      /\ \A i \in 1 .. n : p[i] \in 1 .. Len(list) /\ p[i] # e
  <2>1. /\ p \in Seq(1 .. Len(list)) /\ Len(p) = n /\ e \in 1 .. Len(list)
        /\ DOMAIN p = 1 .. n
    BY <1>1, <1>2 DEF OrderOf
  <2>2. \A i \in 1 .. n : p[i] \in Range(p)
    BY <2>1 DEF Range
  <2>3. \A i \in 1 .. n : p[i] \in 1 .. Len(list)
    BY <2>1
  <2> QED
    BY <1>1, <2>1, <2>2, <2>3
<1>4. /\ q \in Seq(1 .. Len(list)) /\ Len(q) = n + 1
      /\ \A i \in 1 .. n : q[i] = p[i]
      /\ q[n + 1] = e
  BY <1>1, <1>3
<1>5. \A i, j \in 1 .. (n + 1) : q[i] = q[j] => i = j
  <2>1. \A i \in 1 .. (n + 1) : i \in 1 .. n \/ i = n + 1
    OBVIOUS
  <2> QED
    BY <1>3, <1>4, <2>1 DEF OrderOf
<1>6. ASSUME CostIsStatic, NEW i \in 1 .. (n + 1), NEW j \in 1 .. (n + 1), i <= j
      PROVE  NotAbove(list[q[i]], list[q[j]])
  <2> HIDE DEF Pairs
  <2>1. CASE j \in 1 .. n
    <3>1. i \in 1 .. n
      BY <1>6, <2>1
    <3> QED
      BY <1>4, <1>6, <2>1, <3>1 DEF OrderOf
  <2>2. CASE i = n + 1
    <3>1. j = n + 1
      BY <1>6, <2>2
    <3>2. list[e] \in Pairs
      BY <1>2, <1>3
    <3> QED
      BY <1>4, <1>6, <2>2, <3>1, <3>2, NotAboveItself DEF Pairs
  <2>3. CASE i \in 1 .. n /\ j = n + 1
    <3>1. n \in 1 .. n /\ p # << >> /\ Last(p) = p[n]
      BY <1>3, <2>3 DEF Last
    <3>2. list[p[i]] \in Pairs /\ list[p[n]] \in Pairs /\ list[e] \in Pairs
      BY <1>2, <1>3, <2>3, <3>1
    <3>3. NotAbove(list[p[n]], list[e])
      BY <1>1, <1>6, <3>1, <3>2, StaticPrecede DEF Pairs
    <3>4. NotAbove(list[p[i]], list[p[n]])
      BY <1>6, <2>3, <3>1 DEF OrderOf
    <3>5. NotAbove(list[p[i]], list[e])
      BY <3>2, <3>3, <3>4, NotAboveTransitive DEF Pairs
    <3> QED
      BY <1>4, <2>3, <3>5
  <2> QED
    BY <2>1, <2>2, <2>3
<1> QED
  BY <1>4, <1>5, <1>6 DEF OrderOf

\* The step of an induction to N.
LEMMA OneFewer ==
  ASSUME NEW N \in Nat, NEW n \in Nat, n + 1 <= N
  PROVE  n + 1 \in 0 .. N /\ n + 1 # 0 /\ (n + 1) - 1 = n /\ n <= N
OBVIOUS

\* What the orders of a list are, of whole lists.
LEMMA OrdersOrder ==
  ASSUME Types, NEW list \in Seq(Moves \X KernelsOf(world)),
         NEW p \in Orders(list)[Len(list)]
  PROVE  OrderOf(list, Len(list), p)
<1> DEFINE N == Len(list)
           f == Orders(list)
           S == {n \in Nat : n <= N => \A q \in f[n] : OrderOf(list, n, q)}
<1>1. N \in Nat
  OBVIOUS
<1>2. f = [n \in 0 .. N |-> IF n = 0 THEN {<< >>}
                            ELSE UNION {Extensions(list, q) : q \in f[n - 1]}]
  BY <1>1, OrdersDef
<1> HIDE DEF f, N
<1>3. 0 \in S
  <2>1. f[0] = {<< >>}
    BY <1>1, <1>2
  <2>2. OrderOf(list, 0, << >>)
    BY DEF OrderOf
  <2> QED
    BY <2>1, <2>2
<1>4. ASSUME NEW n \in Nat, n \in S
      PROVE  n + 1 \in S
  <2> SUFFICES ASSUME n + 1 <= N, NEW q \in f[n + 1]
               PROVE  OrderOf(list, n + 1, q)
    BY <1>4
  <2>0. n <= N => \A r \in f[n] : OrderOf(list, n, r)
    BY <1>4
  <2> HIDE DEF S
  <2>1. n + 1 \in 0 .. N /\ n + 1 # 0 /\ (n + 1) - 1 = n /\ n <= N
    BY <1>1, OneFewer
  <2>2. f[n + 1] = UNION {Extensions(list, r) : r \in f[n]}
    BY <1>2, <2>1
  <2>3. PICK r \in f[n] : q \in Extensions(list, r)
    BY <2>2
  <2>4. OrderOf(list, n, r)
    BY <2>0, <2>1, <2>3
  <2> QED
    BY <2>3, <2>4, ExtensionOrders
<1>5. N \in S
  <2> HIDE DEF S
  <2> QED
    BY <1>1, <1>3, <1>4, SetInduction
<1> QED
  BY <1>1, <1>5 DEF f, N

\* Answers that are always the same are consistent: of two places the same one
\* comes first, by its cost, its move or its number.
LEMMA StaticConsistent ==
  ASSUME Types, CostIsStatic, NEW list \in Seq(Moves \X KernelsOf(world))
  PROVE  Consistent(list)
<1> DEFINE Pairs == Moves \X KernelsOf(world)
<1>1. DOMAIN list \subseteq Int /\ \A i \in DOMAIN list : list[i] \in Pairs
  <2> HIDE DEF Pairs
  <2>1. list \in Seq(Pairs)
    BY DEF Pairs
  <2> QED
    BY <2>1
<1> SUFFICES ASSUME NEW i \in DOMAIN list, NEW j \in DOMAIN list, i # j,
                    MayPrecede(list[i], i, list[j], j), MayPrecede(list[j], j, list[i], i)
             PROVE  FALSE
  BY DEF Consistent
<1> DEFINE x == list[i]
           y == list[j]
<1>2. /\ x[1] \in Moves /\ x[2] \in KernelsOf(world)
      /\ y[1] \in Moves /\ y[2] \in KernelsOf(world)
  BY <1>1
<1>3. i \in Int /\ j \in Int
  BY <1>1
<1>4. MayPrecede(x, i, y, j) /\ MayPrecede(y, j, x, i)
  OBVIOUS
<1> HIDE DEF x, y
<1>5. PICK c \in world.cost[x[2]], d \in world.cost[y[2]] :
         c < d \/ (c = d /\ Before(x[1], y[1])) \/ (c = d /\ x[1] = y[1] /\ i < j)
  BY <1>4 DEF MayPrecede
<1>6. d < c \/ (d = c /\ Before(y[1], x[1])) \/ (d = c /\ y[1] = x[1] /\ j < i)
  <2>1. PICK e \in world.cost[y[2]], b \in world.cost[x[2]] :
           e < b \/ (e = b /\ Before(y[1], x[1])) \/ (e = b /\ y[1] = x[1] /\ j < i)
    BY <1>4 DEF MayPrecede
  <2>2. e = d /\ b = c
    BY <1>2 DEF CostIsStatic
  <2> QED
    BY <2>1, <2>2
<1>7. c \in Nat /\ d \in Nat
  BY <1>2, RequestTypes
<1>8. /\ Before(x[1], y[1]) => ~ Before(y[1], x[1]) /\ x[1] # y[1]
      /\ Before(y[1], x[1]) => x[1] # y[1]
  BY <1>2, BeforeAsymmetric
<1> QED
  BY <1>3, <1>5, <1>6, <1>7, <1>8

\* What is sorted is a permutation of the list, and an order of it if the cost
\* model is static.
LEMMA SortedPlaces ==
  ASSUME Types, NEW given \in Seq(Moves \X KernelsOf(world)), NEW list \in Sorted(given)
  PROVE  \E p \in Surjection(1 .. Len(given), 1 .. Len(given)) :
            /\ list = [k \in DOMAIN given |-> given[p[k]]]
            /\ CostIsStatic => p \in Orders(given)[Len(given)]
<1> DEFINE N == Len(given)
<1>1. N \in Nat /\ DOMAIN given = 1 .. N
  OBVIOUS
<1>2. CASE Orderly(given)
  <2>1. PICK p \in Orders(given)[N] : list = [k \in DOMAIN given |-> given[p[k]]]
    BY <1>2 DEF Sorted
  <2>2. OrderOf(given, N, p)
    BY <2>1, OrdersOrder
  <2> HIDE DEF N
  <2>3. p \in [1 .. N -> 1 .. N]
    BY <1>1, <2>2 DEF OrderOf, N
  <2>4. p \in Injection(1 .. N, 1 .. N)
    BY <2>2, <2>3 DEF OrderOf, Injection, IsInjective
  <2>5. IsFiniteSet(1 .. N)
    BY <1>1, FS_Interval
  <2>6. p \in Surjection(1 .. N, 1 .. N)
    BY <2>4, <2>5, FS_Injection
  <2> QED
    BY <2>1, <2>6 DEF N
<1>3. CASE ~ Orderly(given)
  <2>1. PICK p \in Bijection(DOMAIN given, DOMAIN given) :
           list = [k \in DOMAIN given |-> given[p[k]]]
    BY <1>3 DEF Sorted
  <2> HIDE DEF N
  <2>2. p \in Surjection(1 .. N, 1 .. N)
    BY <1>1, <2>1 DEF Bijection
  <2>3. ~ CostIsStatic
    BY <1>3, StaticConsistent DEF Orderly
  <2> QED
    BY <2>1, <2>2, <2>3 DEF N
<1> QED
  BY <1>2, <1>3

\* What sorting gives has the elements it was given, all of them, and the cheap
\* ones first if costs are static.
LEMMA SortedElements ==
  ASSUME Types, NEW given \in Seq(Moves \X KernelsOf(world)), NEW list \in Sorted(given)
  PROVE  /\ Range(list) = Range(given)
         /\ CostIsStatic => Ascends(list)
<1> DEFINE N == Len(given)
<1>1. PICK p \in Surjection(1 .. N, 1 .. N) :
         /\ list = [k \in DOMAIN given |-> given[p[k]]]
         /\ CostIsStatic => p \in Orders(given)[N]
  BY SortedPlaces
<1>2. CostIsStatic => OrderOf(given, N, p)
  BY <1>1, OrdersOrder
<1>3. N \in Nat /\ DOMAIN given = 1 .. N
  OBVIOUS
<1> HIDE DEF N
<1>4. DOMAIN list = 1 .. N /\ \A k \in 1 .. N : list[k] = given[p[k]]
  BY <1>1, <1>3
<1>5. Range(list) = Range(given)
  <2>1. \A k \in 1 .. N : p[k] \in 1 .. N
    BY <1>1 DEF Surjection
  <2>2. \A m \in 1 .. N : \E k \in 1 .. N : p[k] = m
    BY <1>1 DEF Surjection
  <2>3. \A x : x \in Range(list) <=> \E k \in 1 .. N : x = given[p[k]]
    BY <1>4 DEF Range
  <2>4. \A x : x \in Range(given) <=> \E k \in 1 .. N : x = given[k]
    BY <1>3 DEF Range
  <2>5. \A x : (\E k \in 1 .. N : x = given[p[k]]) <=> (\E k \in 1 .. N : x = given[k])
    BY <2>1, <2>2
  <2> QED
    BY <2>3, <2>4, <2>5
<1>6. CostIsStatic => Ascends(list)
  BY <1>2, <1>4 DEF OrderOf, Ascends
<1> QED
  BY <1>5, <1>6

-----------------------------------------------------------------------------
\* The strengthening holds in every state.
LEMMA AlwaysIInv == Spec => []IInv
<1>1. Init => IInv
  BY InitIInv
<1>2. IInv /\ [Next]_vars => IInv'
  BY CostStartKeeps, BeginAttemptKeeps, BeginRoundKeeps, PassOverKeeps, AdoptKeeps,
     MoveOnKeeps, CloseAttemptKeeps DEF Next
<1> QED
  BY <1>1, <1>2, PTL DEF Spec

\* What autotune reports as its outcome fits together, whatever the cost model
\* answers and however often: the final cost is below the initial one exactly
\* when moves are reported, there are no more of them than rounds, and the
\* kernel returned with them has passed the gate against the lowered kernel.
THEOREM OutcomeFits == Spec => []OutcomeConsistent
<1>1. IInv => OutcomeConsistent
  BY DEF IInv, InStep, Improved, OutcomeConsistent, GatePassed
<1> QED
  BY <1>1, AlwaysIInv, PTL

-----------------------------------------------------------------------------
(* Recipes: the moves are kept with the kernels that they make.             *)
Recipes ==
  /\ best \in Replay(best_moves)
  /\ current \in Replay(moves)
  /\ pc = "Examine" => Range(candidates) \subseteq Range(LegalMoves(current))

\* The elements of a list are its head and those of its tail.
LEMMA TailElements ==
  ASSUME NEW S, NEW s \in Seq(S), s # << >>
  PROVE  /\ Head(s) \in Range(s)
         /\ Range(Tail(s)) \subseteq Range(s)
         /\ \A x \in Range(s) : x = Head(s) \/ x \in Range(Tail(s))
         /\ \A i \in DOMAIN Tail(s) : i + 1 \in DOMAIN s /\ Tail(s)[i] = s[i + 1]
<1>1. /\ Len(s) \in Nat \ {0} /\ DOMAIN s = 1 .. Len(s)
      /\ Tail(s) \in Seq(S) /\ Len(Tail(s)) = Len(s) - 1
      /\ \A i \in 1 .. Len(Tail(s)) : Tail(s)[i] = s[i + 1]
  BY HeadTailProperties
<1>2. DOMAIN Tail(s) = 1 .. Len(s) - 1 /\ Head(s) = s[1]
  BY <1>1
<1> DEFINE t == Tail(s)
<1> HIDE DEF t
<1>3. \A i \in DOMAIN t : i + 1 \in DOMAIN s /\ t[i] = s[i + 1]
  BY <1>1, <1>2 DEF t
<1>4. \A i \in DOMAIN s : i = 1 \/ (i - 1 \in DOMAIN t /\ t[i - 1] = s[i])
  <2>1. \A i \in DOMAIN s : i = 1 \/ (i - 1 \in DOMAIN t /\ (i - 1) + 1 = i)
    BY <1>1, <1>2 DEF t
  <2> QED
    BY <1>3, <2>1
<1>5. 1 \in DOMAIN s
  BY <1>1
<1> QED
  BY <1>2, <1>3, <1>4, <1>5 DEF Range, t

\* No move is made yet.
LEMMA InitRecipes == Init => Recipes
<1> SUFFICES ASSUME Init
             PROVE  Recipes
  OBVIOUS
<1>1. Start \in Replay(<< >>)
  BY ReplayOfNone DEF Replay, ReplayOf
<1> QED
  BY <1>1 DEF Init, Recipes

\* Each step that moves records the move.
LEMMA StepRecipes == IInv /\ Recipes /\ [Next]_vars => Recipes'
<1> SUFFICES ASSUME IInv, Recipes, [Next]_vars
             PROVE  Recipes'
  OBVIOUS
<1> DEFINE legal == world.moves[config.mode]
<1>1. \A list : Replay(list) = ReplayOf(legal, Start, list)
  BY DEF Replay, ReplayOf
<1>2. UNCHANGED <<world, config>>
  BY DEF Next, vars, CostStart, BeginAttempt, BeginRound, ExamineNext, Skip, Reject,
         SortPanics, Adopt, EndRounds, CloseAttempt, Return, request
<1>3. /\ Replay(best_moves)' = ReplayOf(legal, Start, best_moves')
      /\ Replay(moves)' = ReplayOf(legal, Start, moves')
  BY <1>2 DEF Replay, ReplayOf, Start
<1>4. LegalMoves(current)' = legal[current'] /\ LegalMoves(current) = legal[current]
  BY <1>2 DEF LegalMoves
<1>5. best \in ReplayOf(legal, Start, best_moves) /\ current \in ReplayOf(legal, Start, moves)
  BY <1>1 DEF Recipes
<1> HIDE DEF legal
<1>6. CASE CostStart \/ SortPanics \/ EndRounds \/ Return \/ UNCHANGED vars
  <2>1. UNCHANGED <<best, best_moves, current, moves, candidates>>
    BY <1>6 DEF CostStart, SortPanics, EndRounds, Return, vars, result, attempt
  <2>2. pc' = "Examine" => pc = "Examine"
    BY <1>6 DEF CostStart, SortPanics, EndRounds, Return, vars
  <2> QED
    BY <1>3, <1>4, <1>5, <2>1, <2>2 DEF Recipes
<1>7. CASE BeginAttempt
  <2>1. UNCHANGED <<best, best_moves>> /\ current' = Start /\ moves' = << >> /\ pc' = "Round"
    BY <1>7 DEF BeginAttempt, Rewind, result
  <2>2. Start \in ReplayOf(legal, Start, << >>)
    BY ReplayOfNone
  <2> QED
    BY <1>3, <1>5, <2>1, <2>2 DEF Recipes
<1>8. CASE BeginRound
  <2>1. UNCHANGED <<best, best_moves, current, moves>>
    BY <1>8 DEF BeginRound, result, attempt
  <2>2. Range(candidates') = Range(LegalMoves(current))
    BY <1>8, RequestTypes, SortedElements DEF IInv, Types, BeginRound
  <2> QED
    BY <1>3, <1>4, <1>5, <2>1, <2>2 DEF Recipes
<1>9. CASE Skip \/ Reject
  <2>1. UNCHANGED <<best, best_moves, current, moves, pc>> /\ pc = "Examine"
    BY <1>9 DEF Skip, Reject, ExamineNext, result, attempt
  <2>2. candidates' = Tail(candidates) /\ candidates # << >>
    BY <1>9 DEF Skip, Reject, ExamineNext
  <2>3. Range(candidates') \subseteq Range(candidates)
    BY <2>2, TailElements DEF IInv, Types
  <2> QED
    BY <1>3, <1>4, <1>5, <2>1, <2>3 DEF Recipes
<1>10. CASE Adopt
  <2> DEFINE step == Head(candidates)
  <2>1. /\ UNCHANGED <<best, best_moves>> /\ pc = "Examine" /\ pc' = "Round"
        /\ candidates # << >>
        /\ current' = step[2] /\ moves' = Append(moves, step[1])
    BY <1>10 DEF Adopt, ExamineNext, result
  <2>2. step \in Range(candidates) /\ step \in Moves \X KernelsOf(world)
    BY <2>1, TailElements, HeadTailProperties DEF IInv, Types
  <2>3. step \in Range(legal[current]) /\ step[1] \in Moves
    BY <1>4, <2>1, <2>2 DEF Recipes
  <2> HIDE DEF step
  <2>4. current' \in ReplayOf(legal, Start, moves')
    BY <1>5, <2>1, <2>3, ReplayStep DEF IInv, Types
  <2> QED
    BY <1>3, <1>5, <2>1, <2>4 DEF Recipes
<1>11. CASE CloseAttempt
  <2>1. \/ best' = current /\ best_moves' = moves
        \/ UNCHANGED <<best, best_moves>>
    BY <1>11 DEF CloseAttempt, KeepBest, result
  <2>2. UNCHANGED <<current, moves>> /\ pc' = "Attempt"
    BY <1>11 DEF CloseAttempt, attempt
  <2> QED
    BY <1>3, <1>5, <2>1, <2>2 DEF Recipes
<1> QED
  BY <1>6, <1>7, <1>8, <1>9, <1>10, <1>11 DEF Next

\* The moves that autotune reports give the kernel that it returns: applied to the
\* lowered kernel one by one, each is legal where it is applied.
THEOREM MovesAreRecipe == Spec => []MovesReplay
<1>1. Spec => []Recipes
  BY InitRecipes, StepRecipes, AlwaysIInv, PTL DEF Spec
<1>2. Recipes => MovesReplay
  BY DEF Recipes, MovesReplay
<1> QED
  BY <1>1, <1>2, PTL

-----------------------------------------------------------------------------
(* The greedy choice, for static costs and moves that preserve the meaning. *)
Determined == CostIsStatic /\ AllEquivalent

\* The candidates ascend, and no legal move that is not among them any more costs
\* less than the current kernel.
CheapFirst ==
  pc = "Examine" /\ Determined =>
    /\ Ascends(candidates)
    /\ \A m \in Range(LegalMoves(current)) :
          \/ m \in Range(candidates)
          \/ \A cost \in world.cost[m[2]] : current_cost <= cost

\* The gate lets every kernel of the world pass, whatever it draws.
LEMMA GateAccepts ==
  ASSUME AllEquivalent, NEW kernel \in KernelsOf(world), NEW draws \in Trials
  PROVE  Validates(Start, kernel, draws)
<1>1. ASSUME NEW t \in DOMAIN draws
      PROVE  draws[t][1] \in Inputs /\ draws[t][2] \in Inputs
  BY DEF Trials
<1> QED
  BY <1>1 DEF Validates, AllEquivalent, Equivalent

\* The order of the candidates survives a step that examines or skips one.
LEMMA StepCheapFirst == IInv /\ CheapFirst /\ [Next]_vars => CheapFirst'
<1> SUFFICES ASSUME IInv, CheapFirst, [Next]_vars, (pc = "Examine" /\ Determined)'
             PROVE  /\ Ascends(candidates)'
                    /\ \A m \in Range(LegalMoves(current)') :
                          \/ m \in Range(candidates')
                          \/ \A cost \in world'.cost[m[2]] : current_cost' <= cost
  BY DEF CheapFirst
<1>1. UNCHANGED <<world, config>>
  BY DEF Next, vars, CostStart, BeginAttempt, BeginRound, ExamineNext, Skip, Reject,
         SortPanics, Adopt, EndRounds, CloseAttempt, Return, request
<1>2. Determined /\ LegalMoves(current)' = world.moves[config.mode][current']
  BY <1>1 DEF Determined, CostIsStatic, AllEquivalent, Equivalent, Agree, KernelsOf, Start,
              LegalMoves
<1>3. Ascends(candidates)' <=> \A i, j \in DOMAIN candidates' :
                                  i <= j => NotAbove(candidates'[i], candidates'[j])
  BY <1>1 DEF Ascends, NotAbove
<1>4. CASE UNCHANGED vars
  BY <1>2, <1>3, <1>4 DEF vars, request, attempt, CheapFirst, LegalMoves, Ascends
<1>5. CASE BeginRound
  <2>1. UNCHANGED <<current, current_cost>>
    BY <1>5 DEF BeginRound, attempt
  <2>2. /\ Range(candidates') = Range(LegalMoves(current))
        /\ \A i, j \in DOMAIN candidates' :
              i <= j => NotAbove(candidates'[i], candidates'[j])
    BY <1>2, <1>5, RequestTypes, SortedElements
       DEF IInv, Types, BeginRound, Ascends, Determined
  <2> QED
    BY <1>2, <1>3, <2>1, <2>2 DEF LegalMoves
<1>6. CASE Skip
  <2> DEFINE first == Head(candidates)
  <2>1. UNCHANGED <<current, current_cost>> /\ pc = "Examine" /\ candidates # << >>
        /\ candidates' = Tail(candidates)
    BY <1>6 DEF Skip, ExamineNext, attempt
  <2>2. PICK cost \in world.cost[first[2]] : cost >= current_cost
    BY <1>6 DEF Skip
  <2>3. first \in Moves \X KernelsOf(world)
    BY <2>1, HeadTailProperties DEF IInv, Types
  <2>4. first[2] \in KernelsOf(world)
    BY <2>3
  <2>5. \A c \in world.cost[first[2]] : current_cost <= c
    <3>1. world.cost[first[2]] \subseteq Nat /\ current_cost \in Nat
      BY <2>4, RequestTypes DEF IInv, Types
    <3>2. \A c \in world.cost[first[2]] : c = cost
      BY <1>2, <2>2, <2>4 DEF Determined, CostIsStatic
    <3> QED
      BY <2>2, <3>1, <3>2
  <2>6. /\ \A x \in Range(candidates) : x = first \/ x \in Range(candidates')
        /\ \A i \in DOMAIN candidates' :
              i + 1 \in DOMAIN candidates /\ candidates'[i] = candidates[i + 1]
    BY <2>1, TailElements DEF IInv, Types
  <2> HIDE DEF first
  <2>7. /\ Ascends(candidates)
        /\ \A m \in Range(LegalMoves(current)) :
              \/ m \in Range(candidates)
              \/ \A c \in world.cost[m[2]] : current_cost <= c
    BY <1>2, <2>1 DEF CheapFirst
  <2>8. ASSUME NEW i \in DOMAIN candidates', NEW j \in DOMAIN candidates', i <= j
        PROVE  NotAbove(candidates'[i], candidates'[j])
    <3>1. i \in Int /\ j \in Int
      BY <2>1, HeadTailProperties DEF IInv, Types
    <3>2. i + 1 <= j + 1
      BY <2>8, <3>1
    <3> QED
      BY <2>6, <2>7, <3>2 DEF Ascends
  <2>9. \A m \in Range(LegalMoves(current)) :
           \/ m \in Range(candidates')
           \/ \A c \in world.cost[m[2]] : current_cost <= c
    BY <2>5, <2>6, <2>7
  <2> QED
    BY <1>1, <1>2, <1>3, <2>1, <2>8, <2>9 DEF LegalMoves
<1>7. CASE Reject
  <2>1. PICK draws \in Trials : ~ Validates(Start, Head(candidates)[2], draws)
    BY <1>7 DEF Reject
  <2>2. candidates # << >>
    BY <1>7 DEF Reject, ExamineNext
  <2>3. Head(candidates) \in Moves \X KernelsOf(world)
    BY <2>2, HeadTailProperties DEF IInv, Types
  <2>4. Head(candidates)[2] \in KernelsOf(world)
    BY <2>3
  <2> QED
    BY <1>2, <2>1, <2>4, GateAccepts DEF Determined
<1>8. CASE \/ CostStart \/ BeginAttempt \/ SortPanics \/ Adopt \/ EndRounds
           \/ CloseAttempt \/ Return
  BY <1>8 DEF CostStart, BeginAttempt, SortPanics, Adopt, EndRounds, CloseAttempt, Return
<1> QED
  BY <1>4, <1>5, <1>6, <1>7, <1>8 DEF Next

\* The first candidate that is adopted is a cheapest one, for none was passed over.
LEMMA AdoptsCheapest ==
  IInv /\ CheapFirst /\ [Next]_vars =>
    [CostIsStatic /\ AllEquivalent /\ moves' # moves /\ moves' # << >> =>
        /\ current_cost' \in world.cost[current']
        /\ \A m \in Range(LegalMoves(current)) :
              \A cost \in world.cost[m[2]] : current_cost' <= cost]_vars
<1> SUFFICES ASSUME IInv, CheapFirst, [Next]_vars, CostIsStatic, AllEquivalent,
                    moves' # moves, moves' # << >>
             PROVE  /\ current_cost' \in world.cost[current']
                    /\ \A m \in Range(LegalMoves(current)) :
                          \A cost \in world.cost[m[2]] : current_cost' <= cost
  OBVIOUS
<1>1. Adopt
  BY DEF Next, vars, attempt, CostStart, BeginAttempt, Rewind, BeginRound, SortPanics, Skip,
         Reject, EndRounds, CloseAttempt, Return
<1> DEFINE first == Head(candidates)
<1>2. /\ pc = "Examine" /\ candidates # << >>
      /\ current_cost' \in world.cost[first[2]] /\ current_cost' < current_cost
      /\ current' = first[2]
  BY <1>1 DEF Adopt, ExamineNext
<1>3. /\ Ascends(candidates)
      /\ \A m \in Range(LegalMoves(current)) :
            \/ m \in Range(candidates)
            \/ \A cost \in world.cost[m[2]] : current_cost <= cost
  BY <1>2 DEF CheapFirst, Determined
<1>4. /\ DOMAIN candidates = 1 .. Len(candidates) /\ Len(candidates) \in Nat \ {0}
      /\ first = candidates[1]
  BY <1>2 DEF IInv, Types
<1> HIDE DEF first
<1>5. ASSUME NEW m \in Range(LegalMoves(current)), NEW cost \in world.cost[m[2]]
      PROVE  current_cost' <= cost
  <2>1. CASE m \in Range(candidates)
    <3>1. PICK j \in DOMAIN candidates : m = candidates[j]
      BY <2>1 DEF Range
    <3>2. 1 \in DOMAIN candidates /\ 1 <= j
      BY <1>4
    <3>3. NotAbove(first, m)
      BY <1>3, <1>4, <3>1, <3>2 DEF Ascends
    <3> QED
      BY <1>2, <3>3 DEF NotAbove
  <2>2. CASE m \notin Range(candidates)
    <3>1. current_cost <= cost
      BY <1>3, <2>2
    <3>2. current_cost \in Nat /\ current_cost' \in Nat /\ cost \in Nat
      <4>1. m \in Moves \X KernelsOf(world)
        BY RequestTypes DEF IInv, Types, Range
      <4>2. m[2] \in KernelsOf(world)
        BY <4>1
      <4>3. first \in Moves \X KernelsOf(world)
        BY <1>2, HeadTailProperties DEF IInv, Types, first
      <4>4. first[2] \in KernelsOf(world)
        BY <4>3
      <4> QED
        BY <1>2, <4>2, <4>4, RequestTypes DEF IInv, Types
    <3> QED
      BY <1>2, <3>1, <3>2
  <2> QED
    BY <2>1, <2>2
<1> QED
  BY <1>2, <1>5

\* When costs are static and moves change no meaning, each round of the search takes
\* one of the cheapest legal moves there are: what the sort, the scan that stops at the
\* first improvement and the second request for its cost come to.
THEOREM GreedyChoice == Spec => TakesCheapestMove
<1>1. Init => CheapFirst
  BY DEF Init, CheapFirst
<1>2. Spec => []CheapFirst
  BY <1>1, StepCheapFirst, AlwaysIInv, PTL DEF Spec
<1> QED
  BY <1>2, AdoptsCheapest, AlwaysIInv, PTL DEF Spec, TakesCheapestMove

-----------------------------------------------------------------------------
(* Restarts, for static costs and moves that preserve the meaning: the      *)
(* search is a function of the lowered kernel then.                         *)
\* What a static cost model answers for a kernel.
CostOf(w, kernel) == CHOOSE c \in w.cost[kernel] : TRUE

\* What sorts first, in a world.
Precedes(w, x, i, y, j) ==
  \/ CostOf(w, x[2]) < CostOf(w, y[2])
  \/ CostOf(w, x[2]) = CostOf(w, y[2]) /\ Before(x[1], y[1])
  \/ CostOf(w, x[2]) = CostOf(w, y[2]) /\ x[1] = y[1] /\ i < j

\* A place of a list that sorts before all others.
Leads(w, list, i) ==
  /\ i \in DOMAIN list
  /\ \A j \in DOMAIN list : j = i \/ Precedes(w, list[i], i, list[j], j)

\* No legal move makes the kernel cheaper.
Settled(w, mode, kernel) ==
  \A m \in Range(w.moves[mode][kernel]) : CostOf(w, kernel) <= CostOf(w, m[2])

\* The kernel that a round makes of another.
Follows(w, mode, kernel, next) ==
  \/ \E i \in DOMAIN w.moves[mode][kernel] :
        /\ Leads(w, w.moves[mode][kernel], i)
        /\ next = w.moves[mode][kernel][i][2]
        /\ CostOf(w, next) < CostOf(w, kernel)
  \/ Settled(w, mode, kernel) /\ next = kernel

\* The kernel after n rounds from the lowered one.
Reached(w, mode, n, kernel) ==
  \E f \in [0 .. n -> KernelsOf(w)] :
     /\ f[0] = w.start
     /\ \A m \in 1 .. n : Follows(w, mode, f[m - 1], f[m])
     /\ f[n] = kernel

\* Costs are natural numbers.
LEMMA CostOfTypes ==
  ASSUME NEW w, w \in Worlds, NEW k, k \in KernelsOf(w)
  PROVE  CostOf(w, k) \in w.cost[k] /\ CostOf(w, k) \in Nat
<1>1. w.cost[k] \in (SUBSET Nat) \ {{}}
  BY AutotuneAssumption
<1> QED
  BY <1>1 DEF CostOf

\* What the cost model answers, if it is static.
LEMMA StaticCost ==
  ASSUME Types, CostIsStatic, NEW k \in KernelsOf(world), NEW c \in world.cost[k]
  PROVE  c = CostOf(world, k)
BY CostOfTypes DEF Types, CostIsStatic

\* So what sorts first sorts before what sorts later,
LEMMA PrecedesTransitive ==
  ASSUME NEW w, w \in Worlds, NEW x, x \in Moves \X KernelsOf(w),
         NEW y, y \in Moves \X KernelsOf(w), NEW z, z \in Moves \X KernelsOf(w),
         NEW i \in Int, NEW j \in Int, NEW k \in Int,
         Precedes(w, x, i, y, j), Precedes(w, y, j, z, k)
  PROVE  Precedes(w, x, i, z, k)
<1> DEFINE a == CostOf(w, x[2])
           b == CostOf(w, y[2])
           c == CostOf(w, z[2])
<1>1. /\ x[1] \in Moves /\ y[1] \in Moves /\ z[1] \in Moves
      /\ x[2] \in KernelsOf(w) /\ y[2] \in KernelsOf(w) /\ z[2] \in KernelsOf(w)
  OBVIOUS
<1>2. a \in Nat /\ b \in Nat /\ c \in Nat
  BY <1>1, CostOfTypes
<1>3. Before(x[1], y[1]) /\ Before(y[1], z[1]) => Before(x[1], z[1])
  BY <1>1, BeforeTransitive
<1>4. /\ a < b \/ (a = b /\ Before(x[1], y[1])) \/ (a = b /\ x[1] = y[1] /\ i < j)
      /\ b < c \/ (b = c /\ Before(y[1], z[1])) \/ (b = c /\ y[1] = z[1] /\ j < k)
  BY DEF Precedes
<1>5. a < c \/ (a = c /\ Before(x[1], z[1])) \/ (a = c /\ x[1] = z[1] /\ i < k)
  <2> HIDE DEF a, b, c
  <2> QED
    BY <1>2, <1>3, <1>4
<1> QED
  BY <1>5 DEF Precedes

\* and never after it.
LEMMA PrecedesAsymmetric ==
  ASSUME NEW w, w \in Worlds, NEW x, x \in Moves \X KernelsOf(w),
         NEW y, y \in Moves \X KernelsOf(w), NEW i \in Int, NEW j \in Int,
         Precedes(w, x, i, y, j)
  PROVE  ~ Precedes(w, y, j, x, i)
<1> DEFINE a == CostOf(w, x[2])
           b == CostOf(w, y[2])
<1>1. x[1] \in Moves /\ y[1] \in Moves /\ x[2] \in KernelsOf(w) /\ y[2] \in KernelsOf(w)
  OBVIOUS
<1>2. a \in Nat /\ b \in Nat
  BY <1>1, CostOfTypes
<1>3. /\ Before(x[1], y[1]) => ~ Before(y[1], x[1]) /\ x[1] # y[1]
      /\ Before(y[1], x[1]) => x[1] # y[1]
  BY <1>1, BeforeAsymmetric
<1>4. a < b \/ (a = b /\ Before(x[1], y[1])) \/ (a = b /\ x[1] = y[1] /\ i < j)
  BY DEF Precedes
<1>5. ~ (b < a \/ (b = a /\ Before(y[1], x[1])) \/ (b = a /\ y[1] = x[1] /\ j < i))
  <2> HIDE DEF a, b
  <2> QED
    BY <1>2, <1>3, <1>4
<1> QED
  BY <1>5 DEF Precedes

\* A list has one place that leads, at most.
LEMMA OneLeads ==
  ASSUME NEW w, w \in Worlds, NEW list, list \in Seq(Moves \X KernelsOf(w)),
         NEW i, NEW j, Leads(w, list, i), Leads(w, list, j)
  PROVE  i = j
<1> DEFINE Pairs == Moves \X KernelsOf(w)
<1>1. i \in DOMAIN list /\ j \in DOMAIN list
  BY DEF Leads
<1>2. list[i] \in Pairs /\ list[j] \in Pairs /\ i \in Int /\ j \in Int
  <2>1. list \in Seq(Pairs)
    OBVIOUS
  <2> HIDE DEF Pairs
  <2> QED
    BY <1>1, <2>1
<1>3. i # j => Precedes(w, list[i], i, list[j], j) /\ Precedes(w, list[j], j, list[i], i)
  BY <1>1 DEF Leads
<1> QED
  BY <1>2, <1>3, PrecedesAsymmetric

\* What a sort may put first sorts first.
LEMMA MayPrecedes ==
  ASSUME Types, CostIsStatic, NEW x, x \in Moves \X KernelsOf(world),
         NEW y, y \in Moves \X KernelsOf(world), NEW i, NEW j, MayPrecede(x, i, y, j)
  PROVE  Precedes(world, x, i, y, j)
<1>1. x[2] \in KernelsOf(world) /\ y[2] \in KernelsOf(world)
  OBVIOUS
<1>2. PICK c \in world.cost[x[2]], d \in world.cost[y[2]] :
         \/ c < d
         \/ c = d /\ Before(x[1], y[1])
         \/ c = d /\ x[1] = y[1] /\ i < j
  BY DEF MayPrecede
<1>3. c = CostOf(world, x[2]) /\ d = CostOf(world, y[2])
  BY <1>1, <1>2, StaticCost
<1> QED
  BY <1>2, <1>3 DEF Precedes

\* Of the places of an order, none sorts before the first.
FirstOf(list, n, p) ==
  n > 0 => \A i \in 2 .. n : Precedes(world, list[p[1]], p[1], list[p[i]], p[i])

\* Each further place sorts after the last, and so after the first.
LEMMA ExtensionFirst ==
  ASSUME Types, CostIsStatic, NEW list \in Seq(Moves \X KernelsOf(world)), NEW n \in Nat,
         NEW p, OrderOf(list, n, p), FirstOf(list, n, p), NEW q \in Extensions(list, p)
  PROVE  FirstOf(list, n + 1, q)
<1> DEFINE Pairs == Moves \X KernelsOf(world)
<1>1. PICK e \in DOMAIN list \ Range(p) :
        /\ p # << >> => MayPrecede(list[Last(p)], Last(p), list[e], e)
        /\ q = Append(p, e)
  BY DEF Extensions
<1>2. DOMAIN list = 1 .. Len(list) /\ \A i \in 1 .. Len(list) : list[i] \in Pairs
  <2> HIDE DEF Pairs
  <2>1. list \in Seq(Pairs)
    BY DEF Pairs
  <2> QED
    BY <2>1
<1>3. /\ p \in Seq(1 .. Len(list)) /\ Len(p) = n /\ e \in 1 .. Len(list)
      /\ \A i \in 1 .. n : p[i] \in 1 .. Len(list)
  <2>1. p \in Seq(1 .. Len(list)) /\ Len(p) = n /\ e \in 1 .. Len(list)
    BY <1>1, <1>2 DEF OrderOf
  <2>2. \A i \in 1 .. n : p[i] \in 1 .. Len(list)
    BY <2>1
  <2> QED
    BY <2>1, <2>2
<1>4. /\ \A i \in 1 .. n : q[i] = p[i]
      /\ q[n + 1] = e
  BY <1>3, <1>1
<1>5. ASSUME NEW i \in 2 .. (n + 1)
      PROVE  Precedes(world, list[q[1]], q[1], list[q[i]], q[i])
  <2> HIDE DEF Pairs
  <2>1. /\ i \in 1 .. n \/ i = n + 1
        /\ n >= 1 /\ 1 \in 1 .. n /\ n \in 1 .. n /\ i \in Int
    BY <1>5
  <2>2. q[1] = p[1] /\ list[p[1]] \in Pairs /\ list[p[n]] \in Pairs /\ list[e] \in Pairs
    BY <1>2, <1>3, <1>4, <2>1
  <2>3. CASE i \in 1 .. n
    <3>1. i \in 2 .. n /\ n > 0
      BY <1>5, <2>1, <2>3
    <3> QED
      BY <1>4, <2>2, <2>3, <3>1 DEF FirstOf
  <2>4. CASE i = n + 1
    <3>1. p # << >> /\ Last(p) = p[n]
      BY <1>3, <2>1 DEF Last
    <3>2. Precedes(world, list[p[n]], p[n], list[e], e)
      BY <1>1, <2>2, <3>1, MayPrecedes DEF Pairs
    <3>3. CASE n = 1
      BY <1>4, <2>2, <2>4, <3>2, <3>3
    <3>4. CASE n # 1
      <4>1. n \in 2 .. n /\ n > 0
        BY <2>1, <3>4
      <4>2. Precedes(world, list[p[1]], p[1], list[p[n]], p[n])
        BY <4>1 DEF FirstOf
      <4>3. p[1] \in Int /\ p[n] \in Int /\ e \in Int
        BY <1>3, <2>1
      <4>4. Precedes(world, list[p[1]], p[1], list[e], e)
        BY <2>2, <3>2, <4>2, <4>3, PrecedesTransitive DEF Types, Pairs
      <4> QED
        BY <1>4, <2>2, <2>4, <4>4
    <3> QED
      BY <3>3, <3>4
  <2> QED
    BY <2>1, <2>3, <2>4
<1> QED
  BY <1>5 DEF FirstOf

\* So the first place of a sorted order leads.
LEMMA OrdersFirst ==
  ASSUME Types, CostIsStatic, NEW list \in Seq(Moves \X KernelsOf(world)),
         NEW p \in Orders(list)[Len(list)]
  PROVE  FirstOf(list, Len(list), p)
<1> DEFINE N == Len(list)
           f == Orders(list)
           S == {n \in Nat : n <= N => \A q \in f[n] : /\ OrderOf(list, n, q)
                                                       /\ FirstOf(list, n, q)}
<1>1. N \in Nat
  OBVIOUS
<1>2. f = [n \in 0 .. N |-> IF n = 0 THEN {<< >>}
                            ELSE UNION {Extensions(list, q) : q \in f[n - 1]}]
  BY <1>1, OrdersDef
<1> HIDE DEF f, N
<1>3. 0 \in S
  <2>1. f[0] = {<< >>}
    BY <1>1, <1>2
  <2>2. OrderOf(list, 0, << >>)
    BY DEF OrderOf
  <2>3. FirstOf(list, 0, << >>)
    BY DEF FirstOf
  <2> QED
    BY <2>1, <2>2, <2>3
<1>4. ASSUME NEW n \in Nat, n \in S
      PROVE  n + 1 \in S
  <2> SUFFICES ASSUME n + 1 <= N, NEW q \in f[n + 1]
               PROVE  OrderOf(list, n + 1, q) /\ FirstOf(list, n + 1, q)
    BY <1>4
  <2>0. n <= N => \A r \in f[n] : OrderOf(list, n, r) /\ FirstOf(list, n, r)
    BY <1>4
  <2> HIDE DEF S
  <2>1. n + 1 \in 0 .. N /\ n + 1 # 0 /\ (n + 1) - 1 = n /\ n <= N
    BY <1>1, OneFewer
  <2>2. f[n + 1] = UNION {Extensions(list, r) : r \in f[n]}
    BY <1>2, <2>1
  <2>3. PICK r \in f[n] : q \in Extensions(list, r)
    BY <2>2
  <2>4. OrderOf(list, n, r) /\ FirstOf(list, n, r)
    BY <2>0, <2>1, <2>3
  <2>5. OrderOf(list, n + 1, q)
    BY <2>3, <2>4, ExtensionOrders
  <2>6. FirstOf(list, n + 1, q)
    BY <2>3, <2>4, ExtensionFirst
  <2> QED
    BY <2>5, <2>6
<1>5. N \in S
  <2> HIDE DEF S
  <2> QED
    BY <1>1, <1>3, <1>4, SetInduction
<1> QED
  BY <1>1, <1>5 DEF f, N

\* Sorting puts what leads first.
LEMMA SortedLead ==
  ASSUME Types, CostIsStatic, NEW given \in Seq(Moves \X KernelsOf(world)),
         NEW list \in Sorted(given), list # << >>
  PROVE  \E i \in DOMAIN given : Leads(world, given, i) /\ list[1] = given[i]
<1> DEFINE N == Len(given)
<1>1. PICK p \in Surjection(1 .. N, 1 .. N) :
         p \in Orders(given)[N] /\ list = [k \in DOMAIN given |-> given[p[k]]]
  BY SortedPlaces
<1>2. OrderOf(given, N, p) /\ FirstOf(given, N, p)
  BY <1>1, OrdersOrder, OrdersFirst
<1>3. N \in Nat /\ DOMAIN given = 1 .. N
  OBVIOUS
<1> HIDE DEF N
<1>4. DOMAIN list = 1 .. N /\ \A k \in 1 .. N : list[k] = given[p[k]]
  BY <1>1, <1>3
<1>5. N >= 1 /\ 1 \in 1 .. N
  <2>1. CASE N = 0
    <3>1. 1 .. N = {} /\ DOMAIN given = {}
      BY <1>3, <2>1
    <3>2. list = << >>
      BY <1>1, <3>1
    <3> QED
      BY <3>2
  <2> QED
    BY <1>3, <2>1
<1>6. p[1] \in 1 .. N /\ \A m \in 1 .. N : \E k \in 1 .. N : p[k] = m
  BY <1>1, <1>5 DEF Surjection
<1>7. ASSUME NEW j \in 1 .. N, j # p[1]
      PROVE  Precedes(world, given[p[1]], p[1], given[j], j)
  <2>1. PICK k \in 1 .. N : p[k] = j
    BY <1>6
  <2>2. k \in 2 .. N /\ N > 0
    BY <1>3, <1>5, <1>7, <2>1
  <2> QED
    BY <1>2, <2>1, <2>2 DEF FirstOf
<1>8. Leads(world, given, p[1])
  BY <1>3, <1>6, <1>7 DEF Leads
<1>9. list[1] = given[p[1]]
  BY <1>4, <1>5
<1> QED
  BY <1>3, <1>6, <1>8, <1>9

\* A round makes one kernel of another.
LEMMA OneFollows ==
  ASSUME NEW w, w \in Worlds, NEW mode, mode \in DOMAIN w.moves,
         NEW k, k \in KernelsOf(w), NEW a, NEW b,
         Follows(w, mode, k, a), Follows(w, mode, k, b)
  PROVE  a = b
<1> DEFINE list == w.moves[mode][k]
           Pairs == Moves \X KernelsOf(w)
<1>1. list \in Seq(Pairs)
  BY AutotuneAssumption
<1>2. /\ \/ \E i \in DOMAIN list : /\ Leads(w, list, i) /\ a = list[i][2]
                                   /\ CostOf(w, a) < CostOf(w, k)
         \/ Settled(w, mode, k) /\ a = k
      /\ \/ \E i \in DOMAIN list : /\ Leads(w, list, i) /\ b = list[i][2]
                                   /\ CostOf(w, b) < CostOf(w, k)
         \/ Settled(w, mode, k) /\ b = k
  BY DEF Follows
<1>3. ASSUME NEW i \in DOMAIN list, CostOf(w, list[i][2]) < CostOf(w, k), Settled(w, mode, k)
      PROVE  FALSE
  <2>1. list[i] \in Range(list)
    BY DEF Range
  <2>2. CostOf(w, k) <= CostOf(w, list[i][2])
    BY <1>3, <2>1 DEF Settled
  <2>3. list[i] \in Pairs
    <3> HIDE DEF Pairs, list
    <3> QED
      BY <1>1
  <2>4. list[i][2] \in KernelsOf(w)
    BY <2>3
  <2> HIDE DEF list
  <2> QED
    BY <1>3, <2>2, <2>4, CostOfTypes
<1>4. ASSUME NEW i \in DOMAIN list, NEW j \in DOMAIN list, Leads(w, list, i), Leads(w, list, j)
      PROVE  i = j
  BY <1>1, <1>4, OneLeads
<1> HIDE DEF list
<1> QED
  BY <1>2, <1>3, <1>4

\* So some number of rounds makes one kernel of the lowered one.
LEMMA OneReached ==
  ASSUME NEW w, w \in Worlds, NEW mode, mode \in DOMAIN w.moves, NEW n, n \in Nat,
         NEW a, NEW b, Reached(w, mode, n, a), Reached(w, mode, n, b)
  PROVE  a = b
<1>1. PICK f \in [0 .. n -> KernelsOf(w)] :
        /\ f[0] = w.start
        /\ \A m \in 1 .. n : Follows(w, mode, f[m - 1], f[m])
        /\ f[n] = a
  BY DEF Reached
<1>2. PICK g \in [0 .. n -> KernelsOf(w)] :
        /\ g[0] = w.start
        /\ \A m \in 1 .. n : Follows(w, mode, g[m - 1], g[m])
        /\ g[n] = b
  BY DEF Reached
<1> DEFINE S == {m \in Nat : m <= n => f[m] = g[m]}
<1>3. 0 \in S
  BY <1>1, <1>2
<1>4. ASSUME NEW m \in Nat, m \in S
      PROVE  m + 1 \in S
  <2> SUFFICES ASSUME m + 1 <= n
               PROVE  f[m + 1] = g[m + 1]
    BY <1>4
  <2>1. m + 1 \in 1 .. n /\ (m + 1) - 1 = m /\ m <= n /\ m \in 0 .. n
    OBVIOUS
  <2>2. f[m] = g[m] /\ f[m] \in KernelsOf(w)
    BY <1>4, <2>1
  <2>3. Follows(w, mode, f[m], f[m + 1]) /\ Follows(w, mode, g[m], g[m + 1])
    BY <1>1, <1>2, <2>1
  <2> QED
    BY <2>2, <2>3, OneFollows
<1>5. n \in S
  <2> HIDE DEF S
  <2> QED
    BY <1>3, <1>4, SetInduction
<1> QED
  BY <1>1, <1>2, <1>5

\* The lowered kernel is reached by no round,
LEMMA StartReached ==
  ASSUME NEW w, w \in Worlds, NEW mode
  PROVE  Reached(w, mode, 0, w.start)
<1> DEFINE f == [m \in 0 .. 0 |-> w.start]
<1>1. w.start \in KernelsOf(w)
  BY AutotuneAssumption
<1>2. f \in [0 .. 0 -> KernelsOf(w)] /\ f[0] = w.start /\ 1 .. 0 = {}
  BY <1>1
<1> QED
  BY <1>2 DEF Reached

\* one more round reaches what follows,
LEMMA FollowsReached ==
  ASSUME NEW w, w \in Worlds, NEW mode, NEW n, n \in Nat, NEW a, NEW b, b \in KernelsOf(w),
         Reached(w, mode, n, a), Follows(w, mode, a, b)
  PROVE  Reached(w, mode, n + 1, b)
<1>1. PICK f \in [0 .. n -> KernelsOf(w)] :
        /\ f[0] = w.start
        /\ \A m \in 1 .. n : Follows(w, mode, f[m - 1], f[m])
        /\ f[n] = a
  BY DEF Reached
<1> DEFINE g == [m \in 0 .. (n + 1) |-> IF m = n + 1 THEN b ELSE f[m]]
<1>2. g \in [0 .. (n + 1) -> KernelsOf(w)]
  <2>1. \A m \in 0 .. (n + 1) : m = n + 1 \/ m \in 0 .. n
    OBVIOUS
  <2> QED
    BY <2>1
<1>3. g[0] = w.start /\ g[n + 1] = b
  BY <1>1
<1>4. ASSUME NEW m \in 1 .. (n + 1)
      PROVE  Follows(w, mode, g[m - 1], g[m])
  <2>1. CASE m = n + 1
    <3>1. m - 1 = n /\ g[m - 1] = f[n] /\ g[m] = b
      BY <2>1
    <3> QED
      BY <1>1, <3>1
  <2>2. CASE m # n + 1
    <3>1. m \in 1 .. n /\ g[m - 1] = f[m - 1] /\ g[m] = f[m]
      BY <2>2
    <3> QED
      BY <1>1, <3>1
  <2> QED
    BY <2>1, <2>2
<1> HIDE DEF g
<1> QED
  BY <1>2, <1>3, <1>4 DEF Reached

\* and a kernel that is settled stays.
LEMMA SettledReached ==
  ASSUME NEW w, w \in Worlds, NEW mode, NEW n, n \in Nat, NEW N, N \in Nat, n <= N,
         NEW k, Reached(w, mode, n, k), Settled(w, mode, k)
  PROVE  Reached(w, mode, N, k)
<1>1. PICK f \in [0 .. n -> KernelsOf(w)] :
        /\ f[0] = w.start
        /\ \A m \in 1 .. n : Follows(w, mode, f[m - 1], f[m])
        /\ f[n] = k
  BY DEF Reached
<1> DEFINE g == [m \in 0 .. N |-> IF m <= n THEN f[m] ELSE k]
<1>2. n \in 0 .. n /\ k \in KernelsOf(w)
  BY <1>1
<1>3. g \in [0 .. N -> KernelsOf(w)]
  <2>1. \A m \in 0 .. N : m <= n => m \in 0 .. n
    OBVIOUS
  <2> QED
    BY <1>2, <2>1
<1>4. g[0] = w.start /\ g[N] = k
  BY <1>1
<1>5. ASSUME NEW m \in 1 .. N
      PROVE  Follows(w, mode, g[m - 1], g[m])
  <2>1. CASE m <= n
    <3>1. m \in 1 .. n /\ g[m - 1] = f[m - 1] /\ g[m] = f[m]
      BY <2>1
    <3> QED
      BY <1>1, <3>1
  <2>2. CASE ~ (m <= n)
    <3>1. g[m - 1] = k /\ g[m] = k
      BY <1>1, <2>2
    <3>2. Follows(w, mode, k, k)
      BY DEF Follows
    <3> QED
      BY <3>1, <3>2
  <2> QED
    BY <2>1, <2>2
<1> HIDE DEF g
<1> QED
  BY <1>3, <1>4, <1>5 DEF Reached

\* Where the search is within its attempt.
KernelAfter(n, kernel) == Reached(world, config.mode, n, kernel)

\* In a round, either the candidates begin with what the round will adopt if it makes
\* the kernel cheaper, or nothing does.
RoundKnown ==
  \/ Settled(world, config.mode, current)
  \/ /\ candidates # << >>
     /\ \E i \in DOMAIN LegalMoves(current) :
           /\ Leads(world, LegalMoves(current), i)
           /\ candidates[1] = LegalMoves(current)[i]

\* What was begun was begun with the cost of the lowered kernel, each attempt is where
\* its rounds lead to, and none is better than the best that the first one gave.
Repeating ==
  Determined =>
    /\ pc # "Called" => cost_before = CostOf(world, Start)
    /\ pc = "Called" => restart = 0
    /\ pc \in {"Round", "Examine", "Close"} => current_cost = CostOf(world, current)
    /\ pc \in {"Round", "Examine"} => KernelAfter(round, current)
    /\ pc = "Examine" => RoundKnown
    /\ pc = "Close" => KernelAfter(config.max_rounds, current)
    /\ restart > 0 => \E k \in KernelsOf(world) : /\ KernelAfter(config.max_rounds, k)
                                                  /\ best_cost <= CostOf(world, k)

\* When autotune is called nothing is known.
LEMMA InitRepeating == Init => Repeating
BY DEF Init, Repeating

\* The request of a search is fixed, and with it all that it determines.
LEMMA RequestFixed ==
  ASSUME [Next]_vars
  PROVE  /\ UNCHANGED <<world, config>>
         /\ Determined' <=> Determined
         /\ Start' = Start
<1>1. UNCHANGED <<world, config>>
  BY DEF Next, vars, CostStart, BeginAttempt, BeginRound, ExamineNext, Skip, Reject,
         SortPanics, Adopt, EndRounds, CloseAttempt, Return, request
<1> QED
  BY <1>1 DEF Determined, CostIsStatic, AllEquivalent, Equivalent, Agree, KernelsOf, Start

\* What leads costs no more than any legal move.
LEMMA LeadCheapest ==
  ASSUME NEW w, w \in Worlds, NEW mode, mode \in DOMAIN w.moves,
         NEW k, k \in KernelsOf(w), NEW i, Leads(w, w.moves[mode][k], i),
         CostOf(w, k) <= CostOf(w, w.moves[mode][k][i][2])
  PROVE  Settled(w, mode, k)
<1> DEFINE list == w.moves[mode][k]
           Pairs == Moves \X KernelsOf(w)
<1>1. list \in Seq(Pairs)
  BY AutotuneAssumption
<1>2. Leads(w, list, i) /\ CostOf(w, k) <= CostOf(w, list[i][2])
  OBVIOUS
<1>3. \A j \in DOMAIN list : list[j] \in Pairs
  <2> HIDE DEF Pairs, list
  <2> QED
    BY <1>1
<1>4. \A j \in DOMAIN list : list[j][2] \in KernelsOf(w)
  BY <1>3
<1> HIDE DEF list
<1>5. ASSUME NEW m \in Range(list)
      PROVE  CostOf(w, k) <= CostOf(w, m[2])
  <2>1. PICK j \in DOMAIN list : m = list[j]
    BY DEF Range
  <2>2. i \in DOMAIN list /\ (j = i \/ Precedes(w, list[i], i, list[j], j))
    BY <1>2 DEF Leads
  <2> DEFINE a == CostOf(w, k)
             b == CostOf(w, list[i][2])
             c == CostOf(w, list[j][2])
  <2>3. a \in Nat /\ b \in Nat /\ c \in Nat
    BY <1>4, <2>2, CostOfTypes
  <2>4. j = i \/ b < c \/ b = c
    BY <2>2 DEF Precedes
  <2>5. j = i => b = c
    OBVIOUS
  <2>6. a <= b
    BY <1>2
  <2>7. m[2] = list[j][2]
    BY <2>1
  <2>8. a <= c
    <3> HIDE DEF a, b, c
    <3> QED
      BY <2>3, <2>4, <2>5, <2>6
  <2> QED
    BY <2>7, <2>8
<1> QED
  BY <1>5 DEF Settled, list

\* Asking for the cost of the lowered kernel.
LEMMA CostStartRepeats == IInv /\ Repeating /\ CostStart => Repeating'
<1> SUFFICES ASSUME IInv, Repeating, CostStart, Determined
             PROVE  Repeating'
  BY RequestFixed DEF Repeating, Next
<1>1. pc = "Called" /\ pc' = "Attempt" /\ UNCHANGED <<restart, world, config>>
  BY DEF CostStart, request
<1>2. restart' = 0
  BY <1>1 DEF Repeating
<1>3. cost_before' = CostOf(world, Start)
  BY RequestTypes, StaticCost DEF CostStart, IInv, Determined
<1>4. Start' = Start
  BY <1>1 DEF Start
<1> QED
  BY <1>1, <1>2, <1>3, <1>4 DEF Repeating

\* An attempt begins at the lowered kernel with its cost.
LEMMA BeginAttemptRepeats == IInv /\ Repeating /\ BeginAttempt => Repeating'
<1> SUFFICES ASSUME IInv, Repeating, BeginAttempt, Determined
             PROVE  Repeating'
  BY RequestFixed DEF Repeating, Next
<1>1. /\ pc = "Attempt" /\ pc' = "Round" /\ current' = Start /\ current_cost' = cost_before
      /\ round' = 0 /\ UNCHANGED <<world, config, cost_before, restart, best_cost>>
  BY DEF BeginAttempt, Rewind, request, result
<1>2. Start' = Start
  BY <1>1 DEF Start
<1>3. KernelAfter(0, Start)
  BY StartReached DEF KernelAfter, IInv, Types, Start
<1>4. KernelAfter(round, current)'
  BY <1>1, <1>3 DEF KernelAfter
<1>5. cost_before = CostOf(world, Start)
  BY <1>1 DEF Repeating
<1> QED
  BY <1>1, <1>2, <1>4, <1>5 DEF Repeating, KernelAfter

\* A round begins with the candidates sorted.
LEMMA BeginRoundRepeats == IInv /\ Repeating /\ BeginRound => Repeating'
<1> SUFFICES ASSUME IInv, Repeating, BeginRound, Determined
             PROVE  Repeating'
  BY RequestFixed DEF Repeating, Next
<1>1. /\ pc = "Round" /\ pc' = "Examine" /\ candidates' \in Sorted(LegalMoves(current))
      /\ UNCHANGED <<world, config, cost_before, restart, best_cost, current, current_cost,
                     round>>
  BY DEF BeginRound, request, result, attempt
<1>2. Start' = Start /\ LegalMoves(current)' = LegalMoves(current)
  BY <1>1 DEF Start, LegalMoves
<1>3. LegalMoves(current) \in Seq(Moves \X KernelsOf(world))
  BY RequestTypes DEF IInv, Types
<1>4. CASE candidates' # << >>
  <2>1. \E i \in DOMAIN LegalMoves(current) :
           /\ Leads(world, LegalMoves(current), i)
           /\ candidates'[1] = LegalMoves(current)[i]
    BY <1>1, <1>3, <1>4, SortedLead DEF IInv, Determined
  <2>2. RoundKnown'
    BY <1>1, <1>2, <1>4, <2>1 DEF RoundKnown
  <2> QED
    BY <1>1, <1>2, <2>2 DEF Repeating, KernelAfter
<1>5. CASE candidates' = << >>
  <2>1. Range(candidates') = Range(LegalMoves(current))
    BY <1>1, <1>3, SortedElements DEF IInv
  <2>2. Range(LegalMoves(current)) = {}
    BY <1>5, <2>1 DEF Range
  <2>3. Settled(world, config.mode, current)
    BY <2>2 DEF Settled, LegalMoves
  <2>4. RoundKnown'
    BY <1>1, <2>3 DEF RoundKnown
  <2> QED
    BY <1>1, <1>2, <2>4 DEF Repeating, KernelAfter
<1> QED
  BY <1>4, <1>5

\* A candidate that is skipped although it leads leaves nothing to be adopted.
LEMMA SkipRepeats == IInv /\ Repeating /\ Skip => Repeating'
<1> SUFFICES ASSUME IInv, Repeating, Skip, Determined
             PROVE  Repeating'
  BY RequestFixed DEF Repeating, Next
<1>1. /\ pc = "Examine" /\ candidates # << >>
      /\ \E cost \in world.cost[Head(candidates)[2]] : cost >= current_cost
      /\ UNCHANGED <<pc, world, config, cost_before, restart, best_cost, current,
                     current_cost, round>>
  BY DEF Skip, ExamineNext, request, result, attempt
<1>2. Start' = Start
  BY <1>1 DEF Start
<1>3. Settled(world, config.mode, current)
  <2> SUFFICES ASSUME NEW i \in DOMAIN LegalMoves(current),
                      Leads(world, LegalMoves(current), i),
                      candidates[1] = LegalMoves(current)[i]
               PROVE  Settled(world, config.mode, current)
    BY <1>1 DEF Repeating, RoundKnown
  <2> DEFINE first == candidates[1]
             Pairs == Moves \X KernelsOf(world)
  <2>1. candidates \in Seq(Pairs)
    BY DEF IInv, Types
  <2>2. first = Head(candidates) /\ first \in Pairs
    <3> HIDE DEF Pairs
    <3> QED
      BY <1>1, <2>1
  <2>3. first[2] \in KernelsOf(world)
    BY <2>2
  <2>4. CostOf(world, first[2]) >= current_cost
    BY <1>1, <2>2, <2>3, StaticCost DEF IInv, Determined
  <2>5. current_cost = CostOf(world, current)
    BY <1>1 DEF Repeating
  <2>6. /\ world \in Worlds /\ config.mode \in DOMAIN world.moves /\ current \in KernelsOf(world)
        /\ LegalMoves(current) = world.moves[config.mode][current]
    BY AutotuneAssumption DEF IInv, Types, LegalMoves
  <2>7. CostOf(world, current) \in Nat /\ CostOf(world, first[2]) \in Nat
    BY <2>3, <2>6, CostOfTypes
  <2>8. CostOf(world, current) <= CostOf(world, first[2])
    BY <2>4, <2>5, <2>7
  <2> HIDE DEF first
  <2>9. /\ Leads(world, world.moves[config.mode][current], i)
        /\ first = world.moves[config.mode][current][i]
    BY <2>6 DEF first
  <2> QED
    BY <2>6, <2>8, <2>9, LeadCheapest
<1>4. RoundKnown'
  BY <1>1, <1>3 DEF RoundKnown
<1> QED
  BY <1>1, <1>2, <1>4 DEF Repeating, KernelAfter

\* A candidate that is adopted leads.
LEMMA AdoptRepeats == IInv /\ Recipes /\ Repeating /\ Adopt => Repeating'
<1> SUFFICES ASSUME IInv, Recipes, Repeating, Adopt, Determined
             PROVE  Repeating'
  BY RequestFixed DEF Repeating, Next
<1> DEFINE first == Head(candidates)
           Pairs == Moves \X KernelsOf(world)
<1>1. /\ pc = "Examine" /\ candidates # << >> /\ pc' = "Round" /\ round' = round + 1
      /\ current' = first[2] /\ current_cost' \in world.cost[first[2]]
      /\ current_cost' < current_cost
      /\ UNCHANGED <<world, config, cost_before, restart, best_cost>>
  BY DEF Adopt, ExamineNext, request, result
<1>2. Start' = Start
  BY <1>1 DEF Start
<1>3. candidates \in Seq(Pairs)
  BY DEF IInv, Types
<1>4. first = candidates[1] /\ first \in Pairs /\ 1 \in DOMAIN candidates
  <2> HIDE DEF Pairs
  <2> QED
    BY <1>1, <1>3
<1>5. first[2] \in KernelsOf(world)
  BY <1>4
<1>6. first \in Range(LegalMoves(current))
  BY <1>1, <1>4 DEF Recipes, Range
<1> HIDE DEF first
<1>7. current_cost' = CostOf(world, current') /\ current_cost = CostOf(world, current)
  BY <1>1, <1>5, StaticCost DEF IInv, Determined, Repeating
<1>8. /\ world \in Worlds /\ config.mode \in DOMAIN world.moves /\ current \in KernelsOf(world)
      /\ LegalMoves(current) = world.moves[config.mode][current] /\ round \in Nat
  BY AutotuneAssumption DEF IInv, Types, LegalMoves
<1>9. ~ Settled(world, config.mode, current)
  <2>1. CostOf(world, current) \in Nat /\ CostOf(world, first[2]) \in Nat
    BY <1>5, <1>8, CostOfTypes
  <2>2. ~ CostOf(world, current) <= CostOf(world, first[2])
    BY <1>1, <1>7, <2>1
  <2> QED
    BY <1>6, <1>8, <2>2 DEF Settled
<1>10. PICK i \in DOMAIN LegalMoves(current) :
         Leads(world, LegalMoves(current), i) /\ candidates[1] = LegalMoves(current)[i]
  BY <1>1, <1>9 DEF Repeating, RoundKnown
<1>11. Follows(world, config.mode, current, current')
  BY <1>1, <1>4, <1>7, <1>8, <1>10 DEF Follows
<1>12. KernelAfter(round, current)
  BY <1>1 DEF Repeating
<1>13. Reached(world, config.mode, round + 1, current')
  BY <1>1, <1>5, <1>8, <1>11, <1>12, FollowsReached DEF KernelAfter
<1>14. KernelAfter(round, current)'
  BY <1>1, <1>13 DEF KernelAfter
<1> QED
  BY <1>1, <1>2, <1>7, <1>14 DEF Repeating, KernelAfter

\* An attempt ends where all its rounds would.
LEMMA EndRoundsRepeats == IInv /\ Repeating /\ EndRounds => Repeating'
<1> SUFFICES ASSUME IInv, Repeating, EndRounds, Determined
             PROVE  Repeating'
  BY RequestFixed DEF Repeating, Next
<1>1. /\ pc' = "Close" /\ pc \in {"Examine", "Round"}
      /\ UNCHANGED <<world, config, cost_before, restart, best_cost, current, current_cost,
                     round>>
  BY DEF EndRounds, request, result, attempt
<1>2. Start' = Start
  BY <1>1 DEF Start
<1>3. config.max_rounds \in Nat /\ round \in Nat /\ round <= config.max_rounds
  BY <1>1, RequestTypes DEF IInv, InStep, Types
<1>4. KernelAfter(round, current)
  BY <1>1 DEF Repeating
<1>5. CASE pc = "Round" /\ ~ RoundsLeft
  <2>1. round = config.max_rounds
    BY <1>3, <1>5 DEF RoundsLeft
  <2>2. KernelAfter(config.max_rounds, current)'
    BY <1>1, <1>4, <2>1 DEF KernelAfter
  <2> QED
    BY <1>1, <1>2, <2>2 DEF Repeating, KernelAfter
<1>6. CASE pc = "Examine" /\ candidates = << >>
  <2>1. Settled(world, config.mode, current)
    BY <1>6 DEF Repeating, RoundKnown
  <2>2. KernelAfter(config.max_rounds, current)
    BY <1>3, <1>4, <2>1, SettledReached DEF KernelAfter, IInv, Types
  <2>3. KernelAfter(config.max_rounds, current)'
    BY <1>1, <2>2 DEF KernelAfter
  <2> QED
    BY <1>1, <1>2, <2>3 DEF Repeating, KernelAfter
<1> QED
  BY <1>5, <1>6 DEF EndRounds

\* Once an attempt has ended, no other does better,
LEMMA BestStays ==
  ASSUME IInv, Repeating, Determined, pc = "Close", restart > 0
  PROVE  ~ current_cost < best_cost
<1>1. PICK k \in KernelsOf(world) : /\ KernelAfter(config.max_rounds, k)
                                    /\ best_cost <= CostOf(world, k)
  BY DEF Repeating
<1>2. KernelAfter(config.max_rounds, current) /\ current_cost = CostOf(world, current)
  BY DEF Repeating
<1>3. /\ world \in Worlds /\ config.mode \in DOMAIN world.moves
      /\ config.max_rounds \in Nat /\ best_cost \in Nat /\ current_cost \in Nat
  BY AutotuneAssumption DEF IInv, Types
<1>4. k = current
  BY <1>1, <1>2, <1>3, OneReached DEF KernelAfter
<1> QED
  BY <1>1, <1>2, <1>3, <1>4

\* and the best is as good as the attempt that ends.
LEMMA CloseAttemptRepeats == IInv /\ Repeating /\ CloseAttempt => Repeating'
<1> SUFFICES ASSUME IInv, Repeating, CloseAttempt, Determined
             PROVE  Repeating'
  BY RequestFixed DEF Repeating, Next
<1>1. /\ pc = "Close" /\ pc' = "Attempt"
      /\ UNCHANGED <<world, config, cost_before>>
  BY DEF CloseAttempt, request
<1>2. Start' = Start
  BY <1>1 DEF Start
<1>3. KernelAfter(config.max_rounds, current) /\ current_cost = CostOf(world, current)
  BY <1>1 DEF Repeating
<1>4. best_cost' <= current_cost
  BY DEF CloseAttempt, KeepBest, result, IInv, Types
<1>5. \E k \in KernelsOf(world) : /\ KernelAfter(config.max_rounds, k)
                                  /\ best_cost' <= CostOf(world, k)
  BY <1>3, <1>4 DEF IInv, Types
<1> QED
  BY <1>1, <1>2, <1>5 DEF Repeating, KernelAfter

\* Every step leaves what is known of the attempts true.
LEMMA StepRepeating == IInv /\ Recipes /\ Repeating /\ [Next]_vars => Repeating'
<1> SUFFICES ASSUME IInv, Recipes, Repeating, [Next]_vars
             PROVE  Repeating'
  OBVIOUS
<1>1. CASE Reject
  <2> SUFFICES ASSUME Determined
               PROVE  FALSE
    BY RequestFixed DEF Repeating
  <2>1. PICK draws \in Trials : ~ Validates(Start, Head(candidates)[2], draws)
    BY <1>1 DEF Reject
  <2>2. candidates # << >>
    BY <1>1 DEF Reject, ExamineNext
  <2>3. Head(candidates) \in Moves \X KernelsOf(world)
    BY <2>2, HeadTailProperties DEF IInv, Types
  <2>4. Head(candidates)[2] \in KernelsOf(world)
    BY <2>3
  <2> QED
    BY <2>1, <2>4, GateAccepts DEF Determined
<1>2. CASE Return
  <2>1. /\ pc = "Attempt" /\ pc' = "Returned"
        /\ UNCHANGED <<world, config, cost_before, restart, best_cost, Start>>
    BY <1>2, RequestFixed DEF Return, request, result
  <2> QED
    BY <2>1, RequestFixed DEF Repeating, KernelAfter
<1>3. CASE SortPanics
  <2>1. /\ pc = "Round" /\ pc' = "Panicked"
        /\ UNCHANGED <<world, config, cost_before, restart, best_cost, Start>>
    BY <1>3, RequestFixed DEF SortPanics, request, result
  <2> QED
    BY <2>1, RequestFixed DEF Repeating, KernelAfter
<1>4. CASE UNCHANGED vars
  <2>1. UNCHANGED <<world, config, pc, cost_before, restart, best_cost, Start, current,
                    current_cost, round, candidates>>
    BY <1>4, RequestFixed DEF vars, request, result, attempt
  <2> QED
    BY <2>1, RequestFixed DEF Repeating, KernelAfter, RoundKnown, LegalMoves
<1> QED
  BY <1>1, <1>2, <1>3, <1>4, CostStartRepeats, BeginAttemptRepeats, BeginRoundRepeats, SkipRepeats,
     AdoptRepeats, EndRoundsRepeats, CloseAttemptRepeats DEF Next

\* Only the end of an attempt changes the result, and after the first none does.
LEMMA ResultStays ==
  IInv /\ Repeating /\ [Next]_vars =>
    [CostIsStatic /\ AllEquivalent /\ restart > 0 => UNCHANGED result]_vars
<1> SUFFICES ASSUME IInv, Repeating, [Next]_vars, CostIsStatic, AllEquivalent, restart > 0
             PROVE  UNCHANGED result
  OBVIOUS
<1>1. CASE CloseAttempt
  <2>1. ~ current_cost < best_cost
    BY <1>1, BestStays DEF CloseAttempt, Determined
  <2> QED
    BY <1>1, <2>1 DEF CloseAttempt, KeepBest
<1>2. CASE CostStart
  BY <1>2 DEF CostStart, Repeating, Determined
<1> QED
  BY <1>1, <1>2 DEF Next, vars, BeginAttempt, BeginRound, SortPanics, ExamineNext, Skip, Reject,
                    Adopt, EndRounds, Return

\* When costs are static and moves change no meaning, each restart goes the way of the
\* first attempt: the sort has one result, so the round after a kernel has one, so has
\* the attempt, and a result that is no cheaper is not kept.
THEOREM RestartsRepeat == Spec => RestartsOnlyRepeat
<1>1. Spec => []Recipes
  BY InitRecipes, StepRecipes, AlwaysIInv, PTL DEF Spec
<1>2. Spec => []Repeating
  BY <1>1, InitRepeating, StepRepeating, AlwaysIInv, PTL DEF Spec
<1> QED
  BY <1>2, ResultStays, AlwaysIInv, PTL DEF Spec, RestartsOnlyRepeat

-----------------------------------------------------------------------------
(* Refinement.                                                              *)

\* The gate on its own: some draws do not tell the two kernels apart.
PassesGate(asked, original, kernel) ==
  \E draws \in [1 .. asked.config.validation_trials -> Inputs \X Inputs] :
     \A t \in DOMAIN draws :
        /\ Agree(asked.world.rational, original, kernel, draws[t][1])
        /\ asked.config.mode = "Strict" =>
              Agree(asked.world.bits, original, kernel, draws[t][2])

Gated ==
  INSTANCE SoundOptimizer
    WITH Programs <- UNION {KernelsOf(w) : w \in Worlds},
         Requests <- [world : Worlds, config : Configs],
         Preserves <- PassesGate,
         request <- [world |-> world, config |-> config],
         original <- Start, program <- best, done <- Returned

\* The tuner starts where the gated optimizer starts.
LEMMA InitRefines == Init => Gated!Init
<1> SUFFICES ASSUME Init
             PROVE  Gated!Init
  OBVIOUS
<1>1. world \in Worlds /\ config \in Configs /\ Start \in KernelsOf(world)
  BY AutotuneAssumption DEF Init, Start
<1>2. Start \in UNION {KernelsOf(w) : w \in Worlds}
  BY <1>1
<1> QED
  BY <1>1, <1>2 DEF Init, Gated!Init, Returned

\* Only the end of an attempt replaces the best kernel, by one that was gated.
LEMMA StepRefines == IInv /\ [Next]_vars => [Gated!Next]_Gated!vars
<1> SUFFICES ASSUME IInv, [Next]_vars
             PROVE  [Gated!Next]_Gated!vars
  OBVIOUS
<1>1. UNCHANGED request
  BY DEF Next, vars, CostStart, BeginAttempt, BeginRound, ExamineNext, Skip, Reject,
         SortPanics, Adopt, EndRounds, CloseAttempt, Return
<1>2. UNCHANGED <<world, config, Start>>
  BY <1>1 DEF request, Start
<1>3. [world |-> world, config |-> config]' = [world |-> world, config |-> config]
  BY <1>2
<1>4. CASE CloseAttempt /\ best' # best
  <2>1. best' = current /\ current_cost < best_cost /\ pc = "Close"
    BY <1>4 DEF CloseAttempt, KeepBest, result
  <2>2. GatePassed(current)
    BY <2>1 DEF IInv, InStep, Improved, Types
  <2>3. PassesGate([world |-> world, config |-> config], Start, best')
    BY <2>1, <2>2 DEF GatePassed, PassesGate, Validates, Trials
  <2>4. ~ Returned /\ ~ Returned'
    BY <1>4 DEF CloseAttempt, Returned
  <2>5. Returned' = Returned
    BY <2>4, Zenon DEF Returned
  <2>6. Gated!Replace
    BY <1>2, <1>3, <2>3, <2>4, <2>5, Zenon DEF Gated!Replace
  <2> QED
    BY <2>6 DEF Gated!Next
<1>5. CASE Return
  <2>1. ~ Returned /\ Returned' /\ best' = best
    BY <1>5 DEF Return, Returned, result
  <2>2. Gated!Finish
    BY <1>2, <1>3, <2>1, Zenon DEF Gated!Finish
  <2> QED
    BY <2>2 DEF Gated!Next
<1>6. CASE ~ Return /\ ~ (CloseAttempt /\ best' # best)
  <2>1. best' = best
    BY <1>6 DEF Next, vars, result, CostStart, BeginAttempt, BeginRound, ExamineNext,
                SortPanics, Skip, Reject, Adopt, EndRounds
  <2>2. Returned' <=> Returned
    BY <1>6 DEF Next, vars, Returned, CostStart, BeginAttempt, BeginRound, ExamineNext,
                SortPanics, Skip, Reject, Adopt, EndRounds, CloseAttempt
  <2>3. Returned' = Returned
    BY <2>2, Zenon DEF Returned
  <2>4. UNCHANGED Gated!vars
    BY <1>2, <1>3, <2>1, <2>3, Zenon DEF Gated!vars
  <2> QED
    BY <2>4
<1> QED
  BY <1>4, <1>5, <1>6

\* The tuner is an optimizer whose kernels have each passed the gate against the
\* lowered kernel, and which keeps what it has returned: what the gate promises
\* for one comparison holds of the whole search.
THEOREM TunerImplementsGatedOptimizer == Spec => Gated!Spec
<1>1. IInv /\ [Next]_vars => [Gated!Next]_Gated!vars
  BY StepRefines
<1> QED
  BY <1>1, InitRefines, AlwaysIInv, PTL DEF Spec, Gated!Spec

=============================================================================
