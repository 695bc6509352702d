---------------------------- MODULE Schedule_proofs ----------------------------
(***************************************************************************)
(* Every kernel that lowering and the moves make is closed, for every      *)
(* graph, every tile size and every sequence of legal moves, whether loop  *)
(* variables run out or not: its indices depend on the loops around them   *)
(* only, the loops of a nest have variables of their own, and every        *)
(* coefficient fits.  As long as no buffer is beyond what can be           *)
(* allocated, every index stays within its buffer, and the iterations of a *)
(* loop that the emitter may run in parallel touch no element in common    *)
(* that either of them writes.                                             *)
(***************************************************************************)
EXTENDS Schedule, CommonLemmas

IndexWithin(e, V) ==
  DOMAIN e \subseteq V /\ \A v \in DOMAIN e : e[v] \in 1 .. MaxI64

AssignWithin(assign, V) ==
  /\ IndexWithin(assign.target.index, V)
  /\ \A l \in DOMAIN assign.loads : IndexWithin(assign.loads[l].index, V)

BodyWithin(body, V) ==
  IsList(body) /\ \A k \in DOMAIN body : AssignWithin(body[k], V)

LevelsApart(levels) ==
  /\ IsList(levels)
  /\ \A l \in DOMAIN levels : levels[l].var \in 0 .. MaxLoopVar
  /\ \A l, m \in DOMAIN levels : levels[l].var = levels[m].var => l = m

Closed(nest) ==
  LevelsApart(nest.levels) /\ BodyWithin(nest.body, LevelVars(nest))

AllClosed(body) == IsList(body) /\ \A n \in DOMAIN body : Closed(body[n])

\* The inductive invariant.
IInv ==
  /\ kernel = [field \in DOMAIN kernel |-> kernel[field]]
  /\ "body" \in DOMAIN kernel
  /\ AllClosed(kernel.body)

-----------------------------------------------------------------------------
(* Affine expressions.                                                      *)
LEMMA SaturateFits ==
  ASSUME NEW x \in Nat
  PROVE  Saturate(x) \in 0 .. MaxI64
BY LoopAssumption DEF Saturate

\* Products of numbers are numbers.
LEMMA ProductIsNat ==
  ASSUME NEW a \in Nat, NEW b \in Nat
  PROVE  a * b \in Nat
OBVIOUS

\* An affine index is over the variables it has coefficients of.
LEMMA AffineWithin ==
  ASSUME NEW f, NEW V, DOMAIN f \subseteq V, \A v \in DOMAIN f : f[v] \in 0 .. MaxI64
  PROVE  IndexWithin(Affine(f), V)
BY LoopAssumption DEF Affine, IndexWithin

\* Substituting for a variable leaves the others and those of the replacement,
LEMMA SubstituteWithin ==
  ASSUME NEW e, NEW V, IndexWithin(e, V), NEW var, NEW r,
         \A v \in DOMAIN r : r[v] \in Nat
  PROVE  IndexWithin(Substitute(e, var, r), (V \ {var}) \cup DOMAIN r)
<1> DEFINE f == [v \in (DOMAIN e \ {var}) \cup DOMAIN r |->
                   Saturate((IF v = var THEN 0 ELSE Coefficient(e, v))
                              + Saturate(Coefficient(e, var) * Coefficient(r, v)))]
<1>1. \A v : Coefficient(e, v) \in Nat /\ Coefficient(r, v) \in Nat
  BY LoopAssumption DEF Coefficient, IndexWithin
<1>2. ASSUME NEW v
      PROVE  Saturate((IF v = var THEN 0 ELSE Coefficient(e, v))
                        + Saturate(Coefficient(e, var) * Coefficient(r, v)))
               \in 0 .. MaxI64
  <2>1. Coefficient(e, var) * Coefficient(r, v) \in Nat
    BY <1>1, ProductIsNat
  <2>2. Saturate(Coefficient(e, var) * Coefficient(r, v)) \in Nat
    BY <2>1, SaturateFits, LoopAssumption
  <2>3. (IF v = var THEN 0 ELSE Coefficient(e, v)) \in Nat
    BY <1>1
  <2> QED
    BY <2>2, <2>3, SaturateFits
<1>3. /\ DOMAIN f \subseteq (V \ {var}) \cup DOMAIN r
      /\ \A v \in DOMAIN f : f[v] \in 0 .. MaxI64
  BY <1>2 DEF IndexWithin
<1> HIDE DEF f
<1>4. IndexWithin(Affine(f), (V \ {var}) \cup DOMAIN r)
  BY <1>3, AffineWithin
<1> QED
  BY <1>4 DEF Substitute, f

\* in a whole body too.
LEMMA SubstituteBodyWithin ==
  ASSUME NEW body, NEW V, BodyWithin(body, V), NEW var, NEW r,
         \A v \in DOMAIN r : r[v] \in Nat
  PROVE  BodyWithin(SubstituteBody(body, var, r), (V \ {var}) \cup DOMAIN r)
<1> DEFINE W == (V \ {var}) \cup DOMAIN r
           b == SubstituteBody(body, var, r)
<1>1. Len(body) \in Nat /\ DOMAIN body = 1 .. Len(body)
  BY Lists DEF BodyWithin
<1>2. b = [k \in 1 .. Len(body) |->
             Assign(SubstituteRef(body[k].target, var, r), body[k].op,
                    [l \in DOMAIN body[k].loads |->
                       SubstituteRef(body[k].loads[l], var, r)])]
  BY <1>1 DEF SubstituteBody
<1>3. IsList(b)
  BY <1>1, <1>2 DEF IsList
<1>4. ASSUME NEW k \in DOMAIN b
      PROVE  AssignWithin(b[k], W)
  <2>1. k \in DOMAIN body /\ AssignWithin(body[k], V)
    BY <1>1, <1>2 DEF BodyWithin
  <2>2. /\ b[k].target.index = Substitute(body[k].target.index, var, r)
        /\ DOMAIN b[k].loads = DOMAIN body[k].loads
        /\ \A l \in DOMAIN body[k].loads :
              b[k].loads[l].index = Substitute(body[k].loads[l].index, var, r)
    BY <1>1, <1>2, <2>1 DEF Assign, SubstituteRef, Ref
  <2>3. IndexWithin(b[k].target.index, W)
    BY <2>1, <2>2, SubstituteWithin DEF AssignWithin
  <2>4. ASSUME NEW l \in DOMAIN b[k].loads
        PROVE  IndexWithin(b[k].loads[l].index, W)
    BY <2>1, <2>2, <2>4, SubstituteWithin DEF AssignWithin
  <2> QED
    BY <2>3, <2>4 DEF AssignWithin
<1> QED
  BY <1>3, <1>4 DEF BodyWithin

\* What a closed nest reads and writes is indexed by its own variables.
LEMMA ClosedIndices ==
  ASSUME NEW nest, Closed(nest)
  PROVE  \A ref \in Reads(nest.body) \cup Writes(nest.body) :
            IndexWithin(ref.index, LevelVars(nest))
<1> SUFFICES ASSUME NEW ref \in Reads(nest.body) \cup Writes(nest.body)
             PROVE  IndexWithin(ref.index, LevelVars(nest))
  OBVIOUS
<1>1. \A m \in DOMAIN nest.body : AssignWithin(nest.body[m], LevelVars(nest))
  BY DEF Closed, BodyWithin
<1>2. CASE ref \in Writes(nest.body)
  BY <1>1, <1>2 DEF Writes, AssignWithin
<1>3. CASE ref \in Reads(nest.body)
  <2>1. PICK m \in DOMAIN nest.body : ref \in Range(nest.body[m].loads)
    BY <1>3 DEF Reads
  <2>2. PICK l \in DOMAIN nest.body[m].loads : ref = nest.body[m].loads[l]
    BY <2>1 DEF Range
  <2> QED
    BY <1>1, <2>1, <2>2 DEF AssignWithin
<1> QED
  BY <1>2, <1>3

-----------------------------------------------------------------------------
(* Fresh variables: the first one lies beyond the last one in use, unless   *)
(* the ids are used up.                                                     *)
LEMMA VarsInUse ==
  ASSUME NEW k, AllClosed(k.body)
  PROVE  /\ UsedVars(k) \in SUBSET (0 .. MaxLoopVar)
         /\ \A n \in DOMAIN k.body : LevelVars(k.body[n]) \subseteq UsedVars(k)
<1>1. ASSUME NEW n \in DOMAIN k.body
      PROVE  /\ StmtVars(k.body[n]) \subseteq 0 .. MaxLoopVar
             /\ LevelVars(k.body[n]) \subseteq StmtVars(k.body[n])
  <2> DEFINE nest == k.body[n]
  <2>1. Closed(nest)
    BY DEF AllClosed
  <2>2. LevelVars(nest) \subseteq 0 .. MaxLoopVar
    BY <2>1 DEF Closed, LevelsApart, LevelVars
  <2>3. \A ref \in Reads(nest.body) \cup Writes(nest.body) :
           DOMAIN ref.index \subseteq LevelVars(nest)
    BY <2>1, ClosedIndices DEF IndexWithin
  <2> QED
    BY <2>2, <2>3 DEF StmtVars
<1>2. ASSUME NEW v \in UsedVars(k)
      PROVE  v \in 0 .. MaxLoopVar
  <2>1. PICK n \in DOMAIN k.body : v \in StmtVars(k.body[n])
    BY DEF UsedVars, Range
  <2> QED
    BY <1>1, <2>1
<1>3. ASSUME NEW n \in DOMAIN k.body
      PROVE  LevelVars(k.body[n]) \subseteq UsedVars(k)
  BY <1>1 DEF UsedVars, Range
<1> QED
  BY <1>2, <1>3

\* A fresh variable is above every variable in use.
LEMMA FirstFreshIsFresh ==
  ASSUME NEW k, AllClosed(k.body)
  PROVE  /\ FirstFresh(k) \in 0 .. MaxLoopVar
         /\ FirstFresh(k) < MaxLoopVar =>
              \A v \in UsedVars(k) : v < FirstFresh(k)
<1>1. UsedVars(k) \in SUBSET (0 .. MaxLoopVar)
  BY VarsInUse
<1>2. MaxLoopVar \in Nat
  BY LoopAssumption
<1>3. CASE UsedVars(k) = {}
  BY <1>2, <1>3 DEF FirstFresh
<1>4. CASE UsedVars(k) # {}
  <2> DEFINE last == Max(UsedVars(k))
  <2>1. \E x \in UsedVars(k) : \A y \in UsedVars(k) : x >= y
    BY <1>1, <1>2, <1>4, BoundedHasMax
  <2>2. last \in UsedVars(k) /\ \A y \in UsedVars(k) : last >= y
    BY <2>1, Zenon DEF Max
  <2>3. FirstFresh(k) = IF last >= MaxLoopVar THEN MaxLoopVar ELSE last + 1
    BY <1>4 DEF FirstFresh
  <2> HIDE DEF last
  <2>4. last \in 0 .. MaxLoopVar
    BY <1>1, <2>2
  <2>5. \A v \in UsedVars(k) : v \in Nat
    BY <1>1
  <2> QED
    BY <1>2, <2>2, <2>3, <2>4, <2>5
<1> QED
  BY <1>3, <1>4

-----------------------------------------------------------------------------
(* The moves, each on a nest.                                               *)
LEMMA SwappedClosed ==
  ASSUME NEW stmt, Closed(stmt), NEW level,
         {level, level + 1} \subseteq DOMAIN stmt.levels
  PROVE  Closed(Swapped(stmt, level))
<1> DEFINE lv == stmt.levels
           at(l) == CASE l = level     -> level + 1
                      [] l = level + 1 -> level
                      [] OTHER         -> l
           s == Swapped(stmt, level)
<1>1. IsList(lv) /\ Len(lv) \in Nat /\ DOMAIN lv = 1 .. Len(lv)
  BY Lists DEF Closed, LevelsApart
<1>2. level \in 1 .. Len(lv) /\ level + 1 \in 1 .. Len(lv)
  BY <1>1
<1>3. /\ \A l \in 1 .. Len(lv) : at(l) \in 1 .. Len(lv) /\ at(at(l)) = l
      /\ \A l, m \in 1 .. Len(lv) : at(l) = at(m) => l = m
  BY <1>1, <1>2
<1>4. s.levels = [l \in 1 .. Len(lv) |-> lv[at(l)]] /\ s.body = stmt.body
  BY <1>1 DEF Swapped, Nest
<1> HIDE DEF at, s
<1>5. LevelsApart(s.levels)
  BY <1>1, <1>3, <1>4 DEF LevelsApart, IsList, Closed
<1>6. LevelVars(s) = LevelVars(stmt)
  BY <1>1, <1>3, <1>4, SMTT(30) DEF LevelVars
<1> QED
  BY <1>4, <1>5, <1>6 DEF Closed, s

\* Strip-mining a closed nest with a fresh variable.
LEMMA StripMinedClosed ==
  ASSUME NEW stmt, Closed(stmt), NEW level \in DOMAIN stmt.levels, NEW size \in Nat,
         NEW first \in Nat, first + 1 <= MaxLoopVar,
         \A v \in LevelVars(stmt) : v < first
  PROVE  Closed(StripMined(stmt, level, size, first))
<1> DEFINE lv == stmt.levels
           n  == Len(lv)
           s  == StripMined(stmt, level, size, first)
           before == SubSeq(lv, 1, level - 1)
           both   == <<Level(first, lv[level].extent \div size), Level(first + 1, size)>>
           behind == SubSeq(lv, level + 1, n)
           new(l) == IF l < level THEN lv[l].var
                     ELSE IF l = level THEN first
                     ELSE IF l = level + 1 THEN first + 1 ELSE lv[l - 1].var
           r == TwoTerms(first, size, first + 1, 1)
           var == lv[level].var
<1>1. IsList(lv) /\ n \in Nat /\ DOMAIN lv = 1 .. n
  BY Lists DEF Closed, LevelsApart
<1>2. level \in 1 .. n /\ MaxLoopVar \in Nat
  BY <1>1, LoopAssumption
<1>3. /\ s.levels = (before \o both) \o behind
      /\ s.body = SubstituteBody(stmt.body, var, r)
  BY DEF StripMined, Nest
<1>4. /\ \A l \in 1 .. n : lv[l].var \in 0 .. MaxLoopVar /\ lv[l].var < first
      /\ \A l, m \in 1 .. n : lv[l].var = lv[m].var => l = m
  BY <1>1 DEF Closed, LevelsApart, LevelVars
<1>5. /\ IsList(s.levels) /\ Len(s.levels) = n + 1
      /\ \A l \in 1 .. (n + 1) : s.levels[l].var = new(l)
  <2>1. /\ IsList(before) /\ Len(before) = level - 1
        /\ \A l \in 1 .. (level - 1) : before[l] = lv[l]
    <3>1. 1 \in 1 .. n + 1 /\ level - 1 \in (1 - 1) .. n
      BY <1>1, <1>2
    <3>2. /\ IsList(before)
          /\ Len(before) = (level - 1) - 1 + 1
          /\ \A l \in 1 .. (level - 1) - 1 + 1 : before[l] = lv[1 + l - 1]
      BY <1>1, <3>1, SubList
    <3> HIDE DEF before
    <3> QED
      BY <1>2, <3>2
  <2>2. /\ IsList(behind) /\ Len(behind) = n - level
        /\ \A l \in 1 .. (n - level) : behind[l] = lv[level + l]
    <3>1. level + 1 \in 1 .. n + 1 /\ n \in ((level + 1) - 1) .. n
      BY <1>1, <1>2
    <3>2. /\ IsList(behind)
          /\ Len(behind) = n - (level + 1) + 1
          /\ \A l \in 1 .. n - (level + 1) + 1 : behind[l] = lv[(level + 1) + l - 1]
      BY <1>1, <3>1, SubList
    <3> HIDE DEF behind
    <3> QED
      BY <1>1, <1>2, <3>2
  <2>3. /\ IsList(both) /\ Len(both) = 2
        /\ both[1].var = first /\ both[2].var = first + 1
    <3>1. both = [l \in 1 .. 2 |-> both[l]]
      OBVIOUS
    <3>2. IsList(both)
      BY <3>1 DEF IsList
    <3> QED
      BY <3>2 DEF Level
  <2> HIDE DEF before, both, behind
  <2> DEFINE front == before \o both
  <2>4. /\ IsList(front) /\ Len(front) = level + 1
        /\ \A l \in 1 .. (level - 1) : front[l] = lv[l]
        /\ front[level] = both[1] /\ front[level + 1] = both[2]
    <3>0. IsList(before) /\ IsList(both)
      BY <2>1, <2>3
    <3>1. /\ IsList(front) /\ Len(front) = Len(before) + Len(both)
          /\ \A l \in 1 .. Len(before) : front[l] = before[l]
          /\ \A l \in 1 .. Len(both) : front[Len(before) + l] = both[l]
      BY <3>0, ConcatLists
    <3>2. /\ front[(level - 1) + 1] = both[1]
          /\ front[(level - 1) + 2] = both[2]
      BY <2>1, <2>3, <3>1
    <3>3. (level - 1) + 1 = level /\ (level - 1) + 2 = level + 1
      BY <1>2
    <3> HIDE DEF front
    <3> QED
      BY <1>2, <2>1, <2>3, <3>1, <3>2, <3>3
  <2> HIDE DEF front
  <2> DEFINE whole == front \o behind
  <2>5. /\ IsList(whole) /\ Len(whole) = Len(front) + Len(behind)
        /\ \A l \in 1 .. Len(front) : whole[l] = front[l]
        /\ \A l \in 1 .. Len(behind) : whole[Len(front) + l] = behind[l]
    <3>0. IsList(front) /\ IsList(behind)
      BY <2>2, <2>4
    <3> QED
      BY <3>0, ConcatLists
  <2> HIDE DEF whole
  <2>6. ASSUME NEW l \in 1 .. (n + 1)
        PROVE  whole[l].var = new(l)
    <3>1. CASE l <= level + 1
      <4>1. whole[l] = front[l]
        BY <1>2, <2>4, <2>5, <3>1
      <4>2. l < level \/ l = level \/ l = level + 1
        BY <1>2, <3>1
      <4>3. CASE l < level
        <5>1. l \in 1 .. (level - 1) /\ new(l) = lv[l].var
          BY <1>2, <4>3
        <5>2. front[l] = lv[l]
          BY <2>4, <5>1
        <5> HIDE DEF new, lv
        <5> QED
          BY <4>1, <5>1, <5>2
      <4>4. CASE l = level
        <5>1. new(l) = first
          BY <4>4
        <5> HIDE DEF new
        <5> QED
          BY <2>3, <2>4, <4>1, <4>4, <5>1
      <4>5. CASE l = level + 1
        <5>1. new(l) = first + 1
          BY <1>2, <4>5
        <5> HIDE DEF new
        <5> QED
          BY <2>3, <2>4, <4>1, <4>5, <5>1
      <4> HIDE DEF new
      <4> QED
        BY <4>2, <4>3, <4>4, <4>5
    <3>2. CASE l > level + 1
      <4>1. l - (level + 1) \in 1 .. (n - level) /\ (level + 1) + (l - (level + 1)) = l
        BY <1>1, <1>2, <3>2
      <4>2. whole[(level + 1) + (l - (level + 1))] = behind[l - (level + 1)]
        BY <2>2, <2>4, <2>5, <4>1
      <4>3. behind[l - (level + 1)] = lv[l - 1]
        BY <1>1, <1>2, <2>2, <4>1, SMTT(30)
      <4>4. whole[l] = lv[l - 1]
        BY <4>1, <4>2, <4>3
      <4>5. new(l) = lv[l - 1].var
        BY <1>2, <3>2
      <4> QED
        BY <4>4, <4>5
    <3> QED
      BY <1>1, <1>2, <3>1, <3>2
  <2>7. s.levels = whole
    BY <1>3 DEF whole, front
  <2> QED
    BY <1>1, <1>2, <2>2, <2>4, <2>5, <2>6, <2>7
<1> HIDE DEF before, both, behind
<1>6. DOMAIN s.levels = 1 .. (n + 1)
  BY <1>5, Lists
<1>7. LevelsApart(s.levels)
  <2>1. \A l \in 1 .. (n + 1) : new(l) \in 0 .. MaxLoopVar
    BY <1>1, <1>2, <1>4, SMTT(30)
  <2>2. \A l, m \in 1 .. (n + 1) : new(l) = new(m) => l = m
    <3> DEFINE old(l) == IF l < level THEN l ELSE l - 1
               kept == (1 .. (n + 1)) \ {level, level + 1}
    <3>1. \A l \in kept : /\ old(l) \in 1 .. n /\ new(l) = lv[old(l)].var
                          /\ \A m \in kept : old(l) = old(m) => l = m
      BY <1>1, <1>2
    <3>2. \A l \in kept : new(l) \in Nat /\ new(l) < first
      BY <1>4, <3>1
    <3>3. \A l, m \in kept : new(l) = new(m) => l = m
      BY <1>4, <3>1
    <3>4. new(level) = first /\ new(level + 1) = first + 1
      BY <1>2
    <3>5. \A l \in 1 .. (n + 1) : l \in kept \/ l = level \/ l = level + 1
      OBVIOUS
    <3> HIDE DEF new, kept
    <3> QED
      BY <3>2, <3>3, <3>4, <3>5
  <2> HIDE DEF new, s, lv, n
  <2>3. \A l \in DOMAIN s.levels : l \in 1 .. (n + 1) /\ s.levels[l].var = new(l)
    BY <1>5, <1>6
  <2> QED
    BY <1>5, <2>1, <2>2, <2>3 DEF LevelsApart
<1>8. BodyWithin(s.body, LevelVars(s))
  <2> DEFINE V == LevelVars(stmt)
  <2>1. DOMAIN r = {first, first + 1} /\ \A v \in DOMAIN r : r[v] \in Nat
    BY DEF TwoTerms
  <2> HIDE DEF r
  <2>2. BodyWithin(s.body, (V \ {var}) \cup DOMAIN r)
    <3>1. BodyWithin(stmt.body, V)
      BY DEF Closed
    <3> HIDE DEF V, var, s
    <3>2. BodyWithin(SubstituteBody(stmt.body, var, r), (V \ {var}) \cup DOMAIN r)
      BY <2>1, <3>1, SubstituteBodyWithin
    <3> QED
      BY <1>3, <3>2
  <2>3. (V \ {var}) \cup {first, first + 1} \subseteq LevelVars(s)
    <3>1. ASSUME NEW v \in V \ {var}
          PROVE  v \in LevelVars(s)
      <4>1. PICK l \in 1 .. n : v = lv[l].var /\ l # level
        BY <1>1 DEF LevelVars
      <4>2. CASE l < level
        <5>1. l \in 1 .. (n + 1) /\ new(l) = lv[l].var
          BY <1>1, <1>2, <4>1, <4>2
        <5> QED
          BY <1>5, <1>6, <4>1, <5>1 DEF LevelVars
      <4>3. CASE l > level
        <5>1. l + 1 \in 1 .. (n + 1) /\ new(l + 1) = lv[l].var
          BY <1>1, <1>2, <4>1, <4>3
        <5> QED
          BY <1>5, <1>6, <4>1, <5>1 DEF LevelVars
      <4> QED
        BY <1>2, <4>1, <4>2, <4>3
    <3>2. /\ level \in 1 .. (n + 1) /\ level + 1 \in 1 .. (n + 1)
          /\ new(level) = first /\ new(level + 1) = first + 1
      BY <1>1, <1>2
    <3> QED
      BY <1>5, <1>6, <3>1, <3>2, ZenonT(30) DEF LevelVars
  <2> QED
    BY <2>1, <2>2, <2>3 DEF BodyWithin, AssignWithin, IndexWithin
<1> QED
  BY <1>7, <1>8 DEF Closed

\* The body over n shared variables, by what it is over n - 1 of them.
LEMMA SubstitutionsDef ==
  ASSUME NEW stmt, NEW first, Len(stmt.levels) \in Nat
  PROVE  Substitutions(stmt, first) =
           [n \in 0 .. Len(stmt.levels) |->
              IF n = 0 THEN stmt.body
              ELSE SubstituteBody(Substitutions(stmt, first)[n - 1],
                                  stmt.levels[n].var, Term(first + n - 1, 1))]
<1> DEFINE N == Len(stmt.levels)
           Next1(n, b) == SubstituteBody(b, stmt.levels[n].var, Term(first + n - 1, 1))
           Upto(m, g) == g = [n \in 0 .. m |-> IF n = 0 THEN stmt.body ELSE Next1(n, g[n - 1])]
           S == {m \in Nat : \E g : Upto(m, g)}
<1>1. Substitutions(stmt, first) = CHOOSE g : Upto(N, g)
  BY DEF Substitutions
<1> HIDE DEF Next1
<1>2. 0 \in S
  <2> DEFINE g == [n \in 0 .. 0 |-> stmt.body]
  <2>1. Upto(0, g)
    OBVIOUS
  <2> QED
    BY <2>1
<1>3. ASSUME NEW m \in Nat, m \in S
      PROVE  m + 1 \in S
  <2>1. PICK g : Upto(m, g)
    BY <1>3
  <2> DEFINE h == [n \in 0 .. (m + 1) |-> IF n = m + 1 THEN Next1(n, g[m]) ELSE g[n]]
  <2>2. ASSUME NEW n \in 0 .. (m + 1)
        PROVE  h[n] = IF n = 0 THEN stmt.body ELSE Next1(n, h[n - 1])
    <3>1. CASE n = 0
      BY <2>1, <3>1
    <3>2. CASE n = m + 1
      BY <3>2
    <3>3. CASE n # 0 /\ n # m + 1
      <4>1. n \in 0 .. m /\ n - 1 \in 0 .. m
        BY <3>3
      <4>2. h[n] = g[n] /\ h[n - 1] = g[n - 1]
        BY <4>1, <3>3
      <4>3. g[n] = Next1(n, g[n - 1])
        BY <2>1, <4>1, <3>3
      <4> QED
        BY <4>2, <4>3, <3>3
    <3> QED
      BY <3>1, <3>2, <3>3
  <2>3. Upto(m + 1, h)
    <3> HIDE DEF h
    <3>1. h = [n \in 0 .. (m + 1) |-> h[n]]
      BY DEF h
    <3> QED
      BY <2>2, <3>1
  <2> HIDE DEF Upto, h
  <2> QED
    BY <2>3
<1>4. N \in S
  <2> HIDE DEF S
  <2> QED
    BY <1>2, <1>3, SetInduction
<1>5. Upto(N, Substitutions(stmt, first))
  BY <1>1, <1>4
<1> QED
  BY <1>5 DEF Next1

\* A nest rewritten over shared variables is over these only.
LEMMA OverSharedWithin ==
  ASSUME NEW stmt, Closed(stmt), NEW first \in Nat
  PROVE  BodyWithin(OverShared(stmt, first),
                    {first + l - 1 : l \in 1 .. Len(stmt.levels)})
<1> DEFINE lv == stmt.levels
           N == Len(lv)
           left(n) == {lv[l].var : l \in (n + 1) .. N} \cup {first + l - 1 : l \in 1 .. n}
           S == {n \in Nat : n <= N => BodyWithin(Substitutions(stmt, first)[n], left(n))}
<1>1. N \in Nat /\ DOMAIN lv = 1 .. N
  BY Lists DEF Closed, LevelsApart
<1>2. 0 \in S
  <2>1. Substitutions(stmt, first)[0] = stmt.body
    BY <1>1, SubstitutionsDef
  <2>2. LevelVars(stmt) = left(0)
    BY <1>1 DEF LevelVars
  <2> QED
    BY <2>1, <2>2 DEF Closed
<1>3. ASSUME NEW n \in Nat, n \in S
      PROVE  n + 1 \in S
  <2> SUFFICES ASSUME n + 1 <= N
               PROVE  BodyWithin(Substitutions(stmt, first)[n + 1], left(n + 1))
    BY <1>3
  <2> DEFINE var == lv[n + 1].var
             r == Term(first + n, 1)
             b == Substitutions(stmt, first)[n]
  <2>1. Substitutions(stmt, first)[n + 1] = SubstituteBody(b, var, r)
    <3>1. /\ n + 1 \in 0 .. N /\ n + 1 # 0
          /\ (n + 1) - 1 = n /\ first + (n + 1) - 1 = first + n
      BY <1>1
    <3> DEFINE f == Substitutions(stmt, first)
    <3>2. f = [k \in 0 .. N |->
                 IF k = 0 THEN stmt.body
                 ELSE SubstituteBody(f[k - 1], lv[k].var, Term(first + k - 1, 1))]
      BY <1>1, SubstitutionsDef
    <3> HIDE DEF f
    <3>3. f[n + 1] = SubstituteBody(f[(n + 1) - 1], lv[n + 1].var,
                                    Term(first + (n + 1) - 1, 1))
      BY <3>1, <3>2
    <3> QED
      BY <3>1, <3>3 DEF f
  <2>2. BodyWithin(b, left(n))
    BY <1>1, <1>3
  <2>3. DOMAIN r = {first + n} /\ \A v \in DOMAIN r : r[v] \in Nat
    BY DEF Term
  <2>4. (left(n) \ {var}) \cup DOMAIN r \subseteq left(n + 1)
    <3>1. ASSUME NEW v \in left(n) \ {var}
          PROVE  v \in left(n + 1)
      <4>1. CASE v \in {lv[l].var : l \in (n + 1) .. N}
        <5>1. PICK l \in (n + 1) .. N : v = lv[l].var
          BY <4>1
        <5>2. l # n + 1 /\ l \in (n + 2) .. N /\ n + 2 = (n + 1) + 1
          BY <5>1
        <5> QED
          BY <5>1, <5>2
      <4>2. CASE v \in {first + l - 1 : l \in 1 .. n}
        <5>1. PICK l \in 1 .. n : v = first + l - 1
          BY <4>2
        <5>2. l \in 1 .. (n + 1)
          BY <5>1
        <5> QED
          BY <5>1, <5>2
      <4> QED
        BY <3>1, <4>1, <4>2
    <3>2. first + n = first + (n + 1) - 1 /\ n + 1 \in 1 .. (n + 1)
      OBVIOUS
    <3> QED
      BY <2>3, <3>1, <3>2
  <2> HIDE DEF r, b, left, var
  <2>5. BodyWithin(SubstituteBody(b, var, r), (left(n) \ {var}) \cup DOMAIN r)
    BY <2>2, <2>3, SubstituteBodyWithin
  <2>6. BodyWithin(SubstituteBody(b, var, r), left(n + 1))
    BY <2>4, <2>5 DEF BodyWithin, AssignWithin, IndexWithin
  <2> QED
    BY <2>1, <2>6
<1>4. N \in S
  <2> HIDE DEF S
  <2> QED
    BY <1>1, <1>2, <1>3, SetInduction
<1>5. left(N) = {first + l - 1 : l \in 1 .. N}
  BY <1>1
<1> HIDE DEF left
<1>6. BodyWithin(Substitutions(stmt, first)[N], left(N))
  BY <1>1, <1>4
<1> QED
  BY <1>5, <1>6 DEF OverShared

\* Fusing two closed nests of the same extents.
LEMMA FusedNestClosed ==
  ASSUME NEW one, Closed(one), NEW other, Closed(other),
         Extents(one) = Extents(other),
         NEW first \in Nat, first + Len(one.levels) - 1 <= MaxLoopVar
  PROVE  Closed(FusedNest(one, other, first))
<1> DEFINE N == Len(one.levels)
           s == FusedNest(one, other, first)
           V == {first + l - 1 : l \in 1 .. N}
<1>1. /\ N \in Nat /\ DOMAIN one.levels = 1 .. N
      /\ Len(other.levels) \in Nat /\ DOMAIN other.levels = 1 .. Len(other.levels)
  BY Lists DEF Closed, LevelsApart
<1>2. Len(other.levels) = N
  <2>1. DOMAIN one.levels = DOMAIN other.levels
    BY DEF Extents
  <2> QED
    BY <1>1, <2>1
<1>3. /\ s.levels = [l \in 1 .. N |-> Level(first + l - 1, one.levels[l].extent)]
      /\ s.body = OverShared(one, first) \o OverShared(other, first)
  BY <1>1 DEF FusedNest, Nest
<1> HIDE DEF s
<1>4. /\ IsList(s.levels) /\ DOMAIN s.levels = 1 .. N
      /\ \A l \in 1 .. N : s.levels[l].var = first + l - 1
  BY <1>1, <1>3 DEF Level, IsList
<1>5. LevelsApart(s.levels)
  <2>1. \A l \in 1 .. N : first + l - 1 \in 0 .. MaxLoopVar
    BY <1>1, LoopAssumption
  <2>2. \A l, m \in 1 .. N : first + l - 1 = first + m - 1 => l = m
    BY <1>1
  <2> QED
    BY <1>4, <2>1, <2>2, SMTT(30) DEF LevelsApart
<1>6. LevelVars(s) = V
  BY <1>4 DEF LevelVars
<1>7. BodyWithin(OverShared(one, first), V) /\ BodyWithin(OverShared(other, first), V)
  BY <1>2, OverSharedWithin
<1> DEFINE a == OverShared(one, first)
           b == OverShared(other, first)
<1> HIDE DEF a, b, V
<1>8. BodyWithin(a \o b, V)
  <2>1. /\ IsList(a) /\ \A k \in DOMAIN a : AssignWithin(a[k], V)
        /\ IsList(b) /\ \A k \in DOMAIN b : AssignWithin(b[k], V)
    BY <1>7 DEF BodyWithin, a, b
  <2> DEFINE c == a \o b
  <2>2. ASSUME NEW i \in DOMAIN c
        PROVE  AssignWithin(c[i], V)
    <3>1. (\E j \in DOMAIN a : c[i] = a[j]) \/ (\E j \in DOMAIN b : c[i] = b[j])
      BY <2>1, ConcatElements
    <3> HIDE DEF c
    <3> QED
      BY <2>1, <3>1
  <2>3. IsList(c)
    BY <2>1, ConcatLists
  <2> HIDE DEF c
  <2>4. BodyWithin(c, V)
    BY <2>2, <2>3 DEF BodyWithin
  <2> QED
    BY <2>4 DEF c
<1> QED
  BY <1>3, <1>5, <1>6, <1>8 DEF Closed, a, b, s

-----------------------------------------------------------------------------
(* The moves, each on a kernel.                                             *)
LEMMA WithNestKeeps ==
  ASSUME IInv, NEW nest \in DOMAIN kernel.body, NEW stmt, Closed(stmt),
         kernel' = WithNest(kernel, nest, stmt)
  PROVE  IInv'
<1> DEFINE body == [kernel.body EXCEPT ![nest] = stmt]
<1>1. /\ IsList(kernel.body) /\ Len(kernel.body) \in Nat
      /\ DOMAIN kernel.body = 1 .. Len(kernel.body)
  BY Lists DEF IInv, AllClosed
<1>2. kernel' = [kernel EXCEPT !.body = body]
  BY DEF WithNest
<1>3. body = [n \in 1 .. Len(kernel.body) |-> IF n = nest THEN stmt ELSE kernel.body[n]]
  BY <1>1
<1> HIDE DEF body
<1>4. AllClosed(body)
  <2>1. IsList(body)
    BY <1>1, <1>3 DEF IsList
  <2> QED
    BY <1>1, <1>3, <2>1 DEF AllClosed, IInv
<1>5. /\ DOMAIN kernel' = DOMAIN kernel /\ kernel'.body = body
      /\ kernel' = [field \in DOMAIN kernel' |-> kernel'[field]]
  BY <1>2 DEF IInv
<1> QED
  BY <1>4, <1>5 DEF IInv

\* Lists of closed nests, put one behind the other.
LEMMA OneClosed ==
  ASSUME NEW nest, Closed(nest)
  PROVE  AllClosed(<<nest>>)
<1>1. <<nest>> = [i \in 1 .. 1 |-> <<nest>>[i]] /\ <<nest>>[1] = nest
  OBVIOUS
<1>2. IsList(<<nest>>) /\ DOMAIN <<nest>> = 1 .. 1
  BY <1>1 DEF IsList
<1> QED
  BY <1>1, <1>2 DEF AllClosed

\* Two closed nests
LEMMA TwoClosed ==
  ASSUME NEW nest, NEW other, Closed(nest), Closed(other)
  PROVE  AllClosed(<<nest, other>>)
<1> DEFINE s == <<nest, other>>
<1>1. s = [i \in 1 .. 2 |-> s[i]] /\ s[1] = nest /\ s[2] = other
  OBVIOUS
<1> HIDE DEF s
<1>2. IsList(s) /\ DOMAIN s = 1 .. 2
  BY <1>1 DEF IsList
<1>3. AllClosed(s)
  BY <1>1, <1>2 DEF AllClosed
<1> QED
  BY <1>3 DEF s

\* and two lists of them.
LEMMA ClosedConcat ==
  ASSUME NEW a, NEW b, AllClosed(a), AllClosed(b)
  PROVE  AllClosed(a \o b)
<1>1. IsList(a) /\ IsList(b)
  BY DEF AllClosed
<1> DEFINE c == a \o b
<1>2. ASSUME NEW i \in DOMAIN c
      PROVE  Closed(c[i])
  <2>1. (\E j \in DOMAIN a : c[i] = a[j]) \/ (\E j \in DOMAIN b : c[i] = b[j])
    BY <1>1, ConcatElements
  <2> HIDE DEF c
  <2> QED
    BY <2>1 DEF AllClosed
<1>3. IsList(c)
  BY <1>1, ConcatLists
<1> HIDE DEF c
<1>4. AllClosed(c)
  BY <1>2, <1>3 DEF AllClosed
<1> QED
  BY <1>4 DEF c

\* A fusion keeps the invariant.
LEMMA FusedKeeps ==
  ASSUME IInv, NEW nest, MayFuse(kernel, nest), kernel' = Fused(kernel, nest)
  PROVE  IInv'
<1> DEFINE old   == kernel.body
           n     == Len(old)
           new   == FusedNest(old[nest], old[nest + 1], FirstFresh(kernel))
           before == SubSeq(old, 1, nest - 1)
           behind == SubSeq(old, nest + 2, n)
           body == (before \o <<new>>) \o behind
<1>1. /\ IsList(old) /\ n \in Nat /\ DOMAIN old = 1 .. n
      /\ \A i \in 1 .. n : Closed(old[i])
  BY Lists DEF IInv, AllClosed
<1>2. nest \in 1 .. n /\ nest + 1 \in 1 .. n
  BY <1>1 DEF MayFuse, IsNest
<1>3. kernel' = [kernel EXCEPT !.body = body]
  BY DEF Fused
<1>4. Closed(new)
  <2>1. FirstFresh(kernel) \in Nat
    BY FirstFreshIsFresh, LoopAssumption DEF IInv
  <2>2. /\ Extents(old[nest]) = Extents(old[nest + 1])
        /\ FirstFresh(kernel) + Len(old[nest].levels) - 1 <= MaxLoopVar
    BY DEF MayFuse, CanFresh
  <2> QED
    BY <1>1, <1>2, <2>1, <2>2, FusedNestClosed
<1>5. AllClosed(before) /\ AllClosed(behind)
  <2>1. 1 \in 1 .. n + 1 /\ nest - 1 \in (1 - 1) .. n
    BY <1>1, <1>2
  <2>2. nest + 2 \in 1 .. n + 1 /\ n \in ((nest + 2) - 1) .. n
    BY <1>1, <1>2
  <2>3. ASSUME NEW i \in 1 .. n + 1, NEW j \in (i - 1) .. n
        PROVE  AllClosed(SubSeq(old, i, j))
    <3> DEFINE s == SubSeq(old, i, j)
    <3>1. /\ IsList(s) /\ Len(s) = j - i + 1
          /\ \A m \in 1 .. j - i + 1 : s[m] = old[i + m - 1]
      BY <1>1, SubList
    <3> HIDE DEF s
    <3>2. DOMAIN s = 1 .. j - i + 1
      BY <3>1, Lists
    <3>3. \A m \in 1 .. j - i + 1 : i + m - 1 \in 1 .. n
      BY <1>1
    <3>4. AllClosed(s)
      BY <1>1, <3>1, <3>2, <3>3 DEF AllClosed
    <3> QED
      BY <3>4 DEF s
  <2> QED
    BY <2>1, <2>2, <2>3
<1>6. AllClosed(<<new>>)
  BY <1>4, OneClosed
<1>7. AllClosed(body)
  <2> HIDE DEF before, behind, new
  <2> QED
    BY <1>5, <1>6, ClosedConcat
<1> HIDE DEF body
<1>8. /\ DOMAIN kernel' = DOMAIN kernel /\ kernel'.body = body
      /\ kernel' = [field \in DOMAIN kernel' |-> kernel'[field]]
  BY <1>3 DEF IInv
<1> QED
  BY <1>7, <1>8 DEF IInv

\* So does every primitive.
LEMMA StepIInv == IInv /\ [Next]_vars => IInv'
<1> SUFFICES ASSUME IInv, [Next]_vars
             PROVE  IInv'
  OBVIOUS
<1>1. \A n \in DOMAIN kernel.body : Closed(kernel.body[n])
  BY DEF IInv, AllClosed
<1>2. ASSUME NEW nest \in DOMAIN kernel.body,
             NEW level \in DOMAIN kernel.body[nest].levels,
             Interchange(nest, level)
      PROVE  IInv'
  <2>1. Closed(Swapped(kernel.body[nest], level))
    BY <1>1, <1>2, SwappedClosed DEF Interchange, MayInterchange
  <2> QED
    BY <1>2, <2>1, WithNestKeeps DEF Interchange, Interchanged
<1>3. ASSUME NEW nest \in DOMAIN kernel.body,
             NEW level \in DOMAIN kernel.body[nest].levels,
             NEW size \in TileSizes, Tile(nest, level, size)
      PROVE  IInv'
  <2> DEFINE first == FirstFresh(kernel)
             stmt  == kernel.body[nest]
  <2>1. /\ first \in 0 .. MaxLoopVar
        /\ first < MaxLoopVar => \A v \in UsedVars(kernel) : v < first
        /\ LevelVars(stmt) \subseteq UsedVars(kernel)
    BY FirstFreshIsFresh, VarsInUse DEF IInv
  <2>2. CanFresh(first, 2)
    BY <1>3 DEF Tile, MayTile
  <2> HIDE DEF first
  <2>3. /\ first \in Nat /\ first + 1 <= MaxLoopVar
        /\ \A v \in LevelVars(stmt) : v < first
    BY <2>1, <2>2, LoopAssumption DEF CanFresh
  <2>4. size \in Nat
    BY ScheduleAssumption
  <2>5. Closed(StripMined(stmt, level, size, first))
    BY <1>1, <2>3, <2>4, StripMinedClosed
  <2> QED
    BY <1>3, <2>5, WithNestKeeps DEF Tile, Tiled, first
<1>4. ASSUME NEW nest \in DOMAIN kernel.body, Fuse(nest)
      PROVE  IInv'
  BY <1>4, FusedKeeps DEF Fuse
<1>5. CASE UNCHANGED vars
  BY <1>5 DEF vars, IInv
<1> QED
  BY <1>2, <1>3, <1>4, <1>5 DEF Next

-----------------------------------------------------------------------------
(* Lowering: the nests of a node are closed, and over loop variables that   *)
(* no nest before them has.                                                 *)
VarsOf(levels) == {levels[k].var : k \in DOMAIN levels}

\* The levels of a new nest have fresh variables.
LEMMA FreshLevels ==
  ASSUME NEW lowerer, lowerer.next_loop_var \in Nat, NEW from \in Nat,
         NEW count \in Nat, NEW shape,
         lowerer.next_loop_var + from + count <= MaxLoopVar
  PROVE  LET fresh   == FreshVars(lowerer, from, count)
             levels == LevelsOf(shape, fresh)
         IN  /\ DOMAIN fresh = 1 .. count
             /\ \A k \in 1 .. count : fresh[k] = lowerer.next_loop_var + from + k - 1
             /\ LevelsApart(levels)
             /\ VarsOf(levels) = Range(fresh)
<1> DEFINE fresh   == FreshVars(lowerer, from, count)
           levels == LevelsOf(shape, fresh)
           next   == lowerer.next_loop_var
<1>1. fresh = [k \in 1 .. count |-> next + from + k - 1]
  BY DEF FreshVars
<1>2. levels = [k \in 1 .. count |-> Level(next + from + k - 1, shape[k])]
  BY <1>1 DEF LevelsOf
<1> HIDE DEF fresh, levels
<1>3. /\ IsList(levels) /\ DOMAIN levels = 1 .. count
      /\ \A k \in 1 .. count : levels[k].var = next + from + k - 1
  BY <1>2 DEF IsList, Level
<1>4. \A k \in 1 .. count : next + from + k - 1 \in 0 .. MaxLoopVar
  BY LoopAssumption
<1>5. \A j, k \in 1 .. count : next + from + j - 1 = next + from + k - 1 => j = k
  OBVIOUS
<1>6. LevelsApart(levels)
  <2>1. \A k \in 1 .. count : levels[k].var \in 0 .. MaxLoopVar
    BY <1>3, <1>4
  <2>2. \A j, k \in 1 .. count : levels[j].var = levels[k].var => j = k
    BY <1>3, <1>5
  <2> QED
    BY <1>3, <2>1, <2>2 DEF LevelsApart
<1>7. VarsOf(levels) = Range(fresh)
  BY <1>1, <1>3 DEF Range, VarsOf
<1> QED
  BY <1>1, <1>6, <1>7 DEF fresh, levels

\* A row-major index is over the variables of its shape.
LEMMA RowMajorWithin ==
  ASSUME NEW shape, NEW fresh, DOMAIN fresh = DOMAIN shape, Addressable(shape)
  PROVE  IndexWithin(RowMajorAffine(shape, fresh), Range(fresh))
<1> DEFINE axis(v) == CHOOSE a \in DOMAIN fresh : fresh[a] = v
           f == [v \in Range(fresh) |-> Stride(shape, axis(v))]
<1>1. ASSUME NEW v \in Range(fresh)
      PROVE  Stride(shape, axis(v)) \in 0 .. MaxI64
  <2>1. \E a \in DOMAIN fresh : fresh[a] = v
    BY DEF Range
  <2>2. axis(v) \in DOMAIN shape
    BY <2>1
  <2> QED
    BY <2>2 DEF Addressable
<1>2. DOMAIN f \subseteq Range(fresh) /\ \A v \in DOMAIN f : f[v] \in 0 .. MaxI64
  BY <1>1
<1> HIDE DEF f
<1>3. IndexWithin(Affine(f), Range(fresh))
  BY <1>2, AffineWithin
<1> QED
  BY <1>3 DEF RowMajorAffine, f

\* A nest of one assignment over its own variables is closed.
LEMMA NestAddsClosed ==
  ASSUME NEW levels, LevelsApart(levels), NEW target, NEW op, NEW loads, NEW V,
         V \subseteq VarsOf(levels),
         IndexWithin(target.index, V),
         \A l \in DOMAIN loads : IndexWithin(loads[l].index, V)
  PROVE  Closed(Nest(levels, <<Assign(target, op, loads)>>))
<1> DEFINE body == <<Assign(target, op, loads)>>
           nest == Nest(levels, body)
<1>1. body = [i \in 1 .. 1 |-> body[i]]
  OBVIOUS
<1>2. IsList(body) /\ DOMAIN body = 1 .. 1
  BY <1>1 DEF IsList
<1>3. body[1].target = target /\ body[1].loads = loads
  BY DEF Assign
<1>4. nest.levels = levels /\ nest.body = body
  BY DEF Nest
<1> HIDE DEF body, nest
<1>5. V \subseteq LevelVars(nest)
  BY <1>4 DEF LevelVars, VarsOf
<1>6. AssignWithin(body[1], LevelVars(nest))
  BY <1>3, <1>5 DEF AssignWithin, IndexWithin
<1>7. BodyWithin(body, LevelVars(nest))
  BY <1>2, <1>6 DEF BodyWithin
<1> QED
  BY <1>4, <1>7 DEF Closed, body, nest

\* A lowerer on its way.
Lowering(l) ==
  /\ l = [field \in DOMAIN l |-> l[field]]
  /\ {"err", "buffers", "body", "inputs", "next_loop_var", "node_buffers"}
       \subseteq DOMAIN l
  /\ AllClosed(l.body)
  /\ l.next_loop_var \in 0 .. MaxLoopVar

\* Adding closed nests keeps a lowering.
LEMMA AddNestsKeeps ==
  ASSUME NEW l, Lowering(l), NEW shape, NEW nests, AllClosed(nests),
         NEW taken \in Nat, l.next_loop_var + taken <= MaxLoopVar
  PROVE  Lowering(AddNests(l, shape, nests, taken))
<1> DEFINE body == l.body \o nests
           m == AddNests(l, shape, nests, taken)
<1>1. AllClosed(body)
  BY ClosedConcat DEF Lowering
<1>2. m = [l EXCEPT !.buffers = Append(@, Buffer("Temp", shape, << >>)),
                    !.body = body, !.next_loop_var = @ + taken]
  BY DEF AddNests
<1> HIDE DEF body, m
<1>3. /\ DOMAIN m = DOMAIN l /\ m.body = body
      /\ m.next_loop_var = l.next_loop_var + taken
      /\ m = [field \in DOMAIN m |-> m[field]]
  BY <1>2 DEF Lowering
<1>4. l.next_loop_var + taken \in 0 .. MaxLoopVar
  BY LoopAssumption DEF Lowering
<1> QED
  BY <1>1, <1>3, <1>4 DEF Lowering, m

\* Lowering an elementwise operation adds closed nests.
LEMMA ElementwiseKeeps ==
  ASSUME NEW l, Lowering(l), NEW shape, IsList(shape), Addressable(shape),
         l.next_loop_var + Len(shape) <= MaxLoopVar, NEW op, NEW operands
  PROVE  Lowering(Elementwise(l, shape, op, operands))
<1> DEFINE fresh == FreshVars(l, 0, Len(shape))
           flat == RowMajorAffine(shape, fresh)
           loads == [k \in DOMAIN operands |-> Ref(operands[k], flat)]
           levels == LevelsOf(shape, fresh)
           target == Ref(NewBuffer(l), flat)
           nest == Nest(levels, <<Assign(target, op, loads)>>)
<1>1. /\ Len(shape) \in Nat /\ DOMAIN shape = 1 .. Len(shape)
      /\ l.next_loop_var \in Nat /\ l.next_loop_var + 0 + Len(shape) <= MaxLoopVar
  BY Lists, LoopAssumption DEF Lowering
<1>2. /\ DOMAIN fresh = 1 .. Len(shape)
      /\ LevelsApart(levels)
      /\ VarsOf(levels) = Range(fresh)
  BY <1>1, FreshLevels
<1>3. IndexWithin(flat, Range(fresh))
  BY <1>1, <1>2, RowMajorWithin
<1>4. /\ target.index = flat
      /\ \A k \in DOMAIN loads : loads[k].index = flat
  BY DEF Ref
<1>5. Closed(nest)
  <2> HIDE DEF levels, fresh, flat, loads, target
  <2> QED
    BY <1>2, <1>3, <1>4, NestAddsClosed
<1>6. AllClosed(<<nest>>)
  <2> HIDE DEF nest
  <2> QED
    BY <1>5, OneClosed
<1>7. Lowering(AddNests(l, shape, <<nest>>, Len(shape)))
  <2> HIDE DEF nest
  <2> QED
    BY <1>1, <1>6, AddNestsKeeps
<1> QED
  BY <1>7 DEF Elementwise

\* Where a sum adds to is indexed by its input's variables.
LEMMA SumOutputWithin ==
  ASSUME NEW n \in Nat, NEW inShape, DOMAIN inShape = 1 .. n,
         NEW inVars, DOMAIN inVars = 1 .. n, NEW axes, NEW keepdim \in BOOLEAN,
         Addressable(ReducedShape(inShape, axes, keepdim))
  PROVE  IndexWithin(SumOutputAffine(ReducedShape(inShape, axes, keepdim),
                                     axes, keepdim, inVars), Range(inVars))
<1> DEFINE outShape == ReducedShape(inShape, axes, keepdim)
           K == {a \in 1 .. n : a \notin Range(axes)}
           kept == Ascending(K)
           OutAxis(k) == IF keepdim THEN kept[k] ELSE k
           place(v) == CHOOSE k \in DOMAIN kept : inVars[kept[k]] = v
           f == [v \in {inVars[a] : a \in Range(kept)} |->
                   Stride(outShape, OutAxis(place(v)))]
<1>1. IsFiniteSet(K) /\ K \in SUBSET Nat /\ K \subseteq 1 .. n
  <2>1. IsFiniteSet(1 .. n)
    BY FS_Interval
  <2> QED
    BY <2>1, FS_Subset
<1>2. kept \in [1 .. Cardinality(K) -> K] /\ Range(kept) = K
  BY <1>1, AscendingLists, AscendingIncreases
<1>3. ASSUME NEW k \in DOMAIN kept
      PROVE  OutAxis(k) \in DOMAIN outShape
  <2>1. CASE keepdim
    <3>1. DOMAIN outShape = 1 .. n
      BY <2>1 DEF ReducedShape
    <3>2. OutAxis(k) = kept[k]
      BY <2>1
    <3> HIDE DEF kept, outShape
    <3> QED
      BY <1>1, <1>2, <3>1, <3>2
  <2>2. CASE ~ keepdim
    <3>1. DOMAIN outShape = 1 .. Cardinality(K)
      BY <2>2 DEF ReducedShape
    <3>2. OutAxis(k) = k
      BY <2>2
    <3> HIDE DEF kept, outShape
    <3> QED
      BY <1>2, <3>1, <3>2
  <2> QED
    BY <2>1, <2>2
<1>4. ASSUME NEW v \in {inVars[a] : a \in Range(kept)}
      PROVE  Stride(outShape, OutAxis(place(v))) \in 0 .. MaxI64
  <2>1. PICK a \in Range(kept) : v = inVars[a]
    BY <1>4
  <2>2. \E k \in DOMAIN kept : inVars[kept[k]] = v
    BY <2>1 DEF Range
  <2>3. place(v) \in DOMAIN kept
    BY <2>2
  <2> HIDE DEF place
  <2>4. OutAxis(place(v)) \in DOMAIN outShape
    BY <1>3, <2>3
  <2> HIDE DEF OutAxis, outShape
  <2>5. Addressable(outShape)
    BY DEF outShape
  <2> QED
    BY <2>4, <2>5 DEF Addressable
<1>5. DOMAIN f \subseteq Range(inVars) /\ \A v \in DOMAIN f : f[v] \in 0 .. MaxI64
  <2>1. DOMAIN f \subseteq Range(inVars)
    <3> HIDE DEF kept
    <3> QED
      BY <1>1, <1>2 DEF Range
  <2> QED
    BY <1>4, <2>1
<1> HIDE DEF f
<1>6. IndexWithin(Affine(f), Range(inVars))
  BY <1>5, AffineWithin
<1>7. SumOutputAffine(outShape, axes, keepdim, inVars) = Affine(f)
  BY DEF SumOutputAffine, f
<1> QED
  BY <1>6, <1>7

\* Lowering a sum adds closed nests.
LEMMA SumKeeps ==
  ASSUME NEW l, Lowering(l), NEW inShape, IsList(inShape), NEW axes,
         NEW keepdim \in BOOLEAN, NEW outShape, IsList(outShape),
         outShape = ReducedShape(inShape, axes, keepdim),
         Addressable(inShape), Addressable(outShape),
         l.next_loop_var + (Len(outShape) + Len(inShape)) <= MaxLoopVar, NEW input
  PROVE  Lowering(LowerSum(l, outShape, input, inShape, axes, keepdim))
<1> DEFINE n == Len(inShape)
           m == Len(outShape)
           outVars == FreshVars(l, 0, m)
           inVars  == FreshVars(l, m, n)
           flat    == RowMajorAffine(outShape, outVars)
           inFlat  == RowMajorAffine(inShape, inVars)
           outFlat == SumOutputAffine(outShape, axes, keepdim, inVars)
           zero    == Ref(NewBuffer(l), flat)
           out     == Ref(NewBuffer(l), outFlat)
           in      == Ref(input, inFlat)
           outLevels == LevelsOf(outShape, outVars)
           inLevels  == LevelsOf(inShape, inVars)
           first  == Nest(outLevels, <<Assign(zero, "Zero", << >>)>>)
           second == Nest(inLevels, <<Assign(out, "Add", <<out, in>>)>>)
<1>1. /\ n \in Nat /\ DOMAIN inShape = 1 .. n
      /\ m \in Nat /\ DOMAIN outShape = 1 .. m
      /\ l.next_loop_var \in Nat
      /\ l.next_loop_var + 0 + m <= MaxLoopVar
      /\ l.next_loop_var + m + n <= MaxLoopVar
      /\ m + n \in Nat /\ l.next_loop_var + (m + n) <= MaxLoopVar
  BY Lists, LoopAssumption DEF Lowering
<1>2. /\ DOMAIN outVars = 1 .. m /\ LevelsApart(outLevels)
      /\ VarsOf(outLevels) = Range(outVars)
  <2> HIDE DEF m
  <2> QED
    BY <1>1, FreshLevels
<1>3. /\ DOMAIN inVars = 1 .. n /\ LevelsApart(inLevels)
      /\ VarsOf(inLevels) = Range(inVars)
  <2> HIDE DEF m, n
  <2>1. /\ l.next_loop_var \in Nat /\ m \in Nat /\ n \in Nat
        /\ l.next_loop_var + m + n <= MaxLoopVar
    BY <1>1
  <2> QED
    BY <2>1, FreshLevels
<1>4. IndexWithin(flat, Range(outVars)) /\ IndexWithin(inFlat, Range(inVars))
  BY <1>1, <1>2, <1>3, RowMajorWithin
<1>5. IndexWithin(outFlat, Range(inVars))
  <2> HIDE DEF inVars
  <2> QED
    BY <1>1, <1>3, SumOutputWithin
<1>6. Closed(first)
  <2>1. zero.index = flat /\ DOMAIN << >> = {}
    BY DEF Ref
  <2> HIDE DEF outLevels, outVars, flat, zero
  <2> QED
    BY <1>2, <1>4, <2>1, NestAddsClosed
<1>7. Closed(second)
  <2> DEFINE loads == <<out, in>>
  <2>1. /\ out.index = outFlat
        /\ \A k \in DOMAIN loads : loads[k].index \in {outFlat, inFlat}
    BY DEF Ref
  <2> HIDE DEF inLevels, inVars, outFlat, inFlat, out, in
  <2>2. \A k \in DOMAIN loads : IndexWithin(loads[k].index, Range(inVars))
    BY <1>4, <1>5, <2>1
  <2> HIDE DEF loads
  <2>3. Closed(Nest(inLevels, <<Assign(out, "Add", loads)>>))
    BY <1>3, <1>5, <2>1, <2>2, NestAddsClosed
  <2> QED
    BY <2>3 DEF loads
<1>8. AllClosed(<<first, second>>)
  <2> HIDE DEF first, second
  <2> QED
    BY <1>6, <1>7, TwoClosed
<1>9. Lowering(AddNests(l, outShape, <<first, second>>, m + n))
  <2> HIDE DEF first, second
  <2> QED
    BY <1>1, <1>8, AddNestsKeeps
<1> QED
  BY <1>9 DEF LowerSum

\* An index of two variables is over these.
LEMMA TwoTermsWithin ==
  ASSUME NEW v, NEW a \in 0 .. MaxI64, NEW w, NEW V, v \in V, w \in V
  PROVE  IndexWithin(Affine(TwoTerms(v, a, w, 1)), V)
<1> DEFINE f == TwoTerms(v, a, w, 1)
<1>1. DOMAIN f \subseteq V /\ \A x \in DOMAIN f : f[x] \in 0 .. MaxI64
  BY LoopAssumption DEF TwoTerms
<1> HIDE DEF f
<1>2. IndexWithin(Affine(f), V)
  BY <1>1, AffineWithin
<1> QED
  BY <1>2 DEF f

\* Lowering a product adds closed nests.
LEMMA MatmulKeeps ==
  ASSUME NEW l, Lowering(l), NEW leftShape, NEW rightShape,
         \A k \in 1 .. 2 : /\ leftShape[k] \in 0 .. MaxI64
                           /\ rightShape[k] \in 0 .. MaxI64,
         l.next_loop_var + 3 <= MaxLoopVar, NEW left, NEW right
  PROVE  Lowering(LowerMatmul(l, left, leftShape, right, rightShape))
<1> DEFINE fresh == FreshVars(l, 0, 3)
           dims == <<leftShape[1], rightShape[2], leftShape[2]>>
           outIndex == Affine(TwoTerms(fresh[1], dims[2], fresh[2], 1))
           lhsIndex == Affine(TwoTerms(fresh[1], dims[3], fresh[3], 1))
           rhsIndex == Affine(TwoTerms(fresh[3], dims[2], fresh[2], 1))
           out  == Ref(NewBuffer(l), outIndex)
           lhs  == Ref(left, lhsIndex)
           rhs  == Ref(right, rhsIndex)
           levels == LevelsOf(dims, fresh)
           outer  == SubSeq(levels, 1, 2)
           loads  == <<out, lhs, rhs>>
           first  == Nest(outer, <<Assign(out, "Zero", << >>)>>)
           second == Nest(levels, <<Assign(out, "MulAdd", loads)>>)
<1>1. l.next_loop_var \in Nat /\ l.next_loop_var + 0 + 3 <= MaxLoopVar
  BY LoopAssumption DEF Lowering
<1>2. /\ DOMAIN fresh = 1 .. 3 /\ LevelsApart(levels)
      /\ VarsOf(levels) = Range(fresh)
  <2> HIDE DEF dims
  <2>1. ASSUME NEW count \in Nat, count = 3
        PROVE  LET fr == FreshVars(l, 0, count)
                   lv    == LevelsOf(dims, fr)
               IN  /\ DOMAIN fr = 1 .. count /\ LevelsApart(lv)
                   /\ VarsOf(lv) = Range(fr)
    <3>1. l.next_loop_var \in Nat /\ l.next_loop_var + 0 + count <= MaxLoopVar
      BY <1>1, <2>1
    <3> QED
      BY <3>1, FreshLevels
  <2> QED
    BY <2>1
<1>3. DOMAIN levels = 1 .. 3 /\ \A k \in 1 .. 3 : levels[k].var = fresh[k]
  <2>1. levels = [k \in DOMAIN fresh |-> Level(fresh[k], dims[k])]
    BY DEF LevelsOf
  <2> HIDE DEF fresh, levels, dims
  <2> QED
    BY <1>2, <2>1 DEF Level
<1>4. dims[2] \in 0 .. MaxI64 /\ dims[3] \in 0 .. MaxI64
  OBVIOUS
<1> HIDE DEF fresh, dims, levels
<1>5. /\ LevelsApart(outer) /\ {fresh[1], fresh[2]} \subseteq VarsOf(outer)
  <2>1. IsList(levels) /\ Len(levels) = 3
    <3>1. IsList(levels)
      BY <1>2 DEF LevelsApart
    <3> QED
      BY <1>3, <3>1, Lists
  <2>2. 1 \in 1 .. Len(levels) + 1 /\ 2 \in (1 - 1) .. Len(levels)
    BY <2>1
  <2>3. /\ IsList(outer) /\ Len(outer) = 2 - 1 + 1
        /\ \A i \in 1 .. 2 - 1 + 1 : outer[i] = levels[1 + i - 1]
    BY <2>1, <2>2, SubList
  <2> HIDE DEF outer
  <2>4. DOMAIN outer = 1 .. 2 /\ outer[1] = levels[1] /\ outer[2] = levels[2]
    BY <2>3, Lists
  <2> QED
    BY <1>2, <1>3, <2>3, <2>4 DEF LevelsApart, VarsOf
<1>6. /\ IndexWithin(outIndex, {fresh[1], fresh[2]})
      /\ IndexWithin(outIndex, Range(fresh))
      /\ IndexWithin(lhsIndex, Range(fresh))
      /\ IndexWithin(rhsIndex, Range(fresh))
  <2>1. {fresh[1], fresh[2], fresh[3]} \subseteq Range(fresh)
    BY <1>2 DEF Range
  <2> QED
    BY <1>4, <2>1, TwoTermsWithin
<1>7. out.index = outIndex /\ lhs.index = lhsIndex /\ rhs.index = rhsIndex
  BY DEF Ref
<1> HIDE DEF outIndex, lhsIndex, rhsIndex, out, lhs, rhs, outer
<1>8. Closed(first)
  <2>1. DOMAIN << >> = {}
    OBVIOUS
  <2> QED
    BY <1>5, <1>6, <1>7, <2>1, NestAddsClosed
<1>9. Closed(second)
  <2>1. \A k \in DOMAIN loads : IndexWithin(loads[k].index, Range(fresh))
    BY <1>6, <1>7
  <2> HIDE DEF loads
  <2> QED
    BY <1>2, <1>6, <1>7, <2>1, NestAddsClosed
<1>10. AllClosed(<<first, second>>)
  <2> HIDE DEF first, second
  <2> QED
    BY <1>8, <1>9, TwoClosed
<1>11. Lowering(AddNests(l, <<dims[1], dims[2]>>, <<first, second>>, 3))
  <2> HIDE DEF first, second
  <2>1. l.next_loop_var + 3 <= MaxLoopVar /\ 3 \in Nat
    OBVIOUS
  <2> QED
    BY <1>10, <2>1, AddNestsKeeps
<1> QED
  BY <1>11 DEF LowerMatmul, dims, fresh, levels, outIndex, lhsIndex, rhsIndex, out, lhs,
               rhs, outer

\* So every operation that is lowered without an error does,
LEMMA EmitKeeps ==
  ASSUME NEW l, Lowering(l), NEW node, node.op \in Operations, AttrFits(node),
         NEW shape, NEW shapes, TypeFits(node, shape, shapes), NEW operands,
         LowerError(l, node, shape, shapes) = "None"
  PROVE  Lowering(Emit(l, node, shape, operands, shapes))
<1>1. /\ l.next_loop_var + LoopVarsTaken(node, shape, shapes) <= MaxLoopVar
      /\ \A s \in Addressed(node, shape, shapes) : Addressable(s)
  <2>1. ~ (\/ l.next_loop_var + LoopVarsTaken(node, shape, shapes) > MaxLoopVar
           \/ \E s \in Addressed(node, shape, shapes) : ~ Addressable(s))
    BY DEF LowerError
  <2>2. l.next_loop_var \in Nat /\ LoopVarsTaken(node, shape, shapes) \in Nat
    <3>1. l.next_loop_var \in Nat
      BY LoopAssumption DEF Lowering
    <3>2. LoopVarsTaken(node, shape, shapes) \in Nat
      BY DEF LoopVarsTaken, Operations, BinaryOps, UnaryOps, TypeFits
    <3> QED
      BY <3>1, <3>2
  <2> QED
    BY <2>1, <2>2, LoopAssumption
<1>2. CASE node.op = "Input"
  <2> DEFINE m == [l EXCEPT !.buffers = Append(@, Buffer("Input", node.attr.shape, node.attr.name))]
             r == [m EXCEPT !.inputs = Append(@, NewBuffer(l))]
  <2>1. Emit(l, node, shape, operands, shapes) = r
    BY <1>2 DEF Emit, AddInput, AddBuffer
  <2>2. Lowering(m)
    BY DEF Lowering
  <2> HIDE DEF m
  <2>3. Lowering(r)
    BY <2>2 DEF Lowering
  <2> QED
    BY <2>1, <2>3
<1>3. CASE node.op = "Const"
  <2> DEFINE m == [l EXCEPT !.buffers = Append(@, Buffer("Const", node.attr.shape, node.attr.data))]
  <2>1. Emit(l, node, shape, operands, shapes) = m
    BY <1>3 DEF Emit, AddBuffer
  <2>2. Lowering(m)
    BY DEF Lowering
  <2> QED
    BY <2>1, <2>2
<1>4. CASE node.op \in {"Add", "Sub", "Mul", "Neg", "Relu"}
  <2>1. Emit(l, node, shape, operands, shapes) = Elementwise(l, shape, node.op, operands)
    BY <1>4 DEF Emit
  <2>2. /\ LoopVarsTaken(node, shape, shapes) = Len(shape)
        /\ shape \in Addressed(node, shape, shapes)
    BY <1>4 DEF LoopVarsTaken, Addressed
  <2>3. IsList(shape) /\ Addressable(shape) /\ l.next_loop_var + Len(shape) <= MaxLoopVar
    BY <1>1, <2>2, SeqIsList DEF TypeFits
  <2> QED
    BY <2>1, <2>3, ElementwiseKeeps
<1>5. CASE node.op = "Matmul"
  <2>1. Emit(l, node, shape, operands, shapes)
          = LowerMatmul(l, operands[1], shapes[1], operands[2], shapes[2])
    BY <1>5 DEF Emit
  <2>2. l.next_loop_var + 3 <= MaxLoopVar
    BY <1>1, <1>5 DEF LoopVarsTaken
  <2>3. ASSUME NEW d \in Range(shapes[1]) \cup Range(shapes[2])
        PROVE  d <= MaxI64
    <3>1. Addressable(<<d>>)
      BY <1>1, <1>5 DEF Addressed
    <3>2. 1 \in DOMAIN <<d>> /\ <<d>>[1] = d
      OBVIOUS
    <3> QED
      BY <3>1, <3>2 DEF Addressable
  <2>4. ASSUME NEW k \in 1 .. 2
        PROVE  /\ shapes[1][k] \in Nat /\ shapes[1][k] \in Range(shapes[1])
               /\ shapes[2][k] \in Nat /\ shapes[2][k] \in Range(shapes[2])
    BY <1>5, SMTT(30) DEF TypeFits, Range
  <2>5. \A k \in 1 .. 2 : /\ shapes[1][k] \in 0 .. MaxI64
                          /\ shapes[2][k] \in 0 .. MaxI64
    BY <2>3, <2>4, LoopAssumption
  <2> QED
    BY <2>1, <2>2, <2>5, MatmulKeeps
<1>6. CASE node.op = "Sum"
  <2>1. Emit(l, node, shape, operands, shapes)
          = LowerSum(l, shape, operands[1], shapes[1], node.attr.axes, node.attr.keepdim)
    BY <1>6 DEF Emit
  <2>2. /\ LoopVarsTaken(node, shape, shapes) = Len(shape) + Len(shapes[1])
        /\ Addressed(node, shape, shapes) = {shape, shapes[1]}
    BY <1>6 DEF LoopVarsTaken, Addressed
  <2>3. /\ IsList(shape) /\ IsList(shapes[1])
        /\ shape = ReducedShape(shapes[1], node.attr.axes, node.attr.keepdim)
        /\ node.attr.keepdim \in BOOLEAN
    BY <1>6, SeqIsList DEF TypeFits, AttrFits
  <2>4. /\ Addressable(shape) /\ Addressable(shapes[1])
        /\ l.next_loop_var + (Len(shape) + Len(shapes[1])) <= MaxLoopVar
    BY <1>1, <2>2
  <2> QED
    BY <2>1, <2>3, <2>4, SumKeeps
<1>7. CASE node.op = "Reshape"
  BY <1>7 DEF Emit
<1> QED
  BY <1>2, <1>3, <1>4, <1>5, <1>6, <1>7 DEF Operations, BinaryOps, UnaryOps

\* and every node, lowered or not.
LEMMA LowerNodeKeeps ==
  ASSUME NEW l, Lowering(l), NEW node, node.op \in Operations, AttrFits(node),
         NEW i, NEW types, TypeFits(node, types[i].shape, ShapesOf(node, types))
  PROVE  Lowering(LowerNode(l, i, node, types))
<1> DEFINE operands == [k \in DOMAIN node.args |-> l.node_buffers[node.args[k]]]
           shapes   == ShapesOf(node, types)
           shape    == types[i].shape
           error    == LowerError(l, node, shape, shapes)
           m        == Emit(l, node, shape, operands, shapes)
           buffer   == ResultBuffer(l, node, operands)
<1>1. LowerNode(l, i, node, types) =
        IF l.err # "None" THEN l
        ELSE IF error # "None" THEN [l EXCEPT !.err = error]
        ELSE [m EXCEPT !.node_buffers[i] = buffer]
  BY DEF LowerNode, ShapesOf
<1>2. error = "None" => Lowering(m)
  <2> HIDE DEF operands, shapes, shape
  <2>1. TypeFits(node, shape, shapes)
    BY DEF shapes, shape
  <2> QED
    BY <2>1, EmitKeeps
<1> HIDE DEF error, m, buffer
<1>3. Lowering([l EXCEPT !.err = error])
  BY DEF Lowering
<1>4. error = "None" => Lowering([m EXCEPT !.node_buffers[i] = buffer])
  <2> SUFFICES ASSUME error = "None"
               PROVE  Lowering([m EXCEPT !.node_buffers[i] = buffer])
    OBVIOUS
  <2> DEFINE r == [m EXCEPT !.node_buffers[i] = buffer]
  <2>1. Lowering(m)
    BY <1>2
  <2>2. /\ DOMAIN r = DOMAIN m /\ r.body = m.body
        /\ r.next_loop_var = m.next_loop_var
        /\ r = [field \in DOMAIN r |-> r[field]]
    BY <2>1 DEF Lowering
  <2> HIDE DEF r
  <2>3. Lowering(r)
    BY <2>1, <2>2 DEF Lowering
  <2> QED
    BY <2>3 DEF r
<1> QED
  BY <1>1, <1>3, <1>4

\* What the lowerings of a prefix of the order are.
LEMMA LoweringsDef ==
  ASSUME NEW g, NEW types, NEW order, Len(order) \in Nat
  PROVE  Lowerings(g, types, order) =
           [n \in 0 .. Len(order) |->
              IF n = 0 THEN EmptyLowerer(g)
              ELSE LowerNode(Lowerings(g, types, order)[n - 1], order[n],
                             g.nodes[order[n]], types)]
<1> DEFINE N == Len(order)
           Next1(n, l) == LowerNode(l, order[n], g.nodes[order[n]], types)
           Upto(m, f) == f = [n \in 0 .. m |-> IF n = 0 THEN EmptyLowerer(g)
                                                        ELSE Next1(n, f[n - 1])]
           S == {m \in Nat : \E f : Upto(m, f)}
<1>1. Lowerings(g, types, order) = CHOOSE f : Upto(N, f)
  BY DEF Lowerings
<1> HIDE DEF Next1
<1>2. 0 \in S
  <2> DEFINE f == [n \in 0 .. 0 |-> EmptyLowerer(g)]
  <2>1. Upto(0, f)
    OBVIOUS
  <2> QED
    BY <2>1
<1>3. ASSUME NEW m \in Nat, m \in S
      PROVE  m + 1 \in S
  <2>1. PICK f : Upto(m, f)
    BY <1>3
  <2> DEFINE h == [n \in 0 .. (m + 1) |-> IF n = m + 1 THEN Next1(n, f[m]) ELSE f[n]]
  <2>2. ASSUME NEW n \in 0 .. (m + 1)
        PROVE  h[n] = IF n = 0 THEN EmptyLowerer(g) ELSE Next1(n, h[n - 1])
    <3>1. CASE n = 0
      BY <2>1, <3>1
    <3>2. CASE n = m + 1
      BY <3>2
    <3>3. CASE n # 0 /\ n # m + 1
      <4>1. n \in 0 .. m /\ n - 1 \in 0 .. m
        BY <3>3
      <4>2. h[n] = f[n] /\ h[n - 1] = f[n - 1]
        BY <4>1, <3>3
      <4>3. f[n] = Next1(n, f[n - 1])
        BY <2>1, <4>1, <3>3
      <4> QED
        BY <4>2, <4>3, <3>3
    <3> QED
      BY <3>1, <3>2, <3>3
  <2>3. Upto(m + 1, h)
    <3> HIDE DEF h
    <3>1. h = [n \in 0 .. (m + 1) |-> h[n]]
      BY DEF h
    <3> QED
      BY <2>2, <3>1
  <2> HIDE DEF Upto, h
  <2> QED
    BY <2>3
<1>4. N \in S
  <2> HIDE DEF S
  <2> QED
    BY <1>2, <1>3, SetInduction
<1>5. Upto(N, Lowerings(g, types, order))
  BY <1>1, <1>4
<1> QED
  BY <1>5 DEF Next1

\* There is nothing to be closed in no nests.
LEMMA EmptyClosed == AllClosed(<< >>)
<1>1. << >> \in Seq({}) /\ DOMAIN << >> = {}
  OBVIOUS
<1> QED
  BY <1>1, SeqIsList DEF AllClosed

\* A lowering starts with none.
LEMMA EmptyLowering ==
  ASSUME NEW g
  PROVE  Lowering(EmptyLowerer(g))
<1> DEFINE l == EmptyLowerer(g)
<1>1. l = [err |-> "None", buffers |-> << >>, body |-> << >>, inputs |-> << >>,
           next_loop_var |-> 0, node_buffers |-> [i \in Ids(g) |-> 0]]
  BY DEF EmptyLowerer
<1> HIDE DEF l
<1>2. /\ l = [field \in DOMAIN l |-> l[field]]
      /\ {"err", "buffers", "body", "inputs", "next_loop_var", "node_buffers"}
           \subseteq DOMAIN l
      /\ l.body = << >> /\ l.next_loop_var = 0
  BY <1>1
<1>3. AllClosed(<< >>)
  BY EmptyClosed
<1> QED
  BY <1>2, <1>3, LoopAssumption DEF Lowering, l

\* Whatever the order, each of whose nodes has the type that inference gives it.
LEMMA LoweringsKeep ==
  ASSUME NEW g, NEW types, NEW order \in Seq(Ids(g)),
         \A i \in Ids(g) : /\ g.nodes[i].op \in Operations
                           /\ AttrFits(g.nodes[i])
                           /\ TypeFits(g.nodes[i], types[i].shape,
                                       ShapesOf(g.nodes[i], types))
  PROVE  Lowering(Lowerings(g, types, order)[Len(order)])
<1> DEFINE N == Len(order)
           f == Lowerings(g, types, order)
           S == {n \in Nat : n <= N => Lowering(f[n])}
<1>1. N \in Nat /\ \A n \in 1 .. N : order[n] \in Ids(g)
  OBVIOUS
<1>2. f = [n \in 0 .. N |->
             IF n = 0 THEN EmptyLowerer(g)
             ELSE LowerNode(f[n - 1], order[n], g.nodes[order[n]], types)]
  BY <1>1, LoweringsDef
<1> HIDE DEF f, N
<1>3. 0 \in S
  BY <1>1, <1>2, EmptyLowering
<1>4. ASSUME NEW n \in Nat, n \in S
      PROVE  n + 1 \in S
  <2> SUFFICES ASSUME n + 1 <= N
               PROVE  Lowering(f[n + 1])
    BY <1>4
  <2>1. n + 1 \in 0 .. N /\ n + 1 \in 1 .. N /\ n + 1 # 0 /\ (n + 1) - 1 = n
    BY <1>1
  <2> DEFINE i == order[n + 1]
  <2>2. f[n + 1] = LowerNode(f[n], i, g.nodes[i], types)
    BY <1>2, <2>1
  <2>3. i \in Ids(g)
    BY <1>1, <2>1
  <2>4. Lowering(f[n])
    BY <1>1, <1>4
  <2> HIDE DEF i
  <2> QED
    BY <2>2, <2>3, <2>4, LowerNodeKeeps
<1>5. N \in S
  <2> HIDE DEF S
  <2> QED
    BY <1>1, <1>3, <1>4, SetInduction
<1> QED
  BY <1>1, <1>5 DEF f, N

-----------------------------------------------------------------------------
(* The order of lowering names nodes of the graph only.                     *)
\* The order and the queue after some rounds.
LEMMA PopsDef ==
  ASSUME NEW g, Len(g.nodes) \in Nat
  PROVE  Pops(g) =
           [n \in 0 .. Len(g.nodes) |->
              IF n = 0
              THEN [order |-> << >>,
                    ready |-> Ascending({i \in Ids(g) : Operands(g.nodes[i]) = {}})]
              ELSE PopReady(g, Pops(g)[n - 1])]
<1> DEFINE N == Len(g.nodes)
           start == [order |-> << >>,
                     ready |-> Ascending({i \in Ids(g) : Operands(g.nodes[i]) = {}})]
           Upto(m, f) == f = [n \in 0 .. m |-> IF n = 0 THEN start
                                                        ELSE PopReady(g, f[n - 1])]
           S == {m \in Nat : \E f : Upto(m, f)}
<1>1. Pops(g) = CHOOSE f : Upto(N, f)
  BY DEF Pops
<1> HIDE DEF start
<1>2. 0 \in S
  <2> DEFINE f == [n \in 0 .. 0 |-> start]
  <2>1. Upto(0, f)
    OBVIOUS
  <2> QED
    BY <2>1
<1>3. ASSUME NEW m \in Nat, m \in S
      PROVE  m + 1 \in S
  <2>1. PICK f : Upto(m, f)
    BY <1>3
  <2> DEFINE h == [n \in 0 .. (m + 1) |-> IF n = m + 1 THEN PopReady(g, f[m]) ELSE f[n]]
  <2>2. ASSUME NEW n \in 0 .. (m + 1)
        PROVE  h[n] = IF n = 0 THEN start ELSE PopReady(g, h[n - 1])
    <3>1. CASE n = 0
      BY <2>1, <3>1
    <3>2. CASE n = m + 1
      BY <3>2
    <3>3. CASE n # 0 /\ n # m + 1
      <4>1. n \in 0 .. m /\ n - 1 \in 0 .. m
        BY <3>3
      <4>2. h[n] = f[n] /\ h[n - 1] = f[n - 1]
        BY <4>1, <3>3
      <4>3. f[n] = PopReady(g, f[n - 1])
        BY <2>1, <4>1, <3>3
      <4> QED
        BY <4>2, <4>3, <3>3
    <3> QED
      BY <3>1, <3>2, <3>3
  <2>3. Upto(m + 1, h)
    <3> HIDE DEF h
    <3>1. h = [n \in 0 .. (m + 1) |-> h[n]]
      BY DEF h
    <3> QED
      BY <2>2, <3>1
  <2> HIDE DEF Upto, h
  <2> QED
    BY <2>3
<1>4. N \in S
  <2> HIDE DEF S
  <2> QED
    BY <1>2, <1>3, SetInduction
<1>5. Upto(N, Pops(g))
  BY <1>1, <1>4
<1> QED
  BY <1>5 DEF start

\* Ids in ascending order are ids.
LEMMA AscendingOfIds ==
  ASSUME NEW n \in Nat, NEW S \in SUBSET (1 .. n)
  PROVE  Ascending(S) \in Seq(1 .. n)
<1>1. IsFiniteSet(S) /\ S \in SUBSET Nat
  <2>1. IsFiniteSet(1 .. n)
    BY FS_Interval
  <2>2. IsFiniteSet(S)
    BY <2>1, FS_Subset
  <2> QED
    BY <2>2
<1>2. Ascending(S) \in [1 .. Cardinality(S) -> S] /\ Cardinality(S) \in Nat
  BY <1>1, AscendingLists, FS_CardinalityType
<1> HIDE DEF Ascending
<1>3. Ascending(S) \in [1 .. Cardinality(S) -> 1 .. n]
  BY <1>2
<1> QED
  BY <1>2, <1>3

\* The order of the nodes is one of node ids.
LEMMA KahnOrderIsOfIds ==
  ASSUME NEW g, Len(g.nodes) \in Nat
  PROVE  KahnOrder(g) \in Seq(Ids(g))
<1> DEFINE N == Len(g.nodes)
           f == Pops(g)
           Fits(s) == s.order \in Seq(1 .. N) /\ s.ready \in Seq(1 .. N)
           S == {n \in Nat : n <= N => Fits(f[n])}
           start == [order |-> << >>,
                     ready |-> Ascending({i \in Ids(g) : Operands(g.nodes[i]) = {}})]
<1>1. f = [n \in 0 .. N |-> IF n = 0 THEN start ELSE PopReady(g, f[n - 1])]
  BY PopsDef
<1>2. Fits(start)
  <2>1. {i \in Ids(g) : Operands(g.nodes[i]) = {}} \in SUBSET (1 .. N)
    BY DEF Ids
  <2>2. start.ready \in Seq(1 .. N)
    BY <2>1, AscendingOfIds
  <2>3. start.order = << >>
    OBVIOUS
  <2> QED
    BY <2>2, <2>3
<1>3. ASSUME NEW s, Fits(s)
      PROVE  Fits(PopReady(g, s))
  <2>1. CASE s.ready = << >>
    BY <1>3, <2>1 DEF PopReady
  <2>2. CASE s.ready # << >>
    <3> DEFINE order == Append(s.order, Head(s.ready))
               A == Ascending(ReadyAfter(g, order))
    <3>1. order \in Seq(1 .. N) /\ Tail(s.ready) \in Seq(1 .. N)
      BY <1>3, <2>2, HeadTailProperties, AppendProperties
    <3> HIDE DEF order
    <3>2. ReadyAfter(g, order) \in SUBSET (1 .. N)
      BY DEF ReadyAfter, Ids
    <3>3. A \in Seq(1 .. N)
      BY <3>2, AscendingOfIds
    <3> HIDE DEF A
    <3>4. Tail(s.ready) \o A \in Seq(1 .. N)
      BY <3>1, <3>3
    <3>5. PopReady(g, s) = [order |-> order, ready |-> Tail(s.ready) \o A]
      BY <2>2 DEF PopReady, order, A
    <3> QED
      BY <3>1, <3>4, <3>5
  <2> QED
    BY <2>1, <2>2
<1> HIDE DEF f, start, Fits
<1>4. 0 \in S
  BY <1>1, <1>2
<1>5. ASSUME NEW n \in Nat, n \in S
      PROVE  n + 1 \in S
  <2> SUFFICES ASSUME n + 1 <= N
               PROVE  Fits(f[n + 1])
    BY <1>5
  <2>1. n + 1 \in 0 .. N /\ n + 1 # 0 /\ (n + 1) - 1 = n /\ n <= N
    OBVIOUS
  <2>2. f[n + 1] = PopReady(g, f[n])
    BY <1>1, <2>1
  <2> QED
    BY <1>3, <1>5, <2>1, <2>2
<1>6. N \in S
  <2> HIDE DEF S
  <2> QED
    BY <1>4, <1>5, SetInduction
<1> QED
  BY <1>6 DEF f, Fits, KahnOrder, Ids

-----------------------------------------------------------------------------
(* The kernels of lowering are closed, and so are those of every move.      *)
LEMMA LoweredKernelClosed ==
  ASSUME NEW g, IsGraph(g)
  PROVE  LET k == LoweredKernel(g)
         IN  /\ k = [field \in DOMAIN k |-> k[field]]
             /\ "body" \in DOMAIN k
             /\ AllClosed(k.body)
<1> DEFINE k == LoweredKernel(g)
           inferred == InferTypes(g)
           order == KahnOrder(g)
           last == Lowerings(g, inferred.types, order)[Len(order)]
<1> SUFFICES /\ k = [field \in DOMAIN k |-> k[field]]
             /\ "body" \in DOMAIN k
             /\ AllClosed(k.body)
  OBVIOUS
<1>1. ASSUME NEW err
      PROVE  LET n == NoKernel(err)
             IN  /\ n = [field \in DOMAIN n |-> n[field]]
                 /\ "body" \in DOMAIN n
                 /\ AllClosed(n.body)
  <2> DEFINE n == NoKernel(err)
  <2>1. /\ n = [field \in DOMAIN n |-> n[field]]
        /\ "body" \in DOMAIN n /\ n.body = << >>
    BY DEF NoKernel
  <2>2. AllClosed(<< >>)
    BY EmptyClosed
  <2> QED
    BY <2>1, <2>2
<1>2. CASE inferred.err # "None"
  <2>1. k = NoKernel(inferred.err)
    BY <1>2 DEF LoweredKernel, LowerTyped
  <2> QED
    BY <1>1, <2>1
<1>3. CASE inferred.err = "None"
  <2>1. k = KernelOf(g, last, inferred.types)
    BY <1>3 DEF LoweredKernel, LowerTyped, LowerInOrder
  <2>2. /\ NodesFit(g)
        /\ \A i \in Ids(g) : TypeFits(g.nodes[i], inferred.types[i].shape,
                                      ShapesOf(g.nodes[i], inferred.types))
    BY <1>3, InferTypesFit
  <2>3. order \in Seq(Ids(g))
    BY <2>2, KahnOrderIsOfIds DEF NodesFit
  <2> HIDE DEF k, inferred, order
  <2>4. Lowering(last)
    BY <2>2, <2>3, LoweringsKeep DEF NodesFit
  <2> HIDE DEF last
  <2>5. CASE last.err # "None"
    <3>1. k = NoKernel(last.err)
      BY <2>1, <2>5 DEF KernelOf
    <3> QED
      BY <1>1, <3>1
  <2>6. CASE last.err = "None"
    <3>1. /\ k = [field \in DOMAIN k |-> k[field]]
          /\ "body" \in DOMAIN k /\ k.body = last.body
      BY <2>1, <2>6 DEF KernelOf
    <3> QED
      BY <2>4, <3>1 DEF Lowering
  <2> QED
    BY <2>5, <2>6
<1> QED
  BY <1>2, <1>3

\* A kernel starts as lowered.
LEMMA InitIInv == Init => IInv
<1> SUFFICES ASSUME Init
             PROVE  IInv
  OBVIOUS
<1>1. IsGraph(graph) /\ kernel = LoweredKernel(graph)
  BY ScheduleAssumption DEF Init
<1> QED
  BY <1>1, LoweredKernelClosed DEF IInv

\* As many loop variables as loops.
LEMMA LevelVarsCounted ==
  ASSUME NEW nest, LevelsApart(nest.levels)
  PROVE  Cardinality(LevelVars(nest)) = Len(nest.levels)
<1> DEFINE n == Len(nest.levels)
           f == [k \in 1 .. n |-> nest.levels[k].var]
<1>1. n \in Nat /\ DOMAIN nest.levels = 1 .. n
  BY Lists DEF LevelsApart
<1>2. f \in Bijection(1 .. n, LevelVars(nest))
  <2>1. f \in [1 .. n -> LevelVars(nest)]
    BY <1>1 DEF LevelVars
  <2>2. \A j, k \in 1 .. n : f[j] = f[k] => j = k
    BY <1>1 DEF LevelsApart
  <2>3. \A v \in LevelVars(nest) : \E k \in 1 .. n : f[k] = v
    BY <1>1 DEF LevelVars
  <2> HIDE DEF f
  <2> QED
    BY <2>1, <2>2, <2>3 DEF Bijection, Injection, IsInjective, Surjection
<1>3. IsFiniteSet(1 .. n) /\ Cardinality(1 .. n) = n
  BY <1>1, FS_Interval
<1> QED
  BY <1>2, <1>3, FS_Bijection DEF ExistsBijection

\* What the invariant says of the indices.
LEMMA IInvImpliesClosed == IInv => IndicesClosed
<1> SUFFICES ASSUME IInv, NEW nest \in Range(kernel.body)
             PROVE  /\ StmtVars(nest) \subseteq LevelVars(nest)
                    /\ LevelVars(nest) \subseteq 0 .. MaxLoopVar
                    /\ Cardinality(LevelVars(nest)) = Len(nest.levels)
                    /\ \A ref \in Reads(nest.body) \cup Writes(nest.body) :
                          Range(ref.index) \subseteq 1 .. MaxI64
  BY DEF IndicesClosed
<1>1. Closed(nest)
  BY DEF IInv, AllClosed, Range
<1>2. \A ref \in Reads(nest.body) \cup Writes(nest.body) :
         IndexWithin(ref.index, LevelVars(nest))
  BY <1>1, ClosedIndices
<1>3. StmtVars(nest) \subseteq LevelVars(nest)
  BY <1>2 DEF StmtVars, IndexWithin
<1>4. LevelVars(nest) \subseteq 0 .. MaxLoopVar
  BY <1>1 DEF Closed, LevelsApart, LevelVars
<1>5. Cardinality(LevelVars(nest)) = Len(nest.levels)
  BY <1>1, LevelVarsCounted DEF Closed
<1>6. \A ref \in Reads(nest.body) \cup Writes(nest.body) :
         Range(ref.index) \subseteq 1 .. MaxI64
  BY <1>2 DEF IndexWithin, Range
<1> QED
  BY <1>3, <1>4, <1>5, <1>6

\* What lowering makes of any graph, and the legal moves of any kernel made so, have
\* indices over the loops around them only, distinct loop variables, and coefficients
\* that fit (AffineExpr::eval would read zero for a variable that is gone).
THEOREM ScheduleClosed == Spec => []IndicesClosed
<1>1. Spec => []IInv
  BY InitIInv, StepIInv, PTL DEF Spec
<1> QED
  BY <1>1, IInvImpliesClosed, PTL

-----------------------------------------------------------------------------
(* Addresses without a bound: sums over all loop variables.                 *)
Sums(f) ==
  LET sum[n \in 0 .. MaxLoopVar + 1] == IF n = 0 THEN 0 ELSE sum[n - 1] + f[n - 1]
  IN  sum

\* Their sum over all variables.
Total(f) == Sums(f)[MaxLoopVar + 1]

\* Values of the loop variables, or amounts that they contribute.
Amounts == [0 .. MaxLoopVar -> Nat]

\* What the partial sums are.
LEMMA SumsDef ==
  ASSUME NEW f
  PROVE  Sums(f) = [n \in 0 .. MaxLoopVar + 1 |->
                      IF n = 0 THEN 0 ELSE Sums(f)[n - 1] + f[n - 1]]
<1> DEFINE N == MaxLoopVar + 1
           next(n, old) == old + f[n - 1]
           Upto(m, g) == g = [n \in 0 .. m |-> IF n = 0 THEN 0 ELSE next(n, g[n - 1])]
           S == {m \in Nat : \E g : Upto(m, g)}
<1>0. N \in Nat
  BY LoopAssumption
<1>1. Sums(f) = CHOOSE g : Upto(N, g)
  BY DEF Sums
<1> HIDE DEF next
<1>2. 0 \in S
  <2> DEFINE g == [n \in 0 .. 0 |-> 0]
  <2>1. Upto(0, g)
    OBVIOUS
  <2> QED
    BY <2>1
<1>3. ASSUME NEW m \in Nat, m \in S
      PROVE  m + 1 \in S
  <2>1. PICK g : Upto(m, g)
    BY <1>3
  <2> DEFINE h == [n \in 0 .. (m + 1) |-> IF n = m + 1 THEN next(n, g[m]) ELSE g[n]]
  <2>2. ASSUME NEW n \in 0 .. (m + 1)
        PROVE  h[n] = IF n = 0 THEN 0 ELSE next(n, h[n - 1])
    <3>1. CASE n = 0
      BY <2>1, <3>1
    <3>2. CASE n = m + 1
      BY <3>2
    <3>3. CASE n # 0 /\ n # m + 1
      <4>1. n \in 0 .. m /\ n - 1 \in 0 .. m
        BY <3>3
      <4>2. h[n] = g[n] /\ h[n - 1] = g[n - 1]
        BY <4>1, <3>3
      <4>3. g[n] = next(n, g[n - 1])
        BY <2>1, <4>1, <3>3
      <4> QED
        BY <4>2, <4>3, <3>3
    <3> QED
      BY <3>1, <3>2, <3>3
  <2>3. Upto(m + 1, h)
    <3> HIDE DEF h
    <3>1. h = [n \in 0 .. (m + 1) |-> h[n]]
      BY DEF h
    <3> QED
      BY <2>2, <3>1
  <2> HIDE DEF Upto, h
  <2> QED
    BY <2>3
<1>4. N \in S
  <2> HIDE DEF N, S
  <2> QED
    BY <1>0, <1>2, <1>3, SetInduction
<1>5. Upto(N, Sums(f))
  <2> HIDE DEF Upto
  <2>1. \E g : Upto(N, g)
    BY <1>4
  <2> QED
    BY <1>1, <2>1
<1> QED
  BY <1>5 DEF next

\* The first sum is zero, and each one adds a term.
LEMMA SumsStep ==
  ASSUME NEW f
  PROVE  /\ Sums(f)[0] = 0
         /\ \A n \in 0 .. MaxLoopVar : Sums(f)[n + 1] = Sums(f)[n] + f[n]
<1> DEFINE s == Sums(f)
<1>1. s = [n \in 0 .. MaxLoopVar + 1 |-> IF n = 0 THEN 0 ELSE s[n - 1] + f[n - 1]]
  BY SumsDef
<1> HIDE DEF s
<1>2. MaxLoopVar \in Nat
  BY LoopAssumption
<1>3. s[0] = 0
  BY <1>1, <1>2
<1>4. ASSUME NEW n \in 0 .. MaxLoopVar
      PROVE  s[n + 1] = s[n] + f[n]
  <2>1. n + 1 \in 0 .. MaxLoopVar + 1 /\ n + 1 # 0 /\ (n + 1) - 1 = n
    BY <1>2
  <2> QED
    BY <1>1, <2>1
<1> QED
  BY <1>3, <1>4 DEF s

\* Sums are numbers.
LEMMA SumsAreNat ==
  ASSUME NEW f \in Amounts
  PROVE  \A n \in 0 .. MaxLoopVar + 1 : Sums(f)[n] \in Nat
<1> DEFINE s == Sums(f)
           S == {n \in Nat : n <= MaxLoopVar + 1 => s[n] \in Nat}
<1>1. s[0] = 0 /\ \A n \in 0 .. MaxLoopVar : s[n + 1] = s[n] + f[n]
  BY SumsStep
<1>2. MaxLoopVar \in Nat /\ \A n \in 0 .. MaxLoopVar : f[n] \in Nat
  BY LoopAssumption DEF Amounts
<1> HIDE DEF s
<1>3. 0 \in S
  BY <1>1
<1>4. ASSUME NEW n \in Nat, n \in S
      PROVE  n + 1 \in S
  <2> SUFFICES ASSUME n + 1 <= MaxLoopVar + 1
               PROVE  s[n + 1] \in Nat
    OBVIOUS
  <2>1. n \in 0 .. MaxLoopVar /\ s[n] \in Nat
    BY <1>2, <1>4
  <2> QED
    BY <1>1, <1>2, <2>1
<1>5. \A n \in Nat : n \in S
  <2> HIDE DEF S
  <2> QED
    BY <1>3, <1>4, SetInduction
<1> QED
  BY <1>2, <1>5 DEF s

\* Two functions that differ in one term have sums that differ by it.
LEMMA TotalMoves ==
  ASSUME NEW f \in Amounts, NEW g \in Amounts, NEW v \in 0 .. MaxLoopVar,
         \A w \in 0 .. MaxLoopVar : w # v => f[w] = g[w]
  PROVE  Total(f) + g[v] = Total(g) + f[v]
<1> DEFINE s == Sums(f)
           t == Sums(g)
           S == {n \in Nat : n <= MaxLoopVar + 1 =>
                               IF n <= v THEN s[n] = t[n] ELSE s[n] + g[v] = t[n] + f[v]}
<1>1. s[0] = 0 /\ \A n \in 0 .. MaxLoopVar : s[n + 1] = s[n] + f[n]
  BY SumsStep
<1>2. t[0] = 0 /\ \A n \in 0 .. MaxLoopVar : t[n + 1] = t[n] + g[n]
  BY SumsStep
<1>3. /\ MaxLoopVar \in Nat /\ v \in Nat
      /\ \A n \in 0 .. MaxLoopVar : f[n] \in Nat /\ g[n] \in Nat
  BY LoopAssumption DEF Amounts
<1>4. \A n \in 0 .. MaxLoopVar + 1 : s[n] \in Nat /\ t[n] \in Nat
  BY SumsAreNat
<1>5. Total(f) = s[MaxLoopVar + 1] /\ Total(g) = t[MaxLoopVar + 1]
  BY DEF Total
<1> HIDE DEF s, t
<1>6. 0 \in S
  BY <1>1, <1>2, <1>3
<1>7. ASSUME NEW n \in Nat, n \in S
      PROVE  n + 1 \in S
  <2> SUFFICES ASSUME n + 1 <= MaxLoopVar + 1
               PROVE  IF n + 1 <= v THEN s[n + 1] = t[n + 1]
                                    ELSE s[n + 1] + g[v] = t[n + 1] + f[v]
    OBVIOUS
  <2>1. n \in 0 .. MaxLoopVar /\ s[n] \in Nat /\ t[n] \in Nat
    BY <1>3, <1>4
  <2>2. s[n + 1] = s[n] + f[n] /\ t[n + 1] = t[n] + g[n]
    BY <1>1, <1>2, <2>1
  <2>3. IF n <= v THEN s[n] = t[n] ELSE s[n] + g[v] = t[n] + f[v]
    BY <1>3, <1>7, <2>1
  <2>4. f[n] \in Nat /\ g[n] \in Nat /\ f[v] \in Nat /\ g[v] \in Nat
    BY <1>3, <2>1
  <2>5. CASE n = v
    BY <1>3, <2>1, <2>2, <2>3, <2>4, <2>5
  <2>6. CASE n # v
    <3>1. f[n] = g[n]
      BY <2>1, <2>6
    <3> QED
      BY <1>3, <2>1, <2>2, <2>3, <2>4, <2>6, <3>1
  <2> QED
    BY <2>5, <2>6
<1>8. MaxLoopVar + 1 \in S
  <2> HIDE DEF S
  <2> QED
    BY <1>3, <1>6, <1>7, SetInduction
<1> QED
  BY <1>3, <1>5, <1>8

\* A sum of zeros is zero.
LEMMA TotalOfZeros ==
  ASSUME NEW f \in Amounts, \A w \in 0 .. MaxLoopVar : f[w] = 0
  PROVE  Total(f) = 0
<1> DEFINE s == Sums(f)
           S == {n \in Nat : n <= MaxLoopVar + 1 => s[n] = 0}
<1>1. s[0] = 0 /\ \A n \in 0 .. MaxLoopVar : s[n + 1] = s[n] + f[n]
  BY SumsStep
<1>2. MaxLoopVar \in Nat
  BY LoopAssumption
<1> HIDE DEF s
<1>3. 0 \in S
  BY <1>1
<1>4. ASSUME NEW n \in Nat, n \in S
      PROVE  n + 1 \in S
  BY <1>1, <1>2, <1>4
<1>5. MaxLoopVar + 1 \in S
  <2> HIDE DEF S
  <2> QED
    BY <1>2, <1>3, <1>4, SetInduction
<1> QED
  BY <1>2, <1>5 DEF s, Total

\* The total of a function of two terms.
LEMMA TotalOfTwo ==
  ASSUME NEW f \in Amounts, NEW v \in 0 .. MaxLoopVar, NEW w \in 0 .. MaxLoopVar, v # w,
         \A x \in 0 .. MaxLoopVar : x # v /\ x # w => f[x] = 0
  PROVE  Total(f) = f[v] + f[w]
<1> DEFINE z == [x \in 0 .. MaxLoopVar |-> 0]
           g == [x \in 0 .. MaxLoopVar |-> IF x = v THEN f[v] ELSE 0]
<1>1. z \in Amounts /\ g \in Amounts /\ f[v] \in Nat /\ f[w] \in Nat
  BY DEF Amounts
<1>2. Total(z) = 0
  BY <1>1, TotalOfZeros
<1>3. /\ z[v] = 0 /\ g[v] = f[v] /\ g[w] = 0
      /\ \A x \in 0 .. MaxLoopVar : x # v => z[x] = g[x]
      /\ \A x \in 0 .. MaxLoopVar : x # w => g[x] = f[x]
  OBVIOUS
<1> HIDE DEF z, g
<1>4. Total(z) + g[v] = Total(g) + z[v]
  BY <1>1, <1>3, TotalMoves
<1>5. Total(g) + f[w] = Total(f) + g[w]
  BY <1>1, <1>3, TotalMoves
<1>6. Total(g) \in Nat /\ Total(f) \in Nat
  <2>1. MaxLoopVar + 1 \in 0 .. MaxLoopVar + 1
    BY LoopAssumption
  <2> QED
    BY <1>1, <2>1, SumsAreNat DEF Total
<1> QED
  BY <1>1, <1>2, <1>3, <1>4, <1>5, <1>6

\* No term is greater than the total.
LEMMA TermInTotal ==
  ASSUME NEW f \in Amounts, NEW v \in 0 .. MaxLoopVar
  PROVE  Total(f) \in Nat /\ f[v] <= Total(f)
<1> DEFINE g == [x \in 0 .. MaxLoopVar |-> IF x = v THEN 0 ELSE f[x]]
<1>1. g \in Amounts /\ f[v] \in Nat
  BY DEF Amounts
<1>2. g[v] = 0 /\ \A x \in 0 .. MaxLoopVar : x # v => f[x] = g[x]
  OBVIOUS
<1> HIDE DEF g
<1>3. Total(f) + g[v] = Total(g) + f[v]
  BY <1>1, <1>2, TotalMoves
<1>4. Total(f) \in Nat /\ Total(g) \in Nat
  <2>1. MaxLoopVar + 1 \in 0 .. MaxLoopVar + 1
    BY LoopAssumption
  <2> QED
    BY <1>1, <2>1, SumsAreNat DEF Total
<1> QED
  BY <1>1, <1>2, <1>3, <1>4

\* Two functions that differ in two terms,
LEMMA TotalMovesTwo ==
  ASSUME NEW f \in Amounts, NEW g \in Amounts,
         NEW v \in 0 .. MaxLoopVar, NEW w \in 0 .. MaxLoopVar, v # w,
         \A x \in 0 .. MaxLoopVar : x \notin {v, w} => f[x] = g[x]
  PROVE  Total(f) + g[v] + g[w] = Total(g) + f[v] + f[w]
<1> DEFINE h == [x \in 0 .. MaxLoopVar |-> IF x = v THEN g[v] ELSE f[x]]
<1>1. /\ h \in Amounts
      /\ f[v] \in Nat /\ f[w] \in Nat /\ g[v] \in Nat /\ g[w] \in Nat
  BY DEF Amounts
<1>2. /\ h[v] = g[v] /\ h[w] = f[w]
      /\ \A x \in 0 .. MaxLoopVar : x # v => f[x] = h[x]
      /\ \A x \in 0 .. MaxLoopVar : x # w => h[x] = g[x]
  OBVIOUS
<1> HIDE DEF h
<1>3. Total(f) + h[v] = Total(h) + f[v]
  BY <1>1, <1>2, TotalMoves
<1>4. Total(h) + g[w] = Total(g) + h[w]
  BY <1>1, <1>2, TotalMoves
<1>5. Total(f) \in Nat /\ Total(g) \in Nat /\ Total(h) \in Nat
  BY <1>1, TermInTotal
<1> QED
  BY <1>1, <1>2, <1>3, <1>4, <1>5

\* and in three.
LEMMA TotalMovesThree ==
  ASSUME NEW f \in Amounts, NEW g \in Amounts, NEW u \in 0 .. MaxLoopVar,
         NEW v \in 0 .. MaxLoopVar, NEW w \in 0 .. MaxLoopVar,
         u # v, u # w, v # w,
         \A x \in 0 .. MaxLoopVar : x \notin {u, v, w} => f[x] = g[x]
  PROVE  Total(f) + g[u] + (g[v] + g[w]) = Total(g) + f[u] + (f[v] + f[w])
<1> DEFINE h == [x \in 0 .. MaxLoopVar |-> IF x = u THEN g[u] ELSE f[x]]
<1>1. /\ h \in Amounts
      /\ f[u] \in Nat /\ f[v] \in Nat /\ f[w] \in Nat
      /\ g[u] \in Nat /\ g[v] \in Nat /\ g[w] \in Nat
  BY DEF Amounts
<1>2. /\ h[u] = g[u] /\ h[v] = f[v] /\ h[w] = f[w]
      /\ \A x \in 0 .. MaxLoopVar : x # u => f[x] = h[x]
      /\ \A x \in 0 .. MaxLoopVar : x \notin {v, w} => h[x] = g[x]
  OBVIOUS
<1> HIDE DEF h
<1>3. Total(f) + h[u] = Total(h) + f[u]
  BY <1>1, <1>2, TotalMoves
<1>4. Total(h) + g[v] + g[w] = Total(g) + h[v] + h[w]
  BY <1>1, <1>2, TotalMovesTwo
<1>5. Total(f) \in Nat /\ Total(g) \in Nat /\ Total(h) \in Nat
  BY <1>1, TermInTotal
<1> QED
  BY <1>1, <1>2, <1>3, <1>4, <1>5

-----------------------------------------------------------------------------
(* What an index comes to when the loop variables have values.              *)
Contributions(e, p) == [v \in 0 .. MaxLoopVar |-> Coefficient(e, v) * p[v]]

\* What an index evaluates to at a point, if nothing saturates.
Address(e, p) == Total(Contributions(e, p))

\* Coefficients are numbers.
LEMMA CoefficientsAreNat ==
  ASSUME NEW e, NEW V, IndexWithin(e, V)
  PROVE  \A v : Coefficient(e, v) \in 0 .. MaxI64
BY LoopAssumption DEF Coefficient, IndexWithin

\* So is what the terms come to.
LEMMA ContributionsAreAmounts ==
  ASSUME NEW e, NEW V, IndexWithin(e, V), NEW p \in Amounts
  PROVE  /\ Contributions(e, p) \in Amounts
         /\ \A v \in 0 .. MaxLoopVar :
               Contributions(e, p)[v] = Coefficient(e, v) * p[v]
<1>1. ASSUME NEW v \in 0 .. MaxLoopVar
      PROVE  Coefficient(e, v) * p[v] \in Nat
  <2>1. Coefficient(e, v) \in Nat /\ p[v] \in Nat
    BY CoefficientsAreNat, LoopAssumption DEF Amounts
  <2> QED
    BY <2>1, ProductIsNat
<1> QED
  BY <1>1 DEF Contributions, Amounts

\* The partial sums of an evaluation.
LEMMA PartialSumsDef ==
  ASSUME NEW e, NEW env
  PROVE  LET s == PartialSums(e, env)
         IN  s = [n \in 0 .. MaxLoopVar + 1 |->
                    IF n = 0 THEN 0
                    ELSE IF n - 1 \notin DOMAIN e THEN s[n - 1]
                    ELSE Saturate(s[n - 1] + Saturate(e[n - 1] * Coefficient(env, n - 1)))]
<1> DEFINE N == MaxLoopVar + 1
           next(n, old) == IF n - 1 \notin DOMAIN e THEN old
                           ELSE Saturate(old + Saturate(e[n - 1] * Coefficient(env, n - 1)))
           Upto(m, g) == g = [n \in 0 .. m |-> IF n = 0 THEN 0 ELSE next(n, g[n - 1])]
           S == {m \in Nat : \E g : Upto(m, g)}
<1>0. N \in Nat
  BY LoopAssumption
<1>1. PartialSums(e, env) = CHOOSE g : Upto(N, g)
  BY DEF PartialSums
<1> HIDE DEF next
<1>2. 0 \in S
  <2> DEFINE g == [n \in 0 .. 0 |-> 0]
  <2>1. Upto(0, g)
    OBVIOUS
  <2> QED
    BY <2>1
<1>3. ASSUME NEW m \in Nat, m \in S
      PROVE  m + 1 \in S
  <2>1. PICK g : Upto(m, g)
    BY <1>3
  <2> DEFINE h == [n \in 0 .. (m + 1) |-> IF n = m + 1 THEN next(n, g[m]) ELSE g[n]]
  <2>2. ASSUME NEW n \in 0 .. (m + 1)
        PROVE  h[n] = IF n = 0 THEN 0 ELSE next(n, h[n - 1])
    <3>1. CASE n = 0
      BY <2>1, <3>1
    <3>2. CASE n = m + 1
      BY <3>2
    <3>3. CASE n # 0 /\ n # m + 1
      <4>1. n \in 0 .. m /\ n - 1 \in 0 .. m
        BY <3>3
      <4>2. h[n] = g[n] /\ h[n - 1] = g[n - 1]
        BY <4>1, <3>3
      <4>3. g[n] = next(n, g[n - 1])
        BY <2>1, <4>1, <3>3
      <4> QED
        BY <4>2, <4>3, <3>3
    <3> QED
      BY <3>1, <3>2, <3>3
  <2>3. Upto(m + 1, h)
    <3> HIDE DEF h
    <3>1. h = [n \in 0 .. (m + 1) |-> h[n]]
      BY DEF h
    <3> QED
      BY <2>2, <3>1
  <2> HIDE DEF Upto, h
  <2> QED
    BY <2>3
<1>4. N \in S
  <2> HIDE DEF N, S
  <2> QED
    BY <1>0, <1>2, <1>3, SetInduction
<1>5. Upto(N, PartialSums(e, env))
  <2> HIDE DEF Upto
  <2>1. \E g : Upto(N, g)
    BY <1>4
  <2> QED
    BY <1>1, <2>1
<1> QED
  BY <1>5 DEF next

\* Saturating at every addition is saturating once.
LEMMA SaturateSums ==
  ASSUME NEW x \in Nat, NEW y \in Nat
  PROVE  Saturate(Saturate(x) + Saturate(y)) = Saturate(x + y)
BY LoopAssumption, SMTT(30) DEF Saturate

\* An evaluation yields the address, or the bound if that is beyond it.
LEMMA EvalIsAddress ==
  ASSUME NEW e, NEW V, IndexWithin(e, V), NEW p \in Amounts, NEW env,
         \A v \in DOMAIN e : Coefficient(env, v) = p[v]
  PROVE  EvalAffine(e, env) = Saturate(Address(e, p))
<1> DEFINE c == Contributions(e, p)
           s == PartialSums(e, env)
           t == Sums(c)
           S == {n \in Nat : n <= MaxLoopVar + 1 => s[n] = Saturate(t[n])}
<1>1. MaxLoopVar \in Nat /\ MaxI64 \in Nat
  BY LoopAssumption
<1>2. c \in Amounts /\ \A v \in 0 .. MaxLoopVar : c[v] = Coefficient(e, v) * p[v]
  BY ContributionsAreAmounts
<1>3. s = [n \in 0 .. MaxLoopVar + 1 |->
             IF n = 0 THEN 0
             ELSE IF n - 1 \notin DOMAIN e THEN s[n - 1]
             ELSE Saturate(s[n - 1] + Saturate(e[n - 1] * Coefficient(env, n - 1)))]
  BY PartialSumsDef
<1>4. t[0] = 0 /\ \A n \in 0 .. MaxLoopVar : t[n + 1] = t[n] + c[n]
  BY SumsStep
<1>5. \A n \in 0 .. MaxLoopVar + 1 : t[n] \in Nat
  BY <1>2, SumsAreNat
<1>6. EvalAffine(e, env) = s[MaxLoopVar + 1] /\ Address(e, p) = t[MaxLoopVar + 1]
  BY DEF EvalAffine, Address, Total
<1>7. \A v \in 0 .. MaxLoopVar : c[v] \in Nat
  BY <1>2 DEF Amounts
<1> HIDE DEF c, s, t
<1>8. 0 \in S
  BY <1>1, <1>3, <1>4 DEF Saturate
<1>9. ASSUME NEW n \in Nat, n \in S
      PROVE  n + 1 \in S
  <2> SUFFICES ASSUME n + 1 <= MaxLoopVar + 1
               PROVE  s[n + 1] = Saturate(t[n + 1])
    OBVIOUS
  <2>1. /\ n \in 0 .. MaxLoopVar /\ n \in 0 .. MaxLoopVar + 1
        /\ n + 1 \in 0 .. MaxLoopVar + 1 /\ n + 1 # 0 /\ (n + 1) - 1 = n
    BY <1>1
  <2>2. s[n] = Saturate(t[n])
    BY <1>1, <1>9, <2>1
  <2>3. t[n] \in Nat /\ c[n] \in Nat /\ t[n + 1] = t[n] + c[n]
    BY <1>4, <1>5, <1>7, <2>1
  <2>4. CASE n \notin DOMAIN e
    <3>1. s[n + 1] = s[n]
      BY <1>3, <2>1, <2>4
    <3>2. c[n] = 0
      <4>1. Coefficient(e, n) = 0
        BY <2>4 DEF Coefficient
      <4>2. p[n] \in Nat
        BY <2>1 DEF Amounts
      <4> QED
        BY <1>2, <2>1, <4>1, <4>2
    <3> QED
      BY <2>2, <2>3, <3>1, <3>2
  <2>5. CASE n \in DOMAIN e
    <3>1. s[n + 1] = Saturate(s[n] + Saturate(e[n] * Coefficient(env, n)))
      BY <1>3, <2>1, <2>5
    <3>2. e[n] * Coefficient(env, n) = c[n]
      BY <1>2, <2>1, <2>5 DEF Coefficient
    <3> QED
      BY <2>2, <2>3, <3>1, <3>2, SaturateSums
  <2> QED
    BY <2>4, <2>5
<1>10. MaxLoopVar + 1 \in S
  <2> HIDE DEF S
  <2> QED
    BY <1>1, <1>8, <1>9, SetInduction
<1> QED
  BY <1>1, <1>6, <1>10

\* The coefficients of an index after a substitution, and what it depends on.
LEMMA SubstitutedCoefficient ==
  ASSUME NEW e, NEW V, IndexWithin(e, V), NEW var, NEW r,
         \A x \in DOMAIN r : r[x] \in Nat, NEW v
  PROVE  LET new == Substitute(e, var, r)
         IN  /\ Coefficient(new, v) =
                  Saturate((IF v = var THEN 0 ELSE Coefficient(e, v))
                             + Saturate(Coefficient(e, var) * Coefficient(r, v)))
             /\ v \in DOMAIN new =>
                  \/ v # var /\ v \in DOMAIN e
                  \/ var \in DOMAIN e /\ v \in DOMAIN r
<1> DEFINE D == (DOMAIN e \ {var}) \cup DOMAIN r
           at(x) == Saturate((IF x = var THEN 0 ELSE Coefficient(e, x))
                               + Saturate(Coefficient(e, var) * Coefficient(r, x)))
           f == [x \in D |-> at(x)]
           new == Substitute(e, var, r)
<1>1. new = [x \in {y \in D : f[y] # 0} |-> f[x]]
  BY DEF Substitute, Affine
<1>2. \A x : Coefficient(e, x) \in Nat /\ Coefficient(r, x) \in Nat
  BY CoefficientsAreNat, LoopAssumption DEF Coefficient
<1>3. Saturate(0) = 0 /\ 0 + 0 = 0
  BY LoopAssumption DEF Saturate
<1>4. ASSUME v # var => v \notin DOMAIN e, ~ (var \in DOMAIN e /\ v \in DOMAIN r)
      PROVE  at(v) = 0
  <2>1. (IF v = var THEN 0 ELSE Coefficient(e, v)) = 0
    BY <1>4 DEF Coefficient
  <2>2. Coefficient(e, var) * Coefficient(r, v) = 0
    <3>1. Coefficient(e, var) = 0 \/ Coefficient(r, v) = 0
      BY <1>4 DEF Coefficient
    <3>2. \A x \in Nat : 0 * x = 0 /\ x * 0 = 0
      OBVIOUS
    <3> QED
      BY <1>2, <3>1, <3>2
  <2> QED
    BY <1>3, <2>1, <2>2
<1>5. v \notin D => at(v) = 0
  BY <1>4
<1> HIDE DEF at
<1>6. f = [x \in D |-> at(x)]
  OBVIOUS
<1> HIDE DEF f, D, new
<1>7. Coefficient(new, v) = at(v)
  BY <1>1, <1>5, <1>6 DEF Coefficient
<1>8. v \in DOMAIN new => at(v) # 0
  BY <1>1, <1>6
<1> QED
  BY <1>4, <1>7, <1>8 DEF at, new

\* A coefficient and a saturated one.
LEMMA SaturateSmall ==
  ASSUME NEW c \in 0 .. MaxI64
  PROVE  /\ Saturate(c) = c /\ Saturate(c + Saturate(0)) = c
         /\ Saturate(0 + Saturate(c * 1)) = c
         /\ Saturate(0 + Saturate(0)) = 0
         /\ c * 0 = 0 /\ c * 1 = c /\ c + 0 = c
BY LoopAssumption DEF Saturate

\* Renaming a loop's variable leaves an index where it was.
LEMMA RenamedAddress ==
  ASSUME NEW e, IndexWithin(e, 0 .. MaxLoopVar), NEW var \in 0 .. MaxLoopVar,
         NEW w \in 0 .. MaxLoopVar, w = var \/ w \notin DOMAIN e,
         NEW p \in Amounts, NEW q \in Amounts, p[var] = q[w],
         \A v \in 0 .. MaxLoopVar : v \notin {var, w} => p[v] = q[v]
  PROVE  Address(Substitute(e, var, Term(w, 1)), q) = Address(e, p)
<1> DEFINE r == Term(w, 1)
           new == Substitute(e, var, r)
           f == Contributions(e, p)
           g == Contributions(new, q)
<1>1. DOMAIN r = {w} /\ \A x \in DOMAIN r : r[x] \in Nat
  BY DEF Term
<1>2. \A x : Coefficient(r, x) = IF x = w THEN 1 ELSE 0
  BY DEF Term, Coefficient
<1> HIDE DEF r
<1>3. IndexWithin(new, (0 .. MaxLoopVar \ {var}) \cup DOMAIN r)
  BY <1>1, SubstituteWithin
<1>4. /\ f \in Amounts /\ \A v \in 0 .. MaxLoopVar : f[v] = Coefficient(e, v) * p[v]
      /\ g \in Amounts /\ \A v \in 0 .. MaxLoopVar : g[v] = Coefficient(new, v) * q[v]
  BY <1>3, ContributionsAreAmounts
<1>5. \A v : Coefficient(e, v) \in 0 .. MaxI64
  BY CoefficientsAreNat
<1>6. \A v \in 0 .. MaxLoopVar : p[v] \in Nat /\ q[v] \in Nat
  BY DEF Amounts
<1>7. ASSUME NEW v
      PROVE  Coefficient(new, v) = IF v = w THEN Coefficient(e, var)
                                   ELSE IF v = var THEN 0 ELSE Coefficient(e, v)
  <2> DEFINE c == Coefficient(e, var)
             d == Coefficient(e, v)
  <2>1. Coefficient(new, v) = Saturate((IF v = var THEN 0 ELSE d)
                                         + Saturate(c * Coefficient(r, v)))
    BY <1>1, SubstitutedCoefficient
  <2>2. c \in 0 .. MaxI64 /\ d \in 0 .. MaxI64
    BY <1>5
  <2>3. v = w => (v = var \/ d = 0)
    BY DEF Coefficient
  <2> HIDE DEF c, d, new
  <2>4. CASE v = w
    <3>1. (IF v = var THEN 0 ELSE d) = 0 /\ Coefficient(r, v) = 1
      BY <1>2, <2>3, <2>4
    <3> QED
      BY <2>1, <2>2, <2>4, <3>1, SaturateSmall DEF c
  <2>5. CASE v # w
    <3>1. Coefficient(r, v) = 0 /\ c * 0 = 0
      BY <1>2, <2>2, <2>5, SaturateSmall
    <3> QED
      BY <2>1, <2>2, <2>5, <3>1, SaturateSmall DEF d
  <2> QED
    BY <2>4, <2>5
<1>8. Address(e, p) = Total(f) /\ Address(new, q) = Total(g)
  BY DEF Address
<1> HIDE DEF f, g, new
<1>9. \A v \in 0 .. MaxLoopVar : v \notin {var, w} => f[v] = g[v]
  BY <1>4, <1>7
<1>10. f[var] = g[w]
  BY <1>4, <1>7
<1>11. CASE w = var
  <2>1. \A v \in 0 .. MaxLoopVar : f[v] = g[v]
    BY <1>9, <1>10, <1>11
  <2>2. f = [v \in 0 .. MaxLoopVar |-> f[v]] /\ g = [v \in 0 .. MaxLoopVar |-> g[v]]
    BY <1>4 DEF Amounts
  <2>3. f = g
    BY <2>1, <2>2
  <2> QED
    BY <1>8, <2>3 DEF new, r
<1>12. CASE w # var
  <2>1. f[w] = 0
    <3>1. Coefficient(e, w) = 0
      BY <1>12 DEF Coefficient
    <3> QED
      BY <1>4, <1>6, <3>1
  <2>2. g[var] = 0
    <3>1. Coefficient(new, var) = 0
      BY <1>7, <1>12
    <3> QED
      BY <1>4, <1>6, <3>1
  <2>3. Total(f) + g[var] + g[w] = Total(g) + f[var] + f[w]
    BY <1>4, <1>9, <1>12, TotalMovesTwo
  <2>4. Total(f) \in Nat /\ Total(g) \in Nat /\ g[w] \in Nat
    BY <1>4, TermInTotal DEF Amounts
  <2>5. Total(f) = Total(g)
    BY <1>10, <2>1, <2>2, <2>3, <2>4
  <2> QED
    BY <1>8, <2>5 DEF new, r
<1> QED
  BY <1>11, <1>12

\* So does splitting it in two, unless a coefficient does not fit.
LEMMA SplitAddress ==
  ASSUME NEW e, IndexWithin(e, 0 .. MaxLoopVar), NEW var \in 0 .. MaxLoopVar,
         NEW a \in 0 .. MaxLoopVar, NEW b \in 0 .. MaxLoopVar, NEW size \in Nat,
         a # b, a # var, b # var, a \notin DOMAIN e, b \notin DOMAIN e,
         NEW p \in Amounts, NEW q \in Amounts, p[var] = size * q[a] + q[b],
         \A v \in 0 .. MaxLoopVar : v \notin {var, a, b} => p[v] = q[v],
         Coefficient(e, var) * size <= MaxI64 \/ q[a] = 0
  PROVE  Address(Substitute(e, var, TwoTerms(a, size, b, 1)), q) = Address(e, p)
<1> DEFINE r == TwoTerms(a, size, b, 1)
           new == Substitute(e, var, r)
           f == Contributions(e, p)
           g == Contributions(new, q)
           c == Coefficient(e, var)
<1>1. DOMAIN r = {a, b} /\ \A x \in DOMAIN r : r[x] \in Nat
  BY DEF TwoTerms
<1>2. \A x : Coefficient(r, x) = IF x = a THEN size ELSE IF x = b THEN 1 ELSE 0
  BY DEF TwoTerms, Coefficient
<1> HIDE DEF r
<1>3. IndexWithin(new, (0 .. MaxLoopVar \ {var}) \cup DOMAIN r)
  BY <1>1, SubstituteWithin
<1>4. /\ f \in Amounts /\ \A v \in 0 .. MaxLoopVar : f[v] = Coefficient(e, v) * p[v]
      /\ g \in Amounts /\ \A v \in 0 .. MaxLoopVar : g[v] = Coefficient(new, v) * q[v]
  BY <1>3, ContributionsAreAmounts
<1>5. /\ \A v : Coefficient(e, v) \in 0 .. MaxI64
      /\ Coefficient(e, a) = 0 /\ Coefficient(e, b) = 0
      /\ c \in 0 .. MaxI64 /\ c \in Nat /\ MaxI64 \in Nat
  BY CoefficientsAreNat, LoopAssumption DEF Coefficient
<1>6. \A v \in 0 .. MaxLoopVar : p[v] \in Nat /\ q[v] \in Nat
  BY DEF Amounts
<1>7. ASSUME NEW v
      PROVE  Coefficient(new, v) =
               Saturate((IF v = var THEN 0 ELSE Coefficient(e, v))
                          + Saturate(c * Coefficient(r, v)))
  BY <1>1, SubstitutedCoefficient
<1>8. Address(e, p) = Total(f) /\ Address(new, q) = Total(g)
  BY DEF Address
<1> HIDE DEF f, g, new, c
<1>9. \A v \in 0 .. MaxLoopVar : v \notin {var, a, b} => f[v] = g[v]
  <2> SUFFICES ASSUME NEW v \in 0 .. MaxLoopVar, v \notin {var, a, b}
               PROVE  f[v] = g[v]
    OBVIOUS
  <2>1. Coefficient(r, v) = 0
    BY <1>2
  <2>2. Coefficient(new, v) = Saturate(Coefficient(e, v) + Saturate(c * 0))
    BY <1>7, <2>1
  <2>3. Coefficient(new, v) = Coefficient(e, v)
    BY <1>5, <2>2, SaturateSmall
  <2> QED
    BY <1>4, <2>3
<1>10. g[var] = 0
  <2>1. Coefficient(new, var) = Saturate(0 + Saturate(c * 0))
    BY <1>2, <1>7
  <2>2. Coefficient(new, var) = 0
    BY <1>5, <2>1, SaturateSmall
  <2> QED
    BY <1>4, <1>6, <2>2
<1>11. f[a] = 0 /\ f[b] = 0
  <2>1. f[a] = 0 * p[a] /\ f[b] = 0 * p[b]
    BY <1>4, <1>5
  <2>2. \A x \in Nat : 0 * x = 0
    OBVIOUS
  <2> QED
    BY <1>6, <2>1, <2>2
<1>12. g[b] = c * q[b]
  <2>1. Coefficient(new, b) = Saturate(0 + Saturate(c * 1))
    BY <1>2, <1>5, <1>7
  <2>2. Coefficient(new, b) = c
    BY <1>5, <2>1, SaturateSmall
  <2> QED
    BY <1>4, <2>2
<1>13. g[a] = c * size * q[a]
  <2>1. Coefficient(new, a) = Saturate(0 + Saturate(c * size))
    BY <1>2, <1>5, <1>7
  <2>2. c * size \in Nat
    BY <1>5, ProductIsNat
  <2> DEFINE d == c * size
  <2>3. CASE d <= MaxI64
    <3> HIDE DEF d
    <3>1. d \in 0 .. MaxI64
      BY <1>5, <2>2, <2>3 DEF d
    <3>2. Saturate(0 + Saturate(d)) = d
      <4>1. Saturate(d) = d /\ 0 + d = d
        BY <3>1, SaturateSmall
      <4> QED
        BY <4>1
    <3>3. Coefficient(new, a) = d
      BY <2>1, <3>2 DEF d
    <3> QED
      BY <1>4, <3>3 DEF d
  <2>4. CASE q[a] = 0
    <3>1. Coefficient(new, a) \in Nat
      BY <1>3, CoefficientsAreNat, LoopAssumption
    <3>2. g[a] = Coefficient(new, a) * 0
      BY <1>4, <2>4
    <3> QED
      BY <2>2, <2>4, <3>1, <3>2
  <2> QED
    BY <2>3, <2>4 DEF c
<1>14. f[var] = g[a] + g[b]
  <2>1. f[var] = c * (size * q[a] + q[b])
    BY <1>4 DEF c
  <2>2. q[a] \in Nat /\ q[b] \in Nat
    BY <1>6
  <2>3. \A x, y \in Nat : c * (size * x + y) = c * size * x + c * y
    BY <1>5
  <2> QED
    BY <1>12, <1>13, <2>1, <2>2, <2>3
<1>15. Total(f) + g[var] + (g[a] + g[b]) = Total(g) + f[var] + (f[a] + f[b])
  BY <1>4, <1>9, TotalMovesThree
<1>16. /\ Total(f) \in Nat /\ Total(g) \in Nat
       /\ g[a] \in Nat /\ g[b] \in Nat
  BY <1>4, TermInTotal DEF Amounts
<1>17. Total(f) = Total(g)
  BY <1>10, <1>11, <1>14, <1>15, <1>16
<1> QED
  BY <1>8, <1>17 DEF new, r

\* What the loops of a nest may be at.
Points(levels) ==
  {p \in Amounts : \A level \in Range(levels) : p[level.var] < level.extent}

\* Extents are numbers.
Sized(levels) == \A level \in Range(levels) : level.extent \in Nat

\* All that a nest refers to, the number of elements of the buffer referred to, and
\* whether these can be allocated.
References(nest) == Reads(nest.body) \cup Writes(nest.body)

ElementsOf(buffers, ref) == Numel(buffers[ref.buffer].shape)

Fits(buffers, ref) == ElementsOf(buffers, ref) \in 0 .. MaxI64

\* At every point each reference is inside its buffer.
InBuffers(nest, buffers) ==
  \A ref \in References(nest) : Fits(buffers, ref) =>
     \A p \in Points(nest.levels) : Address(ref.index, p) < ElementsOf(buffers, ref)

\* No two iterations write to the same place, but for the loops that the place does not
\* depend on,
PlacesApart(nest, buffers) ==
  \A target \in Writes(nest.body) : Fits(buffers, target) =>
     \A p, q \in Points(nest.levels) :
        Address(target.index, p) = Address(target.index, q) =>
           \A v \in DOMAIN target.index : p[v] = q[v]

\* and what a nest writes to a buffer, and reads of one it writes, it does at one index.
OneIndexEach(nest) ==
  \A target \in Writes(nest.body) : \A ref \in References(nest) :
     ref.buffer = target.buffer => ref.index = target.index

\* The part of the inductive invariant that is about one nest.
Sound(nest, buffers) ==
  /\ Sized(nest.levels)
  /\ InBuffers(nest, buffers)
  /\ PlacesApart(nest, buffers)
  /\ OneIndexEach(nest)

\* What a body refers to after a substitution.
LEMMA SubstitutedRefs ==
  ASSUME NEW body, IsList(body), NEW var, NEW r, NEW levels, NEW old
  PROVE  LET new == SubstituteBody(body, var, r)
         IN  /\ \A ref \in Writes(new) :
                   \E was \in Writes(body) : ref = SubstituteRef(was, var, r)
             /\ \A ref \in Reads(new) :
                   \E was \in Reads(body) : ref = SubstituteRef(was, var, r)
             /\ \A ref \in References(Nest(levels, new)) :
                   \E was \in References(Nest(old, body)) : ref = SubstituteRef(was, var, r)
<1> DEFINE new == SubstituteBody(body, var, r)
<1>1. new = [k \in DOMAIN body |->
               Assign(SubstituteRef(body[k].target, var, r), body[k].op,
                      [l \in DOMAIN body[k].loads |->
                         SubstituteRef(body[k].loads[l], var, r)])]
  BY DEF SubstituteBody
<1> HIDE DEF new
<1>2. /\ DOMAIN new = DOMAIN body
      /\ \A k \in DOMAIN body :
            /\ new[k].target = SubstituteRef(body[k].target, var, r)
            /\ DOMAIN new[k].loads = DOMAIN body[k].loads
            /\ \A l \in DOMAIN body[k].loads :
                  new[k].loads[l] = SubstituteRef(body[k].loads[l], var, r)
  BY <1>1 DEF Assign
<1>3. ASSUME NEW ref \in Writes(new)
      PROVE  \E was \in Writes(body) : ref = SubstituteRef(was, var, r)
  BY <1>2, <1>3 DEF Writes
<1>4. ASSUME NEW ref \in Reads(new)
      PROVE  \E was \in Reads(body) : ref = SubstituteRef(was, var, r)
  <2>1. PICK k \in DOMAIN new : ref \in Range(new[k].loads)
    BY DEF Reads
  <2>2. PICK l \in DOMAIN new[k].loads : ref = new[k].loads[l]
    BY <2>1 DEF Range
  <2>3. body[k].loads[l] \in Reads(body)
    BY <1>2, <2>1, <2>2 DEF Reads, Range
  <2> QED
    BY <1>2, <2>1, <2>2, <2>3
<1>5. ASSUME NEW ref \in References(Nest(levels, new))
      PROVE  \E was \in References(Nest(old, body)) : ref = SubstituteRef(was, var, r)
  BY <1>3, <1>4, <1>5 DEF References, Nest
<1> QED
  BY <1>3, <1>4, <1>5 DEF new

\* A substitution keeps a nest sound when each point of the new loops is one of the
\* old ones, at the same address, and different points are at different ones.
LEMMA SubstitutedSound ==
  ASSUME NEW stmt, Closed(stmt), NEW buffers, Sound(stmt, buffers), NEW var, NEW r,
         NEW levels, Sized(levels),
         NEW at \in [Points(levels) -> Points(stmt.levels)],
         \A e : IndexWithin(e, LevelVars(stmt)) =>
           /\ (\A p \in Points(stmt.levels) : Address(e, p) <= MaxI64) =>
                \A q \in Points(levels) :
                   Address(Substitute(e, var, r), q) = Address(e, at[q])
           /\ \A q1, q2 \in Points(levels) :
                 (\A v \in DOMAIN e : at[q1][v] = at[q2][v]) =>
                    \A v \in DOMAIN Substitute(e, var, r) : q1[v] = q2[v]
  PROVE  Sound(Nest(levels, SubstituteBody(stmt.body, var, r)), buffers)
<1> DEFINE new == Nest(levels, SubstituteBody(stmt.body, var, r))
<1>1. IsList(stmt.body)
  BY DEF Closed, BodyWithin
<1>2. /\ \A ref \in Writes(new.body) :
            \E was \in Writes(stmt.body) : ref = SubstituteRef(was, var, r)
      /\ \A ref \in References(new) :
            \E was \in References(stmt) : ref = SubstituteRef(was, var, r)
      /\ new.levels = levels
  <2>1. References(Nest(stmt.levels, stmt.body)) = References(stmt)
    BY DEF References, Nest
  <2>2. new.body = SubstituteBody(stmt.body, var, r) /\ new.levels = levels
    BY DEF Nest
  <2> QED
    BY <1>1, <2>1, <2>2, SubstitutedRefs
<1> HIDE DEF new
<1>3. \A ref \in References(stmt) : IndexWithin(ref.index, LevelVars(stmt))
  BY ClosedIndices DEF References
<1>4. Writes(stmt.body) \subseteq References(stmt)
  BY DEF References
<1>5. \A was : /\ SubstituteRef(was, var, r).buffer = was.buffer
               /\ SubstituteRef(was, var, r).index = Substitute(was.index, var, r)
  BY DEF SubstituteRef, Ref
<1>6. ASSUME NEW was \in References(stmt), Fits(buffers, was)
      PROVE  /\ \A p \in Points(stmt.levels) :
                   Address(was.index, p) < ElementsOf(buffers, was)
             /\ \A q \in Points(levels) :
                   Address(Substitute(was.index, var, r), q) = Address(was.index, at[q])
  <2>1. \A p \in Points(stmt.levels) : Address(was.index, p) < ElementsOf(buffers, was)
    BY <1>6 DEF Sound, InBuffers
  <2>2. \A p \in Points(stmt.levels) : Address(was.index, p) \in Nat
    <3> SUFFICES ASSUME NEW p \in Points(stmt.levels)
                 PROVE  Address(was.index, p) \in Nat
      OBVIOUS
    <3>1. p \in Amounts
      BY DEF Points
    <3>2. Contributions(was.index, p) \in Amounts
      BY <1>3, <3>1, ContributionsAreAmounts
    <3>3. 0 \in 0 .. MaxLoopVar
      BY LoopAssumption
    <3> QED
      BY <3>2, <3>3, TermInTotal DEF Address
  <2>3. \A p \in Points(stmt.levels) : Address(was.index, p) <= MaxI64
    BY <1>6, <2>1, <2>2, LoopAssumption DEF Fits
  <2> QED
    BY <1>3, <2>1, <2>3
<1>7. InBuffers(new, buffers)
  <2> SUFFICES ASSUME NEW ref \in References(new), Fits(buffers, ref),
                      NEW q \in Points(levels)
               PROVE  Address(ref.index, q) < ElementsOf(buffers, ref)
    BY <1>2 DEF InBuffers
  <2>1. PICK was \in References(stmt) : ref = SubstituteRef(was, var, r)
    BY <1>2
  <2>2. /\ Fits(buffers, was) /\ ElementsOf(buffers, ref) = ElementsOf(buffers, was)
        /\ ref.index = Substitute(was.index, var, r)
    BY <1>5, <2>1 DEF Fits, ElementsOf
  <2> QED
    BY <1>6, <2>2
<1>8. PlacesApart(new, buffers)
  <2> SUFFICES ASSUME NEW ref \in Writes(new.body), Fits(buffers, ref),
                      NEW q1 \in Points(levels), NEW q2 \in Points(levels),
                      Address(ref.index, q1) = Address(ref.index, q2)
               PROVE  \A v \in DOMAIN ref.index : q1[v] = q2[v]
    BY <1>2 DEF PlacesApart
  <2>1. PICK was \in Writes(stmt.body) : ref = SubstituteRef(was, var, r)
    BY <1>2
  <2>2. /\ Fits(buffers, was) /\ was \in References(stmt)
        /\ ref.index = Substitute(was.index, var, r)
    BY <1>4, <1>5, <2>1 DEF Fits, ElementsOf
  <2>3. Address(was.index, at[q1]) = Address(was.index, at[q2])
    BY <1>6, <2>2
  <2>4. \A v \in DOMAIN was.index : at[q1][v] = at[q2][v]
    BY <2>2, <2>3 DEF Sound, PlacesApart
  <2> QED
    BY <1>3, <2>2, <2>4
<1>9. OneIndexEach(new)
  <2> SUFFICES ASSUME NEW target \in Writes(new.body), NEW ref \in References(new),
                      ref.buffer = target.buffer
               PROVE  ref.index = target.index
    BY DEF OneIndexEach
  <2>1. PICK t \in Writes(stmt.body) : target = SubstituteRef(t, var, r)
    BY <1>2
  <2>2. PICK x \in References(stmt) : ref = SubstituteRef(x, var, r)
    BY <1>2
  <2>3. x.index = t.index
    BY <1>5, <2>1, <2>2 DEF Sound, OneIndexEach
  <2> QED
    BY <1>5, <2>1, <2>2, <2>3
<1> QED
  BY <1>2, <1>7, <1>8, <1>9 DEF Sound, new

\* A nest with the variable of one of its loops renamed.
Renamed(stmt, n, w) ==
  Nest([stmt.levels EXCEPT ![n] = Level(w, stmt.levels[n].extent)],
       SubstituteBody(stmt.body, stmt.levels[n].var, Term(w, 1)))

\* Renaming a variable to one that is not in use
LEMMA RenamedKeeps ==
  ASSUME NEW stmt, Closed(stmt), NEW n \in DOMAIN stmt.levels,
         NEW w \in 0 .. MaxLoopVar,
         w = stmt.levels[n].var \/ w \notin LevelVars(stmt),
         NEW buffers, Sound(stmt, buffers)
  PROVE  Closed(Renamed(stmt, n, w)) /\ Sound(Renamed(stmt, n, w), buffers)
<1> DEFINE lv == stmt.levels
           var == lv[n].var
           ext == lv[n].extent
           levels == [lv EXCEPT ![n] = Level(w, ext)]
           r == Term(w, 1)
           body == SubstituteBody(stmt.body, var, r)
           new == Nest(levels, body)
<1>1. /\ IsList(lv) /\ Len(lv) \in Nat /\ DOMAIN lv = 1 .. Len(lv)
      /\ \A l \in DOMAIN lv : lv[l].var \in 0 .. MaxLoopVar
      /\ \A l, m \in DOMAIN lv : lv[l].var = lv[m].var => l = m
  BY Lists DEF Closed, LevelsApart
<1>2. /\ levels = [l \in 1 .. Len(lv) |-> IF l = n THEN Level(w, ext) ELSE lv[l]]
      /\ Level(w, ext).var = w /\ Level(w, ext).extent = ext
  BY <1>1 DEF Level
<1>3. DOMAIN r = {w} /\ \A x \in DOMAIN r : r[x] \in Nat
  BY DEF Term
<1>4. var \in 0 .. MaxLoopVar /\ var \in LevelVars(stmt)
  BY <1>1 DEF LevelVars
<1>5. Renamed(stmt, n, w) = new /\ new.levels = levels /\ new.body = body
  BY DEF Renamed, Nest
<1>6. \A l \in DOMAIN lv : l # n => lv[l].var # var /\ lv[l].var # w
  BY <1>1 DEF LevelVars
<1>7. LevelsApart(levels)
  <2> HIDE DEF levels, var, ext, lv
  <2>1. IsList(levels) /\ DOMAIN levels = DOMAIN lv
    BY <1>1, <1>2 DEF IsList
  <2>2. \A l \in DOMAIN levels : levels[l].var = IF l = n THEN w ELSE lv[l].var
    BY <1>1, <1>2, <2>1
  <2> QED
    BY <1>1, <1>6, <2>1, <2>2 DEF LevelsApart
<1>8. Closed(new)
  <2>1. BodyWithin(stmt.body, LevelVars(stmt))
    BY DEF Closed
  <2>2. BodyWithin(body, (LevelVars(stmt) \ {var}) \cup DOMAIN r)
    <3> HIDE DEF r, var
    <3> QED
      BY <1>3, <2>1, SubstituteBodyWithin
  <2>3. (LevelVars(stmt) \ {var}) \cup {w} \subseteq LevelVars(new)
    <3> HIDE DEF body, levels, r, new
    <3>1. n \in DOMAIN levels /\ levels[n].var = w
      BY <1>1, <1>2
    <3>2. ASSUME NEW v \in LevelVars(stmt) \ {var}
          PROVE  v \in LevelVars(new)
      <4>1. PICK l \in DOMAIN lv : v = lv[l].var
        BY DEF LevelVars
      <4>2. l # n
        BY <4>1
      <4>3. l \in DOMAIN levels /\ levels[l] = lv[l]
        BY <1>1, <1>2, <4>2
      <4> QED
        BY <1>5, <4>1, <4>3 DEF LevelVars
    <3> QED
      BY <1>5, <3>1, <3>2 DEF LevelVars
  <2> HIDE DEF body, levels, r, new
  <2> QED
    BY <1>3, <1>5, <1>7, <2>2, <2>3
       DEF Closed, BodyWithin, AssignWithin, IndexWithin
<1>9. Sized(levels)
  <2>1. \A l \in DOMAIN lv : lv[l].extent \in Nat
    BY DEF Sound, Sized, Range
  <2> HIDE DEF levels
  <2> QED
    BY <1>1, <1>2, <2>1 DEF Sized, Range
<1> DEFINE P == Points(levels)
           at == [q \in P |-> [q EXCEPT ![var] = q[w]]]
<1>10. ASSUME NEW q \in P
       PROVE  /\ at[q] \in Points(lv) /\ at[q] \in Amounts /\ q \in Amounts
              /\ at[q][var] = q[w]
              /\ \A v \in 0 .. MaxLoopVar : v # var => at[q][v] = q[v]
  <2> DEFINE p == [q EXCEPT ![var] = q[w]]
  <2>1. q \in Amounts /\ \A level \in Range(levels) : q[level.var] < level.extent
    BY DEF Points
  <2>2. at[q] = p
    OBVIOUS
  <2> HIDE DEF at
  <2>3. p \in Amounts /\ p[var] = q[w] /\ \A v \in 0 .. MaxLoopVar : v # var => p[v] = q[v]
    BY <1>4, <2>1 DEF Amounts
  <2>4. ASSUME NEW l \in DOMAIN lv
        PROVE  p[lv[l].var] < lv[l].extent
    <3> HIDE DEF p
    <3>1. levels[l] \in Range(levels) /\ levels[l] = IF l = n THEN Level(w, ext) ELSE lv[l]
      BY <1>1, <1>2 DEF Range
    <3> HIDE DEF levels
    <3>2. CASE l = n
      BY <1>2, <2>1, <2>3, <3>1, <3>2
    <3>3. CASE l # n
      <4>1. lv[l].var \in 0 .. MaxLoopVar /\ lv[l].var # var
        BY <1>1, <1>6, <3>3
      <4> QED
        BY <2>1, <2>3, <3>1, <3>3, <4>1
    <3> QED
      BY <3>2, <3>3
  <2>5. p \in Points(lv)
    BY <2>3, <2>4 DEF Points, Range
  <2> QED
    BY <2>1, <2>2, <2>3, <2>5
<1>11. at \in [P -> Points(lv)]
  BY <1>10
<1> HIDE DEF at, P
<1>12. ASSUME NEW e, IndexWithin(e, LevelVars(stmt))
       PROVE  /\ \A q \in P : Address(Substitute(e, var, r), q) = Address(e, at[q])
              /\ \A q1, q2 \in P :
                    (\A v \in DOMAIN e : at[q1][v] = at[q2][v]) =>
                       \A v \in DOMAIN Substitute(e, var, r) : q1[v] = q2[v]
  <2>1. LevelVars(stmt) \subseteq 0 .. MaxLoopVar
    BY <1>1 DEF LevelVars
  <2>2. IndexWithin(e, 0 .. MaxLoopVar) /\ (w = var \/ w \notin DOMAIN e)
    BY <1>12, <2>1 DEF IndexWithin
  <2>3. ASSUME NEW q \in P
        PROVE  Address(Substitute(e, var, r), q) = Address(e, at[q])
    <3>1. /\ at[q] \in Amounts /\ q \in Amounts /\ at[q][var] = q[w]
          /\ \A v \in 0 .. MaxLoopVar : v \notin {var, w} => at[q][v] = q[v]
      BY <1>10
    <3> HIDE DEF var
    <3> QED
      BY <1>4, <2>2, <3>1, RenamedAddress
  <2>4. ASSUME NEW q1 \in P, NEW q2 \in P, \A v \in DOMAIN e : at[q1][v] = at[q2][v],
               NEW v \in DOMAIN Substitute(e, var, r)
        PROVE  q1[v] = q2[v]
    <3>1. \/ v # var /\ v \in DOMAIN e
          \/ var \in DOMAIN e /\ v \in DOMAIN r
      BY <1>3, <1>12, SubstitutedCoefficient
    <3>2. DOMAIN e \subseteq 0 .. MaxLoopVar
      BY <2>2 DEF IndexWithin
    <3> HIDE DEF var, r
    <3>3. CASE v # var /\ v \in DOMAIN e
      BY <1>10, <2>4, <3>2, <3>3
    <3>4. CASE var \in DOMAIN e /\ v \in DOMAIN r
      BY <1>3, <1>10, <2>4, <3>4
    <3> QED
      BY <3>1, <3>3, <3>4
  <2> QED
    BY <2>3, <2>4
<1>13. Sound(new, buffers)
  <2> HIDE DEF levels, var, r, ext
  <2>1. Sound(Nest(levels, SubstituteBody(stmt.body, var, r)), buffers)
    BY <1>3, <1>9, <1>11, <1>12, SubstitutedSound DEF P
  <2> QED
    BY <2>1
<1> QED
  BY <1>5, <1>8, <1>13

\* A nest of which the first n loops have got shared variables.
Shared(stmt, first, n) ==
  Nest([l \in DOMAIN stmt.levels |->
          IF l <= n THEN Level(first + l - 1, stmt.levels[l].extent) ELSE stmt.levels[l]],
       Substitutions(stmt, first)[n])

\* keeps it closed and sound, loop after loop.
LEMMA SharedKeeps ==
  ASSUME NEW stmt, Closed(stmt), NEW first \in Nat,
         first + Len(stmt.levels) - 1 <= MaxLoopVar,
         Len(stmt.levels) = 1 \/ \A v \in LevelVars(stmt) : v < first,
         NEW buffers, Sound(stmt, buffers)
  PROVE  LET new == Nest([l \in DOMAIN stmt.levels |->
                            Level(first + l - 1, stmt.levels[l].extent)],
                         OverShared(stmt, first))
         IN  Closed(new) /\ Sound(new, buffers)
<1> DEFINE lv == stmt.levels
           N == Len(lv)
           sh(n) == Shared(stmt, first, n)
           S == {n \in Nat : n <= N => Closed(sh(n)) /\ Sound(sh(n), buffers)}
<1>1. /\ IsList(lv) /\ N \in Nat /\ DOMAIN lv = 1 .. N
      /\ \A l \in DOMAIN lv : lv[l].var \in 0 .. MaxLoopVar
      /\ \A l, m \in DOMAIN lv : lv[l].var = lv[m].var => l = m
      /\ MaxLoopVar \in Nat
  BY Lists, LoopAssumption DEF Closed, LevelsApart
<1>2. \A n : /\ sh(n).levels = [l \in 1 .. N |-> IF l <= n THEN Level(first + l - 1, lv[l].extent)
                                                      ELSE lv[l]]
             /\ sh(n).body = Substitutions(stmt, first)[n]
  BY <1>1 DEF Shared, Nest
<1>3. Substitutions(stmt, first) =
        [n \in 0 .. N |->
           IF n = 0 THEN stmt.body
           ELSE SubstituteBody(Substitutions(stmt, first)[n - 1], lv[n].var,
                               Term(first + n - 1, 1))]
  BY <1>1, SubstitutionsDef
<1>4. 0 \in S
  <2>1. sh(0).levels = lv
    <3>1. sh(0).levels = [l \in 1 .. N |-> lv[l]]
      BY <1>1, <1>2
    <3> QED
      BY <1>1, <3>1 DEF IsList
  <2>2. sh(0).body = stmt.body
    <3>1. Substitutions(stmt, first)[0] = stmt.body
      BY <1>1, SubstitutionsDef
    <3> QED
      BY <1>2, <3>1
  <2>3. LevelVars(sh(0)) = LevelVars(stmt)
    BY <2>1 DEF LevelVars
  <2> HIDE DEF sh
  <2>4. Closed(sh(0))
    BY <2>1, <2>2, <2>3 DEF Closed
  <2>5. Sound(sh(0), buffers)
    BY <2>1, <2>2 DEF Sound, InBuffers, PlacesApart, OneIndexEach, References
  <2> QED
    BY <2>4, <2>5
<1>5. ASSUME NEW n \in Nat, n \in S
      PROVE  n + 1 \in S
  <2> SUFFICES ASSUME n + 1 <= N
               PROVE  Closed(sh(n + 1)) /\ Sound(sh(n + 1), buffers)
    OBVIOUS
  <2> DEFINE old == sh(n)
             w == first + n
  <2>1. /\ n + 1 \in 1 .. N /\ n <= N /\ n \in 0 .. N /\ n + 1 \in 0 .. N
        /\ n + 1 # 0 /\ (n + 1) - 1 = n /\ first + (n + 1) - 1 = w
        /\ w \in 0 .. MaxLoopVar
    BY <1>1
  <2>2. Closed(old) /\ Sound(old, buffers)
    BY <1>5, <2>1
  <2>3. old.levels = [l \in 1 .. N |-> IF l <= n THEN Level(first + l - 1, lv[l].extent)
                                                ELSE lv[l]]
    BY <1>2
  <2> HIDE DEF sh, old, S
  <2>4. n + 1 \in DOMAIN old.levels /\ old.levels[n + 1] = lv[n + 1]
    BY <2>1, <2>3
  <2>5. w = lv[n + 1].var \/ w \notin LevelVars(old)
    <3>1. SUFFICES ASSUME w # lv[n + 1].var, NEW l \in 1 .. N, w = old.levels[l].var
                   PROVE  FALSE
      BY <2>3 DEF LevelVars
    <3>2. CASE l <= n
      <4>1. old.levels[l].var = first + l - 1
        BY <2>3, <3>2 DEF Level
      <4> QED
        BY <2>1, <3>1, <3>2, <4>1
    <3>3. CASE l > n
      <4>1. w = lv[l].var
        BY <2>1, <2>3, <3>1, <3>3
      <4>2. CASE N = 1
        <5>1. l = n + 1
          BY <2>1, <3>3, <4>2
        <5> QED
          BY <3>1, <4>1, <5>1
      <4>3. CASE \A v \in LevelVars(stmt) : v < first
        <5>1. lv[l].var \in LevelVars(stmt)
          BY <1>1 DEF LevelVars
        <5>2. w < first
          BY <4>1, <4>3, <5>1
        <5> QED
          BY <2>1, <5>2
      <4> QED
        BY <4>2, <4>3
    <3> QED
      BY <2>1, <3>2, <3>3
  <2>6. Closed(Renamed(old, n + 1, w)) /\ Sound(Renamed(old, n + 1, w), buffers)
    <3> HIDE DEF w
    <3> QED
      BY <2>1, <2>2, <2>4, <2>5, RenamedKeeps
  <2>7. Renamed(old, n + 1, w) = sh(n + 1)
    <3> DEFINE levels == [l \in 1 .. N |-> IF l <= n + 1 THEN Level(first + l - 1, lv[l].extent)
                                                        ELSE lv[l]]
    <3>1. sh(n + 1) = Nest(levels, Substitutions(stmt, first)[n + 1])
      BY <1>1 DEF sh, Shared
    <3>2. Substitutions(stmt, first)[n + 1]
            = SubstituteBody(old.body, lv[n + 1].var, Term(w, 1))
      <4> DEFINE f == Substitutions(stmt, first)
      <4>1. old.body = f[n]
        BY <1>2 DEF old
      <4>2. f = [k \in 0 .. N |->
                   IF k = 0 THEN stmt.body
                   ELSE SubstituteBody(f[k - 1], lv[k].var, Term(first + k - 1, 1))]
        BY <1>3
      <4> HIDE DEF f
      <4>3. f[n + 1] = SubstituteBody(f[(n + 1) - 1], lv[n + 1].var,
                                      Term(first + (n + 1) - 1, 1))
        BY <2>1, <4>2
      <4>4. f[n + 1] = SubstituteBody(f[n], lv[n + 1].var, Term(w, 1))
        BY <2>1, <4>3
      <4> QED
        BY <4>1, <4>4 DEF f
    <3>3. [old.levels EXCEPT ![n + 1] = Level(w, old.levels[n + 1].extent)] = levels
      <4> DEFINE put == Level(w, lv[n + 1].extent)
      <4>1. [old.levels EXCEPT ![n + 1] = put]
              = [l \in 1 .. N |-> IF l = n + 1 THEN put ELSE old.levels[l]]
        BY <2>3
      <4>2. ASSUME NEW l \in 1 .. N
            PROVE  (IF l = n + 1 THEN put ELSE old.levels[l])
                     = IF l <= n + 1 THEN Level(first + l - 1, lv[l].extent) ELSE lv[l]
        <5>1. CASE l = n + 1
          BY <2>1, <5>1
        <5>2. CASE l # n + 1
          <6> HIDE DEF put
          <6>1. old.levels[l] = IF l <= n THEN Level(first + l - 1, lv[l].extent) ELSE lv[l]
            BY <2>3
          <6>2. l <= n <=> l <= n + 1
            BY <5>2
          <6> QED
            BY <5>2, <6>1, <6>2
        <5> QED
          BY <5>1, <5>2
      <4> HIDE DEF put
      <4> QED
        BY <2>4, <4>1, <4>2 DEF put
    <3> HIDE DEF levels
    <3> QED
      BY <2>4, <3>1, <3>2, <3>3 DEF Renamed
  <2> QED
    BY <2>6, <2>7
<1>6. N \in S
  <2> HIDE DEF S
  <2> QED
    BY <1>1, <1>4, <1>5, SetInduction
<1>7. sh(N) = Nest([l \in DOMAIN lv |-> Level(first + l - 1, lv[l].extent)],
                   OverShared(stmt, first))
  <2>1. [l \in DOMAIN lv |-> IF l <= N THEN Level(first + l - 1, lv[l].extent) ELSE lv[l]]
          = [l \in DOMAIN lv |-> Level(first + l - 1, lv[l].extent)]
    BY <1>1
  <2> QED
    BY <2>1 DEF Shared, OverShared
<1> HIDE DEF sh
<1> QED
  BY <1>1, <1>6, <1>7

\* What two bodies refer to together.
LEMMA ConcatRefs ==
  ASSUME NEW a, IsList(a), NEW b, IsList(b), NEW levels
  PROVE  /\ Writes(a \o b) = Writes(a) \cup Writes(b)
         /\ Reads(a \o b) = Reads(a) \cup Reads(b)
<1> DEFINE c == a \o b
<1>1. /\ Len(a) \in Nat /\ DOMAIN a = 1 .. Len(a)
      /\ Len(b) \in Nat /\ DOMAIN b = 1 .. Len(b)
      /\ IsList(c) /\ Len(c) = Len(a) + Len(b)
      /\ \A i \in 1 .. Len(a) : c[i] = a[i]
      /\ \A i \in 1 .. Len(b) : c[Len(a) + i] = b[i]
  BY Lists, ConcatLists
<1>2. ASSUME NEW i \in DOMAIN c
      PROVE  (\E j \in DOMAIN a : c[i] = a[j]) \/ (\E j \in DOMAIN b : c[i] = b[j])
  BY ConcatElements
<1> HIDE DEF c
<1>3. DOMAIN c = 1 .. Len(a) + Len(b)
  BY <1>1, Lists
<1>4. \A j \in DOMAIN a : \E i \in DOMAIN c : c[i] = a[j]
  BY <1>1, <1>3
<1>5. \A j \in DOMAIN b : \E i \in DOMAIN c : c[i] = b[j]
  <2> SUFFICES ASSUME NEW j \in DOMAIN b
               PROVE  \E i \in DOMAIN c : c[i] = b[j]
    OBVIOUS
  <2>1. Len(a) + j \in DOMAIN c
    BY <1>1, <1>3
  <2> QED
    BY <1>1, <2>1
<1>6. Writes(c) = Writes(a) \cup Writes(b)
  <2>1. ASSUME NEW t \in Writes(c)
        PROVE  t \in Writes(a) \cup Writes(b)
    BY <1>2, <2>1 DEF Writes
  <2>2. ASSUME NEW t \in Writes(a) \cup Writes(b)
        PROVE  t \in Writes(c)
    BY <1>4, <1>5, <2>2, SMTT(30) DEF Writes
  <2> QED
    BY <2>1, <2>2
<1>7. Reads(c) = Reads(a) \cup Reads(b)
  <2>1. ASSUME NEW t \in Reads(c)
        PROVE  t \in Reads(a) \cup Reads(b)
    <3>1. PICK i \in DOMAIN c : t \in Range(c[i].loads)
      BY <2>1 DEF Reads
    <3> QED
      BY <1>2, <3>1 DEF Reads
  <2>2. ASSUME NEW t \in Reads(a)
        PROVE  t \in Reads(c)
    <3>1. PICK i \in DOMAIN a : t \in Range(a[i].loads)
      BY <2>2 DEF Reads
    <3>2. PICK k \in DOMAIN c : c[k] = a[i]
      BY <1>4
    <3> QED
      BY <3>1, <3>2 DEF Reads
  <2>3. ASSUME NEW t \in Reads(b)
        PROVE  t \in Reads(c)
    <3>1. PICK i \in DOMAIN b : t \in Range(b[i].loads)
      BY <2>3 DEF Reads
    <3>2. PICK k \in DOMAIN c : c[k] = b[i]
      BY <1>5
    <3> QED
      BY <3>1, <3>2 DEF Reads
  <2> QED
    BY <2>1, <2>2, <2>3
<1> QED
  BY <1>6, <1>7 DEF c

\* Two sound nests over the same loops make one, if the bodies may be fused.
LEMMA TogetherSound ==
  ASSUME NEW levels, NEW a, NEW b, IsList(a), IsList(b), NEW buffers,
         Sound(Nest(levels, a), buffers), Sound(Nest(levels, b), buffers),
         BodiesMayFuse(a, b)
  PROVE  Sound(Nest(levels, a \o b), buffers)
<1> DEFINE both == Nest(levels, a \o b)
           A == Nest(levels, a)
           B == Nest(levels, b)
<1>1. /\ A.levels = levels /\ A.body = a /\ B.levels = levels /\ B.body = b
      /\ both.levels = levels /\ both.body = a \o b
  BY DEF Nest
<1> HIDE DEF both, A, B
<1>2. /\ Writes(both.body) = Writes(a) \cup Writes(b)
      /\ References(both) = References(A) \cup References(B)
      /\ References(A) = Reads(a) \cup Writes(a)
      /\ References(B) = Reads(b) \cup Writes(b)
  BY <1>1, ConcatRefs DEF References
<1>3. Sound(A, buffers) /\ Sound(B, buffers)
  BY DEF A, B
<1>4. Sized(levels) /\ InBuffers(both, buffers) /\ PlacesApart(both, buffers)
  <2>1. Sized(levels)
    BY <1>1, <1>3 DEF Sound
  <2>2. InBuffers(both, buffers)
    BY <1>1, <1>2, <1>3 DEF Sound, InBuffers
  <2>3. PlacesApart(both, buffers)
    <3>1. PlacesApart(A, buffers) /\ PlacesApart(B, buffers)
      BY <1>3 DEF Sound
    <3> SUFFICES ASSUME NEW t \in Writes(both.body), Fits(buffers, t),
                        NEW p \in Points(levels), NEW q \in Points(levels),
                        Address(t.index, p) = Address(t.index, q)
                 PROVE  \A v \in DOMAIN t.index : p[v] = q[v]
      BY <1>1 DEF PlacesApart
    <3>2. CASE t \in Writes(a)
      BY <1>1, <3>1, <3>2 DEF PlacesApart
    <3>3. CASE t \in Writes(b)
      BY <1>1, <3>1, <3>3 DEF PlacesApart
    <3> QED
      BY <1>2, <3>2, <3>3
  <2> QED
    BY <2>1, <2>2, <2>3
<1>5. OneIndexEach(both)
  <2> SUFFICES ASSUME NEW t \in Writes(both.body), NEW ref \in References(both),
                      ref.buffer = t.buffer
               PROVE  ref.index = t.index
    BY DEF OneIndexEach
  <2>1. OneIndexEach(A) /\ OneIndexEach(B)
    BY <1>3 DEF Sound
  <2>2. CASE t \in Writes(a) /\ ref \in References(A)
    BY <1>1, <2>1, <2>2 DEF OneIndexEach
  <2>3. CASE t \in Writes(b) /\ ref \in References(B)
    BY <1>1, <2>1, <2>3 DEF OneIndexEach
  <2>4. CASE t \in Writes(b) /\ ref \in References(A)
    <3>1. t.buffer \in BuffersOf(Writes(b))
      BY <2>4 DEF BuffersOf
    <3>2. t.buffer \in BuffersOf(Reads(a)) \/ t.buffer \in BuffersOf(Writes(a))
      BY <1>2, <2>4 DEF BuffersOf
    <3> QED
      BY <3>1, <3>2 DEF BodiesMayFuse
  <2>5. CASE t \in Writes(a) /\ ref \in References(B)
    <3>1. t.buffer \in BuffersOf(Writes(a))
      BY <2>5 DEF BuffersOf
    <3>2. CASE ref \in Writes(b)
      <4>1. t.buffer \in BuffersOf(Writes(b))
        BY <3>2 DEF BuffersOf
      <4> QED
        BY <3>1, <4>1 DEF BodiesMayFuse
    <3>3. CASE ref \in Reads(b)
      <4>1. ReadsSettled(a, b, ref)
        BY <3>1, <3>3 DEF BodiesMayFuse
      <4>2. PICK k \in DOMAIN a : t = a[k].target
        BY <2>5 DEF Writes
      <4>3. t = ref
        BY <4>1, <4>2 DEF ReadsSettled
      <4> QED
        BY <4>3
    <3> QED
      BY <1>2, <2>5, <3>2, <3>3
  <2> QED
    BY <1>2, <2>2, <2>3, <2>4, <2>5
<1> QED
  BY <1>1, <1>4, <1>5 DEF Sound, both

\* Fusing two nests keeps them sound.
LEMMA FusedNestSound ==
  ASSUME NEW one, Closed(one), NEW other, Closed(other),
         Extents(one) = Extents(other),
         NEW first \in Nat, first + Len(one.levels) - 1 <= MaxLoopVar,
         \/ Len(one.levels) = 1
         \/ \A v \in LevelVars(one) \cup LevelVars(other) : v < first,
         BodiesMayFuse(OverShared(one, first), OverShared(other, first)),
         NEW buffers, Sound(one, buffers), Sound(other, buffers)
  PROVE  Sound(FusedNest(one, other, first), buffers)
<1> DEFINE levels == [l \in DOMAIN one.levels |-> Level(first + l - 1, one.levels[l].extent)]
           a == OverShared(one, first)
           b == OverShared(other, first)
<1>1. /\ Len(one.levels) \in Nat /\ DOMAIN one.levels = 1 .. Len(one.levels)
      /\ Len(other.levels) \in Nat /\ DOMAIN other.levels = 1 .. Len(other.levels)
  BY Lists DEF Closed, LevelsApart
<1>2. /\ DOMAIN one.levels = DOMAIN other.levels
      /\ \A l \in DOMAIN one.levels : one.levels[l].extent = other.levels[l].extent
  <2> DEFINE e == Extents(one)
             f == Extents(other)
  <2>1. /\ DOMAIN e = DOMAIN one.levels /\ \A l \in DOMAIN one.levels : e[l] = one.levels[l].extent
        /\ DOMAIN f = DOMAIN other.levels /\ \A l \in DOMAIN other.levels : f[l] = other.levels[l].extent
    BY DEF Extents
  <2>2. e = f
    OBVIOUS
  <2> HIDE DEF e, f
  <2> QED
    BY <2>1, <2>2
<1>3. Len(other.levels) = Len(one.levels)
  BY <1>1, <1>2
<1>4. levels = [l \in DOMAIN other.levels |-> Level(first + l - 1, other.levels[l].extent)]
  BY <1>2
<1>5. Closed(Nest(levels, a)) /\ Sound(Nest(levels, a), buffers)
  BY SharedKeeps
<1>6. Closed(Nest(levels, b)) /\ Sound(Nest(levels, b), buffers)
  <2>1. first + Len(other.levels) - 1 <= MaxLoopVar
    BY <1>3
  <2>2. Len(other.levels) = 1 \/ \A v \in LevelVars(other) : v < first
    BY <1>3
  <2> HIDE DEF levels
  <2> QED
    BY <1>4, <2>1, <2>2, SharedKeeps
<1> HIDE DEF levels, a, b
<1>7. IsList(a) /\ IsList(b)
  BY <1>5, <1>6 DEF Closed, BodyWithin, Nest
<1>8. Sound(Nest(levels, a \o b), buffers)
  BY <1>5, <1>6, <1>7, TogetherSound DEF a, b
<1> QED
  BY <1>8 DEF FusedNest, levels, a, b

\* Loops in another order run through the same points.
LEMMA SwappedSound ==
  ASSUME NEW stmt, Closed(stmt), NEW level,
         {level, level + 1} \subseteq DOMAIN stmt.levels,
         NEW buffers, Sound(stmt, buffers)
  PROVE  Sound(Swapped(stmt, level), buffers)
<1> DEFINE lv == stmt.levels
           to(l) == CASE l = level     -> level + 1
                      [] l = level + 1 -> level
                      [] OTHER         -> l
           s == Swapped(stmt, level)
<1>1. IsList(lv) /\ Len(lv) \in Nat /\ DOMAIN lv = 1 .. Len(lv)
  BY Lists DEF Closed, LevelsApart
<1>2. level \in 1 .. Len(lv) /\ level + 1 \in 1 .. Len(lv)
  BY <1>1
<1>3. \A l \in 1 .. Len(lv) : to(l) \in 1 .. Len(lv) /\ to(to(l)) = l
  BY <1>1, <1>2
<1>4. s.levels = [l \in 1 .. Len(lv) |-> lv[to(l)]] /\ s.body = stmt.body
  BY <1>1 DEF Swapped, Nest
<1> HIDE DEF to, s
<1>5. Range(s.levels) = Range(lv)
  BY <1>1, <1>3, <1>4, SMTT(30) DEF Range
<1>6. Points(s.levels) = Points(lv) /\ (Sized(s.levels) <=> Sized(lv))
  BY <1>5 DEF Points, Sized
<1>7. References(s) = References(stmt) /\ Writes(s.body) = Writes(stmt.body)
  BY <1>4 DEF References
<1>8. InBuffers(s, buffers)
  BY <1>6, <1>7 DEF Sound, InBuffers
<1>9. PlacesApart(s, buffers)
  BY <1>6, <1>7 DEF Sound, PlacesApart
<1>10. OneIndexEach(s)
  BY <1>7 DEF Sound, OneIndexEach
<1>11. Sound(s, buffers)
  BY <1>6, <1>8, <1>9, <1>10 DEF Sound
<1> QED
  BY <1>11 DEF s

\* The elements of two lists, one behind the other,
LEMMA ConcatRange ==
  ASSUME NEW a, IsList(a), NEW b, IsList(b)
  PROVE  IsList(a \o b) /\ Range(a \o b) = Range(a) \cup Range(b)
<1> DEFINE c == a \o b
<1>1. /\ Len(a) \in Nat /\ DOMAIN a = 1 .. Len(a)
      /\ Len(b) \in Nat /\ DOMAIN b = 1 .. Len(b)
      /\ IsList(c) /\ Len(c) = Len(a) + Len(b)
      /\ \A i \in 1 .. Len(a) : c[i] = a[i]
      /\ \A i \in 1 .. Len(b) : c[Len(a) + i] = b[i]
  BY Lists, ConcatLists
<1>2. ASSUME NEW i \in DOMAIN c
      PROVE  (\E j \in DOMAIN a : c[i] = a[j]) \/ (\E j \in DOMAIN b : c[i] = b[j])
  BY ConcatElements
<1> HIDE DEF c
<1>3. DOMAIN c = 1 .. Len(a) + Len(b)
  BY <1>1, Lists
<1>4. ASSUME NEW x \in Range(c)
      PROVE  x \in Range(a) \cup Range(b)
  BY <1>2, <1>4 DEF Range
<1>5. ASSUME NEW j \in DOMAIN a
      PROVE  a[j] \in Range(c)
  <2>1. j \in DOMAIN c /\ c[j] = a[j]
    BY <1>1, <1>3
  <2> QED
    BY <2>1 DEF Range
<1>6. ASSUME NEW j \in DOMAIN b
      PROVE  b[j] \in Range(c)
  <2>1. Len(a) + j \in DOMAIN c /\ c[Len(a) + j] = b[j]
    BY <1>1, <1>3
  <2> QED
    BY <2>1 DEF Range
<1>7. Range(c) = Range(a) \cup Range(b)
  BY <1>4, <1>5, <1>6 DEF Range
<1> QED
  BY <1>1, <1>7 DEF c

\* and of a piece of a list.
LEMMA SubListRange ==
  ASSUME NEW s, IsList(s), NEW m \in 1 .. Len(s) + 1, NEW n \in (m - 1) .. Len(s)
  PROVE  IsList(SubSeq(s, m, n)) /\ Range(SubSeq(s, m, n)) = {s[i] : i \in m .. n}
<1> DEFINE t == SubSeq(s, m, n)
<1>1. /\ IsList(t) /\ Len(t) = n - m + 1
      /\ \A i \in 1 .. n - m + 1 : t[i] = s[m + i - 1]
  BY SubList
<1>2. Len(s) \in Nat
  BY Lists
<1> HIDE DEF t
<1>3. DOMAIN t = 1 .. n - m + 1
  BY <1>1, Lists
<1>4. ASSUME NEW i \in m .. n
      PROVE  s[i] \in Range(t)
  <2>1. /\ i - m + 1 \in 1 .. n - m + 1 /\ m + (i - m + 1) - 1 = i
    BY <1>2
  <2>2. t[i - m + 1] = s[m + (i - m + 1) - 1]
    BY <1>1, <2>1
  <2> QED
    BY <1>3, <2>1, <2>2 DEF Range
<1>5. ASSUME NEW x \in Range(t)
      PROVE  x \in {s[i] : i \in m .. n}
  <2>1. PICK i \in 1 .. n - m + 1 : x = t[i]
    BY <1>3 DEF Range
  <2>2. m + i - 1 \in m .. n
    BY <1>2
  <2> QED
    BY <1>1, <2>1, <2>2
<1> QED
  BY <1>1, <1>4, <1>5 DEF t

\* A value below an extent, by tile and place in the tile.
LEMMA TileBelow ==
  ASSUME NEW size \in Nat \ {0}, NEW extent \in Nat, extent % size = 0,
         NEW x \in Nat, NEW y \in Nat, x < extent \div size, y < size
  PROVE  /\ size * x + y \in Nat /\ size * x + y < extent
         /\ x # 0 => size < extent
<1> DEFINE k == extent \div size
<1>1. k \in Nat /\ extent = size * k
  OBVIOUS
<1> HIDE DEF k
<1>2. x + 1 <= k
  BY <1>1 DEF k
<1>3. size * (x + 1) <= size * k
  BY <1>1, <1>2, MulMonotone
<1>4. size * (x + 1) = size * x + size /\ size * x \in Nat
  OBVIOUS
<1>5. x # 0 => size <= size * x
  <2>1. x # 0 => size * 1 <= size * x
    BY MulMonotone
  <2> QED
    BY <2>1
<1> DEFINE z == size * x
<1> HIDE DEF z
<1>6. z + size <= extent /\ z \in Nat /\ (x # 0 => size <= z)
  BY <1>1, <1>3, <1>4, <1>5 DEF z
<1>7. z + y \in Nat /\ z + y < extent /\ (x # 0 => size < extent)
  BY <1>6
<1> QED
  BY <1>7 DEF z

\* Tile and place are told by the value.
LEMMA TileUnique ==
  ASSUME NEW size \in Nat, NEW x1 \in Nat, NEW y1 \in Nat, NEW x2 \in Nat, NEW y2 \in Nat,
         y1 < size, y2 < size, size * x1 + y1 = size * x2 + y2
  PROVE  x1 = x2 /\ y1 = y2
<1>1. ASSUME NEW u1 \in Nat, NEW u2 \in Nat, NEW v1 \in Nat, NEW v2 \in Nat,
             v1 < size, v2 < size, size * u1 + v1 = size * u2 + v2
      PROVE  ~ (u1 < u2)
  <2> SUFFICES ASSUME u1 < u2 PROVE FALSE
    OBVIOUS
  <2>1. size * (u1 + 1) <= size * u2
    <3>1. u1 + 1 <= u2 /\ u1 + 1 \in Nat
      OBVIOUS
    <3> QED
      BY <3>1, MulMonotone
  <2>2. size * (u1 + 1) = size * u1 + size
    OBVIOUS
  <2>3. size * u1 \in Nat /\ size * u2 \in Nat
    OBVIOUS
  <2> DEFINE a == size * u1
             b == size * u2
  <2>4. a + size <= b /\ a + v1 = b + v2 /\ a \in Nat /\ b \in Nat
    BY <1>1, <2>1, <2>2, <2>3
  <2> HIDE DEF a, b
  <2> QED
    BY <1>1, <2>4
<1>2. x1 = x2
  <2>1. ~ (x1 < x2) /\ ~ (x2 < x1)
    BY <1>1
  <2> QED
    BY <2>1
<1>3. size * x1 \in Nat
  OBVIOUS
<1> QED
  BY <1>2, <1>3

\* The levels of a tiled nest.
LEMMA TiledLevels ==
  ASSUME NEW lv, IsList(lv), NEW level \in DOMAIN lv, NEW a, NEW b
  PROVE  Range((SubSeq(lv, 1, level - 1) \o <<a, b>>) \o SubSeq(lv, level + 1, Len(lv)))
           = {lv[l] : l \in DOMAIN lv \ {level}} \cup {a, b}
<1> DEFINE n == Len(lv)
           before == SubSeq(lv, 1, level - 1)
           both   == <<a, b>>
           behind == SubSeq(lv, level + 1, n)
<1>1. n \in Nat /\ DOMAIN lv = 1 .. n /\ level \in 1 .. n
  BY Lists
<1>2. IsList(before) /\ Range(before) = {lv[i] : i \in 1 .. (level - 1)}
  <2>1. 1 \in 1 .. n + 1 /\ level - 1 \in (1 - 1) .. n
    BY <1>1
  <2> QED
    BY <1>1, <2>1, SubListRange
<1>3. IsList(behind) /\ Range(behind) = {lv[i] : i \in (level + 1) .. n}
  <2>1. level + 1 \in 1 .. n + 1 /\ n \in ((level + 1) - 1) .. n
    BY <1>1
  <2> QED
    BY <1>1, <2>1, SubListRange
<1>4. IsList(both) /\ Range(both) = {a, b}
  <2>1. both = [l \in 1 .. 2 |-> both[l]] /\ both[1] = a /\ both[2] = b /\ DOMAIN both = 1 .. 2
    OBVIOUS
  <2>2. IsList(both)
    BY <2>1 DEF IsList
  <2> HIDE DEF both
  <2>3. a \in Range(both) /\ b \in Range(both)
    <3>1. 1 \in DOMAIN both /\ 2 \in DOMAIN both
      BY <2>1
    <3> QED
      BY <2>1, <3>1 DEF Range
  <2>4. \A x \in Range(both) : x = a \/ x = b
    <3> SUFFICES ASSUME NEW i \in 1 .. 2 PROVE both[i] = a \/ both[i] = b
      BY <2>1 DEF Range
    <3>1. i = 1 \/ i = 2
      OBVIOUS
    <3> QED
      BY <2>1, <3>1
  <2> QED
    BY <2>2, <2>3, <2>4
<1> HIDE DEF before, both, behind, n
<1>5. /\ IsList(before \o both)
      /\ Range(before \o both) = {lv[i] : i \in 1 .. (level - 1)} \cup {a, b}
  BY <1>2, <1>4, ConcatRange
<1>6. Range((before \o both) \o behind)
        = ({lv[i] : i \in 1 .. (level - 1)} \cup {a, b}) \cup {lv[i] : i \in (level + 1) .. n}
  BY <1>3, <1>5, ConcatRange
<1>7. DOMAIN lv \ {level} = (1 .. (level - 1)) \cup ((level + 1) .. n)
  BY <1>1
<1>8. {lv[l] : l \in DOMAIN lv \ {level}}
        = {lv[i] : i \in 1 .. (level - 1)} \cup {lv[i] : i \in (level + 1) .. n}
  BY <1>7
<1> QED
  BY <1>6, <1>8 DEF before, both, behind, n

\* Tiling keeps a nest sound.
LEMMA StripMinedSound ==
  ASSUME NEW stmt, Closed(stmt), NEW level \in DOMAIN stmt.levels, NEW size \in Nat,
         Divides(size, stmt.levels[level].extent),
         NEW first \in Nat, first + 1 <= MaxLoopVar,
         \A v \in LevelVars(stmt) : v < first,
         NEW buffers, Sound(stmt, buffers)
  PROVE  Sound(StripMined(stmt, level, size, first), buffers)
<1> DEFINE lv     == stmt.levels
           s      == StripMined(stmt, level, size, first)
           extent == lv[level].extent
           var    == lv[level].var
           outer  == Level(first, extent \div size)
           inner  == Level(first + 1, size)
           r      == TwoTerms(first, size, first + 1, 1)
           levels == s.levels
<1>1. /\ IsList(lv) /\ Len(lv) \in Nat /\ DOMAIN lv = 1 .. Len(lv)
      /\ \A l \in DOMAIN lv : lv[l].var \in 0 .. MaxLoopVar /\ lv[l].var < first
      /\ \A l, m \in DOMAIN lv : lv[l].var = lv[m].var => l = m
      /\ \A l \in DOMAIN lv : lv[l].extent \in Nat
  BY Lists DEF Closed, LevelsApart, LevelVars, Sound, Sized, Range
<1>2. /\ s = Nest(levels, SubstituteBody(stmt.body, var, r))
      /\ levels = (SubSeq(lv, 1, level - 1) \o <<outer, inner>>)
                     \o SubSeq(lv, level + 1, Len(lv))
  BY DEF StripMined, Nest
<1>3. Range(levels) = {lv[l] : l \in DOMAIN lv \ {level}} \cup {outer, inner}
  <2> HIDE DEF outer, inner, levels, lv
  <2>1. Range((SubSeq(lv, 1, level - 1) \o <<outer, inner>>)
                  \o SubSeq(lv, level + 1, Len(lv)))
          = {lv[l] : l \in DOMAIN lv \ {level}} \cup {outer, inner}
    <3>1. level \in DOMAIN lv
      BY DEF lv
    <3> QED
      BY <1>1, <3>1, TiledLevels
  <2> QED
    BY <1>2, <2>1
<1>4. /\ DOMAIN r = {first, first + 1} /\ \A x \in DOMAIN r : r[x] \in Nat
      /\ first \in 0 .. MaxLoopVar /\ first + 1 \in 0 .. MaxLoopVar
      /\ var \in 0 .. MaxLoopVar /\ var < first /\ extent \in Nat
      /\ var # first /\ var # first + 1 /\ first # first + 1
  BY <1>1, LoopAssumption DEF TwoTerms
<1>5. /\ outer.var = first /\ outer.extent = extent \div size
      /\ inner.var = first + 1 /\ inner.extent = size
  BY DEF Level
<1>6. size \in Nat \ {0} /\ extent % size = 0 /\ extent \div size \in Nat
  BY <1>4 DEF Divides
<1> HIDE DEF outer, inner, extent, var, levels, r, s
<1>7. Sized(levels)
  BY <1>1, <1>3, <1>5, <1>6 DEF Sized
<1> DEFINE P == Points(levels)
           at == [q \in P |-> [q EXCEPT ![var] = size * q[first] + q[first + 1]]]
<1>8. ASSUME NEW q \in P
      PROVE  /\ q \in Amounts /\ at[q] \in Amounts /\ at[q] \in Points(lv)
             /\ at[q][var] = size * q[first] + q[first + 1]
             /\ \A v \in 0 .. MaxLoopVar : v # var => at[q][v] = q[v]
             /\ q[first] \in Nat /\ q[first + 1] \in Nat /\ q[first + 1] < size
             /\ q[first] # 0 => size < extent
  <2> DEFINE p == [q EXCEPT ![var] = size * q[first] + q[first + 1]]
  <2>1. q \in Amounts /\ \A x \in Range(levels) : q[x.var] < x.extent
    BY DEF Points
  <2>2. q[first] \in Nat /\ q[first + 1] \in Nat
    BY <1>4, <2>1 DEF Amounts
  <2>3. q[first] < extent \div size /\ q[first + 1] < size
    BY <1>3, <1>5, <2>1
  <2>4. /\ size * q[first] + q[first + 1] \in Nat
        /\ size * q[first] + q[first + 1] < extent
        /\ q[first] # 0 => size < extent
    <3> DEFINE x == q[first]
               y == q[first + 1]
    <3>1. x \in Nat /\ y \in Nat /\ x < extent \div size /\ y < size
      BY <2>2, <2>3
    <3>2. size \in Nat \ {0} /\ extent \in Nat /\ extent % size = 0
      BY <1>4, <1>6
    <3> HIDE DEF x, y
    <3>3. /\ size * x + y \in Nat /\ size * x + y < extent
          /\ x # 0 => size < extent
      BY ONLY <3>1, <3>2, TileBelow
    <3> QED
      BY <3>3 DEF x, y
  <2>5. at[q] = p
    OBVIOUS
  <2> HIDE DEF at
  <2>6. /\ p \in Amounts /\ p[var] = size * q[first] + q[first + 1]
        /\ \A v \in 0 .. MaxLoopVar : v # var => p[v] = q[v]
    BY <1>4, <2>1, <2>4 DEF Amounts
  <2> HIDE DEF p
  <2>7. ASSUME NEW l \in DOMAIN lv
        PROVE  p[lv[l].var] < lv[l].extent
    <3>1. CASE l = level
      BY <2>4, <2>6, <3>1 DEF var, extent
    <3>2. CASE l # level
      <4>1. lv[l] \in Range(levels) /\ lv[l].var # var /\ lv[l].var \in 0 .. MaxLoopVar
        BY <1>1, <1>3, <3>2 DEF var
      <4> QED
        BY <2>1, <2>6, <4>1
    <3> QED
      BY <3>1, <3>2
  <2>8. p \in Points(lv)
    BY <2>6, <2>7 DEF Points, Range
  <2> QED
    BY <2>1, <2>2, <2>3, <2>4, <2>5, <2>6, <2>8
<1>9. at \in [P -> Points(lv)]
  BY <1>8
<1> HIDE DEF at, P
<1>10. ASSUME NEW e, IndexWithin(e, LevelVars(stmt)),
              \A p \in Points(lv) : Address(e, p) <= MaxI64, NEW q \in P
       PROVE  Address(Substitute(e, var, r), q) = Address(e, at[q])
  <2>1. IndexWithin(e, 0 .. MaxLoopVar) /\ first \notin DOMAIN e /\ first + 1 \notin DOMAIN e
    BY <1>1, <1>10 DEF IndexWithin, LevelVars
  <2>2. /\ q \in Amounts /\ at[q] \in Amounts
        /\ at[q][var] = size * q[first] + q[first + 1]
        /\ \A v \in 0 .. MaxLoopVar : v \notin {var, first, first + 1} => at[q][v] = q[v]
    BY <1>8
  <2>3. Coefficient(e, var) * size <= MaxI64 \/ q[first] = 0
    <3> SUFFICES ASSUME q[first] # 0 PROVE Coefficient(e, var) * size <= MaxI64
      OBVIOUS
    <3> DEFINE p0 == [at[q] EXCEPT ![var] = size]
    <3>1. /\ p0 \in Amounts /\ p0[var] = size
          /\ \A v \in 0 .. MaxLoopVar : v # var => p0[v] = at[q][v]
      BY <1>4, <1>8 DEF Amounts
    <3>2. size < extent /\ \A x \in Range(lv) : at[q][x.var] < x.extent
      BY <1>8 DEF Points
    <3> HIDE DEF p0
    <3>3. ASSUME NEW l \in DOMAIN lv
          PROVE  p0[lv[l].var] < lv[l].extent
      <4>1. lv[l] \in Range(lv)
        BY DEF Range
      <4>2. CASE l = level
        BY <3>1, <3>2, <4>2 DEF var, extent
      <4>3. CASE l # level
        BY <1>1, <3>1, <3>2, <4>1, <4>3 DEF var
      <4> QED
        BY <4>2, <4>3
    <3>4. p0 \in Points(lv)
      BY <3>1, <3>3 DEF Points, Range
    <3>5. Contributions(e, p0) \in Amounts /\ Contributions(e, p0)[var] = Coefficient(e, var) * size
      BY <1>4, <2>1, <3>1, ContributionsAreAmounts
    <3>6. /\ Address(e, p0) \in Nat
          /\ Coefficient(e, var) * size <= Address(e, p0)
      BY <1>4, <3>5, TermInTotal DEF Address
    <3>7. Address(e, p0) <= MaxI64 /\ MaxI64 \in Nat
      BY <1>10, <3>4, LoopAssumption
    <3>8. Coefficient(e, var) * size \in Nat
      BY <2>1, CoefficientsAreNat, LoopAssumption
    <3> DEFINE c == Coefficient(e, var) * size
               A == Address(e, p0)
    <3> HIDE DEF c, A
    <3>9. c <= A /\ A <= MaxI64 /\ c \in Nat /\ A \in Nat
      BY <3>6, <3>7, <3>8 DEF c, A
    <3>10. c <= MaxI64
      BY <3>7, <3>9
    <3> QED
      BY <3>10 DEF c
  <2> DEFINE p == at[q]
             second == first + 1
  <2>4. /\ q \in Amounts /\ p \in Amounts
        /\ p[var] = size * q[first] + q[second]
        /\ \A v \in 0 .. MaxLoopVar : v \notin {var, first, second} => p[v] = q[v]
        /\ first # second /\ first # var /\ second # var
        /\ first \notin DOMAIN e /\ second \notin DOMAIN e
        /\ var \in 0 .. MaxLoopVar /\ first \in 0 .. MaxLoopVar /\ second \in 0 .. MaxLoopVar
    BY <1>4, <2>1, <2>2
  <2> HIDE DEF p, second
  <2>5. Address(Substitute(e, var, TwoTerms(first, size, second, 1)), q) = Address(e, p)
    BY <2>1, <2>3, <2>4, SplitAddress
  <2> QED
    BY <2>5 DEF r, p, second
<1>11. ASSUME NEW e, IndexWithin(e, LevelVars(stmt)), NEW q1 \in P, NEW q2 \in P,
              \A v \in DOMAIN e : at[q1][v] = at[q2][v],
              NEW v \in DOMAIN Substitute(e, var, r)
       PROVE  q1[v] = q2[v]
  <2>1. \/ v # var /\ v \in DOMAIN e
        \/ var \in DOMAIN e /\ v \in {first, first + 1}
    BY <1>4, <1>11, SubstitutedCoefficient
  <2>2. DOMAIN e \subseteq 0 .. MaxLoopVar
    BY <1>1, <1>11 DEF IndexWithin, LevelVars
  <2>3. CASE v # var /\ v \in DOMAIN e
    BY <1>8, <1>11, <2>2, <2>3
  <2>4. CASE var \in DOMAIN e /\ v \in {first, first + 1}
    <3>1. size * q1[first] + q1[first + 1] = size * q2[first] + q2[first + 1]
      BY <1>8, <1>11, <2>4
    <3>2. q1[first] = q2[first] /\ q1[first + 1] = q2[first + 1]
      BY <1>8, <3>1, TileUnique
    <3> QED
      BY <2>4, <3>2
  <2> QED
    BY <2>1, <2>3, <2>4
<1>12. Sound(Nest(levels, SubstituteBody(stmt.body, var, r)), buffers)
  <2>1. \A e : IndexWithin(e, LevelVars(stmt)) =>
           /\ (\A p \in Points(stmt.levels) : Address(e, p) <= MaxI64) =>
                \A q \in Points(levels) :
                   Address(Substitute(e, var, r), q) = Address(e, at[q])
           /\ \A q1, q2 \in Points(levels) :
                 (\A v \in DOMAIN e : at[q1][v] = at[q2][v]) =>
                    \A v \in DOMAIN Substitute(e, var, r) : q1[v] = q2[v]
    BY <1>10, <1>11 DEF P
  <2>2. at \in [Points(levels) -> Points(stmt.levels)]
    BY <1>9 DEF P
  <2> HIDE DEF lv
  <2> QED
    BY <1>7, <2>1, <2>2, SubstitutedSound
<1> QED
  BY <1>2, <1>12 DEF s

\* All nests of a kernel.
AllSound(body, buffers) == \A n \in DOMAIN body : Sound(body[n], buffers)

\* The inductive invariant of the independence of iterations.
KernelSound ==
  "buffers" \in DOMAIN kernel /\ AllSound(kernel.body, kernel.buffers)

\* Together with the closed indices it is inductive.
SoundInv == IInv /\ KernelSound

\* A move that puts a sound nest for one leaves the kernel sound.
LEMMA WithNestSound ==
  ASSUME SoundInv, NEW nest \in DOMAIN kernel.body, NEW stmt,
         Sound(stmt, kernel.buffers), kernel' = WithNest(kernel, nest, stmt)
  PROVE  KernelSound'
<1> DEFINE body == [kernel.body EXCEPT ![nest] = stmt]
<1>1. kernel' = [kernel EXCEPT !.body = body]
  BY DEF WithNest
<1>2. /\ DOMAIN body = DOMAIN kernel.body
      /\ \A n \in DOMAIN body : body[n] = IF n = nest THEN stmt ELSE kernel.body[n]
  BY DEF SoundInv, KernelSound, IInv, AllClosed, IsList
<1> HIDE DEF body
<1>3. /\ DOMAIN kernel' = DOMAIN kernel /\ kernel'.body = body
      /\ kernel'.buffers = kernel.buffers
  BY <1>1 DEF SoundInv, KernelSound, IInv
<1>4. AllSound(body, kernel.buffers)
  <2> SUFFICES ASSUME NEW n \in DOMAIN body PROVE Sound(body[n], kernel.buffers)
    BY DEF AllSound
  <2>1. CASE n = nest
    BY <1>2, <2>1
  <2>2. CASE n # nest
    BY <1>2, <2>2 DEF SoundInv, KernelSound, AllSound
  <2> QED
    BY <2>1, <2>2
<1> QED
  BY <1>3, <1>4 DEF SoundInv, KernelSound

\* Lists of sound nests, one behind the other.
LEMMA SoundConcat ==
  ASSUME NEW a, NEW b, IsList(a), IsList(b), NEW buffers,
         AllSound(a, buffers), AllSound(b, buffers)
  PROVE  AllSound(a \o b, buffers)
<1> DEFINE c == a \o b
<1>1. ASSUME NEW i \in DOMAIN c
      PROVE  Sound(c[i], buffers)
  <2>1. (\E j \in DOMAIN a : c[i] = a[j]) \/ (\E j \in DOMAIN b : c[i] = b[j])
    BY ConcatElements
  <2> HIDE DEF c
  <2> QED
    BY <2>1 DEF AllSound
<1> HIDE DEF c
<1>2. AllSound(c, buffers)
  BY <1>1 DEF AllSound
<1> QED
  BY <1>2 DEF c

\* A fusion leaves the kernel sound.
LEMMA FusedSound ==
  ASSUME SoundInv, NEW nest, MayFuse(kernel, nest), kernel' = Fused(kernel, nest)
  PROVE  KernelSound'
<1> DEFINE old   == kernel.body
           n     == Len(old)
           first == FirstFresh(kernel)
           new   == FusedNest(old[nest], old[nest + 1], first)
           before == SubSeq(old, 1, nest - 1)
           behind == SubSeq(old, nest + 2, n)
           body == (before \o <<new>>) \o behind
           buffers == kernel.buffers
<1>1. /\ IsList(old) /\ n \in Nat /\ DOMAIN old = 1 .. n
      /\ \A i \in 1 .. n : Closed(old[i]) /\ Sound(old[i], buffers)
  BY Lists DEF SoundInv, KernelSound, IInv, AllClosed, AllSound
<1>2. nest \in 1 .. n /\ nest + 1 \in 1 .. n /\ old[nest].levels # << >>
  BY <1>1 DEF MayFuse, IsNest
<1>3. kernel' = [kernel EXCEPT !.body = body]
  BY DEF Fused
<1>4. Sound(new, buffers)
  <2> DEFINE one == old[nest]
             other == old[nest + 1]
             N == Len(one.levels)
  <2>1. /\ first \in 0 .. MaxLoopVar
        /\ first < MaxLoopVar => \A v \in UsedVars(kernel) : v < first
        /\ LevelVars(one) \subseteq UsedVars(kernel)
        /\ LevelVars(other) \subseteq UsedVars(kernel)
    BY <1>1, <1>2, FirstFreshIsFresh, VarsInUse DEF SoundInv, KernelSound, IInv
  <2>2. /\ Extents(one) = Extents(other) /\ first + N - 1 <= MaxLoopVar
        /\ BodiesMayFuse(OverShared(one, first), OverShared(other, first))
    BY DEF MayFuse, CanFresh
  <2>3. N \in Nat \ {0}
    <3>1. IsList(one.levels)
      BY <1>1, <1>2 DEF Closed, LevelsApart
    <3>2. N \in Nat
      BY <3>1, Lists
    <3>3. N = 0 => one.levels = << >>
      BY <3>1, Lists DEF IsList
    <3> QED
      BY <1>2, <3>2, <3>3
  <2>4. /\ Closed(one) /\ Closed(other) /\ Sound(one, buffers) /\ Sound(other, buffers)
    BY <1>1, <1>2
  <2> HIDE DEF first, one, other, buffers
  <2>5. N = 1 \/ \A v \in LevelVars(one) \cup LevelVars(other) : v < first
    <3>1. N = 1 \/ N >= 2
      <4> HIDE DEF N
      <4> QED
        BY <2>3
    <3>2. N >= 2 => first < MaxLoopVar
      BY <2>1, <2>2, <2>3, LoopAssumption
    <3> HIDE DEF N
    <3> QED
      BY <2>1, <3>1, <3>2
  <2>6. first \in Nat
    BY <2>1, LoopAssumption
  <2>7. Sound(FusedNest(one, other, first), buffers)
    BY <2>2, <2>4, <2>5, <2>6, FusedNestSound
  <2> QED
    BY <2>7 DEF one, other
<1>5. /\ IsList(before) /\ AllSound(before, buffers)
      /\ IsList(behind) /\ AllSound(behind, buffers)
  <2>1. 1 \in 1 .. n + 1 /\ nest - 1 \in (1 - 1) .. n
    BY <1>1, <1>2
  <2>2. nest + 2 \in 1 .. n + 1 /\ n \in ((nest + 2) - 1) .. n
    BY <1>1, <1>2
  <2>3. ASSUME NEW i \in 1 .. n + 1, NEW j \in (i - 1) .. n
        PROVE  IsList(SubSeq(old, i, j)) /\ AllSound(SubSeq(old, i, j), buffers)
    <3> DEFINE s == SubSeq(old, i, j)
    <3>1. IsList(s) /\ Range(s) = {old[m] : m \in i .. j}
      BY <1>1, SubListRange
    <3> HIDE DEF s
    <3>2. i .. j \subseteq 1 .. n
      BY <1>1
    <3>3. ASSUME NEW m \in DOMAIN s PROVE Sound(s[m], buffers)
      <4>1. s[m] \in Range(s)
        BY DEF Range
      <4> QED
        BY <1>1, <3>1, <3>2, <4>1
    <3> QED
      BY <3>1, <3>3 DEF AllSound, s
  <2> QED
    BY <2>1, <2>2, <2>3
<1>6. IsList(<<new>>) /\ AllSound(<<new>>, buffers)
  <2> HIDE DEF new
  <2>1. <<new>> = [i \in 1 .. 1 |-> <<new>>[i]] /\ <<new>>[1] = new
    OBVIOUS
  <2>2. IsList(<<new>>) /\ DOMAIN <<new>> = 1 .. 1
    BY <2>1 DEF IsList
  <2> QED
    BY <1>4, <2>1, <2>2 DEF AllSound
<1>7. AllSound(body, buffers)
  <2> HIDE DEF before, behind, new, buffers
  <2>1. IsList(before \o <<new>>) /\ AllSound(before \o <<new>>, buffers)
    BY <1>5, <1>6, SoundConcat, ConcatLists
  <2> QED
    BY <1>5, <2>1, SoundConcat
<1> HIDE DEF body
<1>8. DOMAIN kernel' = DOMAIN kernel /\ kernel'.body = body /\ kernel'.buffers = buffers
  BY <1>3 DEF SoundInv, KernelSound, IInv
<1> QED
  BY <1>7, <1>8 DEF SoundInv, KernelSound

\* Every move leaves the kernel sound.
LEMMA StepSound == SoundInv /\ [Next]_vars => SoundInv'
<1> SUFFICES ASSUME SoundInv, [Next]_vars
             PROVE  SoundInv'
  OBVIOUS
<1>1. \A n \in DOMAIN kernel.body : Closed(kernel.body[n]) /\ Sound(kernel.body[n], kernel.buffers)
  BY DEF SoundInv, KernelSound, IInv, AllClosed, AllSound
<1>2. IInv'
  BY StepIInv DEF SoundInv
<1>3. ASSUME NEW nest \in DOMAIN kernel.body,
             NEW level \in DOMAIN kernel.body[nest].levels,
             Interchange(nest, level)
      PROVE  KernelSound'
  <2>1. Sound(Swapped(kernel.body[nest], level), kernel.buffers)
    BY <1>1, <1>3, SwappedSound DEF Interchange, MayInterchange
  <2> QED
    BY <1>3, <2>1, WithNestSound DEF Interchange, Interchanged
<1>4. ASSUME NEW nest \in DOMAIN kernel.body,
             NEW level \in DOMAIN kernel.body[nest].levels,
             NEW size \in TileSizes, Tile(nest, level, size)
      PROVE  KernelSound'
  <2> DEFINE first == FirstFresh(kernel)
             stmt  == kernel.body[nest]
  <2>1. /\ first \in 0 .. MaxLoopVar
        /\ first < MaxLoopVar => \A v \in UsedVars(kernel) : v < first
        /\ LevelVars(stmt) \subseteq UsedVars(kernel)
    BY FirstFreshIsFresh, VarsInUse DEF SoundInv, KernelSound, IInv
  <2>2. CanFresh(first, 2) /\ Divides(size, stmt.levels[level].extent)
    BY <1>4 DEF Tile, MayTile
  <2> HIDE DEF first
  <2>3. /\ first \in Nat /\ first + 1 <= MaxLoopVar
        /\ \A v \in LevelVars(stmt) : v < first
    BY <2>1, <2>2, LoopAssumption DEF CanFresh
  <2>4. size \in Nat
    BY ScheduleAssumption
  <2>5. Sound(StripMined(stmt, level, size, first), kernel.buffers)
    BY <1>1, <2>2, <2>3, <2>4, StripMinedSound
  <2> QED
    BY <1>4, <2>5, WithNestSound DEF Tile, Tiled, first
<1>5. ASSUME NEW nest \in DOMAIN kernel.body, Fuse(nest)
      PROVE  KernelSound'
  BY <1>5, FusedSound DEF Fuse
<1>6. ASSUME UNCHANGED vars
      PROVE  KernelSound'
  <2>1. kernel' = kernel
    BY <1>6 DEF vars
  <2> QED
    BY <2>1 DEF SoundInv, KernelSound
<1>7. KernelSound'
  <2>1. CASE Next
    BY <1>3, <1>4, <1>5, <2>1 DEF Next
  <2> QED
    BY <1>6, <2>1
<1> QED
  BY <1>2, <1>7 DEF SoundInv

\* The vectors of n loops from those of one loop less.
Lengthened(levels, n, old) == {Append(v, x) : v \in old, x \in 0 .. (levels[n].extent - 1)}

\* The vectors of the first loops.
LEMMA VectorsDef ==
  ASSUME NEW levels, Len(levels) \in Nat
  PROVE  LET s == VectorsOf(levels)
         IN  s = [n \in 0 .. Len(levels) |->
                    IF n = 0 THEN {<< >>}
                    ELSE Lengthened(levels, n, s[n - 1])]
<1> DEFINE N == Len(levels)
           next(n, old) == Lengthened(levels, n, old)
           Upto(m, g) == g = [n \in 0 .. m |-> IF n = 0 THEN {<< >>} ELSE next(n, g[n - 1])]
           S == {m \in Nat : \E g : Upto(m, g)}
<1>0. N \in Nat
  OBVIOUS
<1>1. VectorsOf(levels) = CHOOSE g : Upto(N, g)
  BY DEF VectorsOf, Lengthened
<1> HIDE DEF next
<1>2. 0 \in S
  <2> DEFINE g == [n \in 0 .. 0 |-> {<< >>}]
  <2>1. Upto(0, g)
    OBVIOUS
  <2> QED
    BY <2>1
<1>3. ASSUME NEW m \in Nat, m \in S
      PROVE  m + 1 \in S
  <2>1. PICK g : Upto(m, g)
    BY <1>3
  <2> DEFINE h == [n \in 0 .. (m + 1) |-> IF n = m + 1 THEN next(n, g[m]) ELSE g[n]]
  <2>2. ASSUME NEW n \in 0 .. (m + 1)
        PROVE  h[n] = IF n = 0 THEN {<< >>} ELSE next(n, h[n - 1])
    <3>1. CASE n = 0
      BY <2>1, <3>1
    <3>2. CASE n = m + 1
      BY <3>2
    <3>3. CASE n # 0 /\ n # m + 1
      <4>1. n \in 0 .. m /\ n - 1 \in 0 .. m
        BY <3>3
      <4>2. h[n] = g[n] /\ h[n - 1] = g[n - 1]
        BY <4>1, <3>3
      <4>3. g[n] = next(n, g[n - 1])
        BY <2>1, <4>1, <3>3
      <4> QED
        BY <4>2, <4>3, <3>3
    <3> QED
      BY <3>1, <3>2, <3>3
  <2>3. Upto(m + 1, h)
    <3> HIDE DEF h
    <3>1. h = [n \in 0 .. (m + 1) |-> h[n]]
      BY DEF h
    <3> QED
      BY <2>2, <3>1
  <2> HIDE DEF Upto, h
  <2> QED
    BY <2>3
<1>4. N \in S
  <2> HIDE DEF N, S
  <2> QED
    BY <1>0, <1>2, <1>3, SetInduction
<1>5. Upto(N, VectorsOf(levels))
  <2> HIDE DEF Upto
  <2>1. \E g : Upto(N, g)
    BY <1>4
  <2> QED
    BY <1>1, <2>1
<1> QED
  BY <1>5 DEF next

\* Each loop counts from zero to its extent.
LEMMA VectorsBelow ==
  ASSUME NEW levels, IsList(levels), NEW v \in Vectors(levels)
  PROVE  \A k \in DOMAIN levels : v[k] \in 0 .. (levels[k].extent - 1)
<1> DEFINE s == VectorsOf(levels)
           N == Len(levels)
           Run(w, n) == /\ IsList(w) /\ Len(w) = n
                        /\ \A k \in 1 .. n : w[k] \in 0 .. (levels[k].extent - 1)
           S == {n \in Nat : n <= N => \A w \in s[n] : Run(w, n)}
<1>1. N \in Nat /\ DOMAIN levels = 1 .. N
  BY Lists
<1>2. s = [n \in 0 .. N |->
             IF n = 0 THEN {<< >>}
             ELSE Lengthened(levels, n, s[n - 1])]
  BY <1>1, VectorsDef
<1> HIDE DEF s, N
<1>3. 0 \in S
  <2>1. s[0] = {<< >>}
    BY <1>1, <1>2
  <2>2. Run(<< >>, 0)
    <3>1. << >> \in Seq({}) /\ Len(<< >>) = 0
      OBVIOUS
    <3>2. IsList(<< >>)
      BY <3>1, SeqIsList
    <3>3. \A k \in 1 .. 0 : FALSE
      OBVIOUS
    <3> QED
      BY <3>1, <3>2, <3>3
  <2> QED
    BY <2>1, <2>2
<1>4. ASSUME NEW n \in Nat, n \in S
      PROVE  n + 1 \in S
  <2> SUFFICES ASSUME n + 1 <= N, NEW w \in s[n + 1]
               PROVE  Run(w, n + 1)
    OBVIOUS
  <2>1. /\ n + 1 \in 0 .. N /\ n + 1 # 0 /\ (n + 1) - 1 = n /\ n <= N
    BY <1>1
  <2>2. s[n + 1] = Lengthened(levels, n + 1, s[n])
    BY <1>2, <2>1
  <2>3. PICK u \in s[n], x \in 0 .. (levels[n + 1].extent - 1) : w = Append(u, x)
    BY <2>2 DEF Lengthened
  <2>4. Run(u, n)
    BY <1>4, <2>1, <2>3
  <2>5. /\ IsList(w) /\ Len(w) = n + 1
        /\ \A k \in 1 .. n : w[k] = u[k]
        /\ w[n + 1] = x
    BY <2>3, <2>4, AppendToList
  <2>6. ASSUME NEW k \in 1 .. (n + 1)
        PROVE  w[k] \in 0 .. (levels[k].extent - 1)
    <3>1. CASE k = n + 1
      BY <2>3, <2>5, <3>1
    <3>2. CASE k # n + 1
      <4>1. k \in 1 .. n
        BY <3>2
      <4> QED
        BY <2>4, <2>5, <4>1
    <3> QED
      BY <3>1, <3>2
  <2> QED
    BY <2>5, <2>6
<1>5. N \in S
  <2> HIDE DEF S
  <2> QED
    BY <1>1, <1>3, <1>4, SetInduction
<1>6. v \in s[N]
  BY DEF Vectors, s, N
<1> QED
  BY <1>1, <1>5, <1>6

\* Where the variables are when the loops are at v.
PointOf(levels, v) ==
  [x \in 0 .. MaxLoopVar |->
     IF x \in LevelVars(Nest(levels, << >>))
     THEN v[CHOOSE l \in DOMAIN levels : levels[l].var = x] ELSE 0]

\* It is a point of the loops, and each loop is where v says.
LEMMA PointOfVector ==
  ASSUME NEW levels, LevelsApart(levels), Sized(levels), NEW v \in Vectors(levels)
  PROVE  /\ PointOf(levels, v) \in Points(levels)
         /\ \A l \in DOMAIN levels : PointOf(levels, v)[levels[l].var] = v[l]
<1> DEFINE V == LevelVars(Nest(levels, << >>))
           p == PointOf(levels, v)
           at(x) == CHOOSE l \in DOMAIN levels : levels[l].var = x
<1>1. /\ \A l \in DOMAIN levels : levels[l].var \in V
      /\ \A x \in V : \E l \in DOMAIN levels : levels[l].var = x
  BY DEF LevelVars, Nest
<1>2. \A x \in V : at(x) \in DOMAIN levels /\ levels[at(x)].var = x
  BY <1>1
<1>3. \A l \in DOMAIN levels : at(levels[l].var) = l
  BY <1>1, <1>2 DEF LevelsApart
<1>4. \A k \in DOMAIN levels : v[k] \in 0 .. (levels[k].extent - 1) /\ levels[k].extent \in Nat
  BY VectorsBelow DEF LevelsApart, Sized, Range
<1>5. /\ p = [x \in 0 .. MaxLoopVar |-> IF x \in V THEN v[at(x)] ELSE 0]
      /\ DOMAIN p = 0 .. MaxLoopVar
  BY DEF PointOf
<1> HIDE DEF p, V, at
<1>6. p \in Amounts
  <2>1. \A x \in 0 .. MaxLoopVar : p[x] \in Nat
    BY <1>2, <1>4, <1>5
  <2> QED
    BY <1>5, <2>1 DEF Amounts
<1>7. ASSUME NEW l \in DOMAIN levels
      PROVE  p[levels[l].var] = v[l]
  BY <1>1, <1>3, <1>5 DEF LevelsApart
<1>8. \A l \in DOMAIN levels : p[levels[l].var] < levels[l].extent
  BY <1>4, <1>7
<1>9. p \in Points(levels)
  BY <1>6, <1>8 DEF Points, Range
<1> QED
  BY <1>7, <1>9 DEF p

\* At every iteration of the loops an index evaluates to its address, inside its buffer.
LEMMA EvalInBuffer ==
  ASSUME SoundInv, NEW nest \in Range(kernel.body), NEW ref \in References(nest),
         Fits(kernel.buffers, ref), NEW u \in Vectors(nest.levels)
  PROVE  /\ EvalAffine(ref.index, EnvAt(nest.levels, u))
              = Address(ref.index, PointOf(nest.levels, u))
         /\ Address(ref.index, PointOf(nest.levels, u)) \in 0 .. ElementsOf(kernel.buffers, ref) - 1
<1> DEFINE levels == nest.levels
           buffers == kernel.buffers
           env == EnvAt(levels, u)
           p == PointOf(levels, u)
<1>1. Closed(nest) /\ Sound(nest, buffers)
  BY DEF SoundInv, KernelSound, IInv, AllClosed, AllSound, Range
<1>2. IndexWithin(ref.index, LevelVars(nest))
  BY <1>1, ClosedIndices DEF References
<1>3. LevelVars(Nest(levels, << >>)) = LevelVars(nest)
  BY DEF LevelVars, Nest
<1>4. LevelVars(nest) \subseteq 0 .. MaxLoopVar
  BY <1>1 DEF Closed, LevelsApart, LevelVars
<1>5. p \in Points(levels)
  BY <1>1, PointOfVector DEF Closed, Sound
<1>6. \A x \in DOMAIN ref.index : Coefficient(env, x) = p[x]
  BY <1>2, <1>3, <1>4 DEF IndexWithin, Coefficient, PointOf, EnvAt
<1> HIDE DEF p, env
<1>7. p \in Amounts
  BY <1>5 DEF Points
<1>8. EvalAffine(ref.index, env) = Saturate(Address(ref.index, p))
  BY <1>2, <1>6, <1>7, EvalIsAddress
<1>9. Address(ref.index, p) \in Nat
  <2>1. Contributions(ref.index, p) \in Amounts
    BY <1>2, <1>7, ContributionsAreAmounts
  <2>2. 0 \in 0 .. MaxLoopVar
    BY LoopAssumption
  <2> QED
    BY <2>1, <2>2, TermInTotal DEF Address
<1>10. Address(ref.index, p) < ElementsOf(buffers, ref)
  BY <1>1, <1>5 DEF Sound, InBuffers
<1>11. Saturate(Address(ref.index, p)) = Address(ref.index, p)
  BY <1>9, <1>10, LoopAssumption DEF Saturate, Fits
<1>12. Address(ref.index, p) \in 0 .. ElementsOf(buffers, ref) - 1
  BY <1>9, <1>10, LoopAssumption DEF Fits
<1> QED
  BY <1>8, <1>11, <1>12 DEF p, env

\* The independence of the iterations follows.
LEMMA SoundMeansIndependent == SoundInv => ParallelMeansIndependent
<1> SUFFICES ASSUME SoundInv, NEW nest \in Range(kernel.body),
                    \A ref \in Writes(nest.body) : Allocatable(ref),
                    NEW l \in DOMAIN nest.levels, ClassAt(nest, l) = "Parallel",
                    NEW v \in Vectors(nest.levels), NEW w \in Vectors(nest.levels),
                    Apart(v, w, l)
             PROVE  Places(Writes(nest.body), nest.levels, v)
                      \cap Places(References(nest), nest.levels, w) = {}
  BY DEF ParallelMeansIndependent, Independent, References
<1> DEFINE levels == nest.levels
           buffers == kernel.buffers
           env(u) == EnvAt(levels, u)
<1>1. Closed(nest) /\ Sound(nest, buffers)
  BY DEF SoundInv, KernelSound, IInv, AllClosed, AllSound, Range
<1>2. Writes(nest.body) \subseteq References(nest)
  BY DEF References
<1>3. ASSUME NEW ref \in References(nest), Fits(buffers, ref), NEW u \in Vectors(levels)
      PROVE  EvalAffine(ref.index, env(u)) = Address(ref.index, PointOf(levels, u))
  BY <1>3, EvalInBuffer
<1>4. ASSUME NEW target \in Writes(nest.body)
      PROVE  levels[l].var \in DOMAIN target.index
  <2>1. PICK k \in DOMAIN nest.body : target = nest.body[k].target
    BY DEF Writes
  <2>2. ~ TargetFixed(nest.body[k], levels[l].var)
    BY DEF ClassAt, LevelClass
  <2> QED
    BY <2>1, <2>2 DEF TargetFixed
<1>5. \A ref \in Writes(nest.body) : Fits(buffers, ref)
  BY DEF Allocatable, Fits, ElementsOf
<1>6. ASSUME NEW place \in Places(Writes(nest.body), levels, v),
             place \in Places(References(nest), levels, w)
      PROVE  FALSE
  <2>1. PICK target \in Writes(nest.body) :
             place = <<target.buffer, EvalAffine(target.index, env(v))>>
    BY DEF Places
  <2>2. PICK ref \in References(nest) :
             place = <<ref.buffer, EvalAffine(ref.index, env(w))>>
    BY <1>6 DEF Places
  <2> HIDE DEF env
  <2>3. /\ ref.buffer = target.buffer
        /\ EvalAffine(ref.index, env(w)) = EvalAffine(target.index, env(v))
    BY <2>1, <2>2
  <2>4. ref.index = target.index
    BY <1>1, <2>3 DEF Sound, OneIndexEach
  <2>5. /\ Fits(buffers, target) /\ Fits(buffers, ref) /\ target \in References(nest)
    BY <1>2, <1>5, <2>3 DEF Fits, ElementsOf
  <2> DEFINE p == PointOf(levels, v)
             q == PointOf(levels, w)
  <2>6. Address(target.index, p) = Address(target.index, q)
    BY <1>3, <2>3, <2>4, <2>5
  <2>7. /\ p \in Points(levels) /\ p[levels[l].var] = v[l]
        /\ q \in Points(levels) /\ q[levels[l].var] = w[l]
    BY <1>1, PointOfVector DEF Closed, Sound
  <2> HIDE DEF p, q
  <2>8. p[levels[l].var] = q[levels[l].var]
    BY <1>1, <1>4, <2>5, <2>6, <2>7 DEF Sound, PlacesApart
  <2> QED
    BY <2>7, <2>8 DEF Apart
<1> QED
  BY <1>6

\* No load and no store leaves a buffer that can be allocated, whatever legal moves
\* were made: the loop interpreters check each index, and the emitted C does not.
IndicesInBuffers ==
  \A nest \in Range(kernel.body) :
     \A ref \in Reads(nest.body) \cup Writes(nest.body) : Allocatable(ref) =>
        \A v \in Vectors(nest.levels) :
           EvalAffine(ref.index, EnvAt(nest.levels, v))
             \in 0 .. Numel(kernel.buffers[ref.buffer].shape) - 1

\* It follows too.
LEMMA SoundMeansInBuffers == SoundInv => IndicesInBuffers
<1> SUFFICES ASSUME SoundInv, NEW nest \in Range(kernel.body),
                    NEW ref \in Reads(nest.body) \cup Writes(nest.body), Allocatable(ref),
                    NEW v \in Vectors(nest.levels)
             PROVE  EvalAffine(ref.index, EnvAt(nest.levels, v))
                      \in 0 .. Numel(kernel.buffers[ref.buffer].shape) - 1
  BY DEF IndicesInBuffers
<1>1. ref \in References(nest) /\ Fits(kernel.buffers, ref)
  BY DEF References, Allocatable, Fits, ElementsOf
<1> QED
  BY <1>1, EvalInBuffer DEF ElementsOf

-----------------------------------------------------------------------------
(* Row-major addresses.                                                     *)
\* The products of the last extents grow.
LEMMA ExtentsGrow ==
  ASSUME NEW shape \in Seq(Nat), Numel(shape) # Overflow,
         \A a \in 1 .. Len(shape) : shape[a] # 0
  PROVE  \A n \in 0 .. Len(shape) : ExtentsFromRight(shape)[n] <= Numel(shape)
<1> DEFINE N == Len(shape)
           e == ExtentsFromRight(shape)
           S == {k \in Nat : k <= N => e[N - k] <= e[N]}
<1>1. N \in Nat /\ \A a \in 1 .. N : shape[a] \in Nat \ {0}
  OBVIOUS
<1>2. /\ e[N] = Numel(shape)
      /\ \A n \in 0 .. N : e[n] \in Nat \ {0}
      /\ \A n \in 0 .. N - 1 : e[N - n] = e[N - (n + 1)] * shape[n + 1]
  BY ExtentsFromRightPositive
<1> HIDE DEF e, N
<1>3. 0 \in S
  <2>1. N - 0 = N /\ N \in 0 .. N
    BY <1>1
  <2> QED
    BY <1>2, <2>1
<1>4. ASSUME NEW k \in Nat, k \in S
      PROVE  k + 1 \in S
  <2> SUFFICES ASSUME k + 1 <= N PROVE e[N - (k + 1)] <= e[N]
    OBVIOUS
  <2>1. /\ k \in 0 .. N - 1 /\ k <= N /\ k + 1 \in 1 .. N
        /\ N - (k + 1) \in 0 .. N /\ N - k \in 0 .. N /\ N \in 0 .. N
    BY <1>1
  <2> DEFINE x == e[N - (k + 1)]
             s == shape[k + 1]
             y == e[N - k]
             z == e[N]
  <2>2. x \in Nat /\ s \in Nat /\ 1 <= s /\ y \in Nat /\ z \in Nat /\ y = x * s /\ y <= z
    BY <1>1, <1>2, <1>4, <2>1
  <2> HIDE DEF x, s, y, z
  <2>3. x * 1 <= x * s /\ x * 1 = x
    BY <2>2, MulMonotone
  <2>4. x <= z
    BY <2>2, <2>3
  <2> QED
    BY <2>4 DEF x, z
<1>5. \A k \in Nat : k \in S
  <2> HIDE DEF S
  <2> QED
    BY <1>3, <1>4, SetInduction
<1>6. ASSUME NEW n \in 0 .. N
      PROVE  e[n] <= e[N]
  <2>1. N - n \in Nat /\ N - n <= N /\ N - (N - n) = n
    BY <1>1
  <2>2. e[N - (N - n)] <= e[N]
    BY <1>5, <2>1
  <2> QED
    BY <2>1, <2>2
<1> QED
  BY <1>2, <1>6 DEF e, N

\* The stride that lowering writes is the row-major one.
LEMMA StrideIsExact ==
  ASSUME NEW shape \in Seq(Nat), Numel(shape) # Overflow,
         \A a \in 1 .. Len(shape) : shape[a] # 0, NEW axis \in 1 .. Len(shape)
  PROVE  Stride(shape, axis) = RowStride(shape, axis)
<1> DEFINE N == Len(shape)
           e == ExtentsFromRight(shape)
           after == After(shape, axis)
           t == Reverse(after)
           M == N - axis
           f == ExtentProducts(t)
           S == {n \in Nat : n <= M => f[n] = e[n]}
<1>1. /\ N \in Nat /\ axis \in 1 .. N /\ M \in Nat /\ M <= N
      /\ \A a \in 1 .. N : shape[a] \in Nat \ {0}
  OBVIOUS
<1>2. IsList(shape)
  BY SeqIsList
<1>3. /\ IsList(after) /\ Len(after) = M
      /\ \A i \in 1 .. M : after[i] = shape[axis + i]
  <2>1. axis + 1 \in 1 .. N + 1 /\ N \in ((axis + 1) - 1) .. N
    BY <1>1
  <2>2. /\ IsList(after) /\ Len(after) = N - (axis + 1) + 1
        /\ \A i \in 1 .. N - (axis + 1) + 1 : after[i] = shape[(axis + 1) + i - 1]
    BY <1>2, <2>1, SubList DEF After
  <2> HIDE DEF after
  <2>3. N - (axis + 1) + 1 = M
    BY <1>1
  <2>4. \A i \in 1 .. M : (axis + 1) + i - 1 = axis + i
    BY <1>1
  <2> HIDE DEF M
  <2> QED
    BY <2>2, <2>3, <2>4
<1>4. t = [i \in 1 .. M |-> after[(M - i) + 1]]
  BY <1>3 DEF Reverse
<1>5. \A i \in 1 .. M : t[i] = shape[(N - i) + 1]
  <2> SUFFICES ASSUME NEW i \in 1 .. M PROVE t[i] = shape[(N - i) + 1]
    OBVIOUS
  <2>1. (M - i) + 1 \in 1 .. M /\ axis + ((M - i) + 1) = (N - i) + 1
    BY <1>1
  <2> HIDE DEF after, t, M
  <2>2. t[i] = after[(M - i) + 1]
    BY <1>4
  <2> QED
    BY <1>3, <2>1, <2>2
<1>6. Len(t) = M
  <2> HIDE DEF after, M
  <2>1. t \in [1 .. M -> {after[(M - i) + 1] : i \in 1 .. M}]
    BY <1>4
  <2> HIDE DEF t
  <2> QED
    BY <1>1, <2>1
<1>7. f = [n \in 0 .. M |-> IF n = 0 THEN 1 ELSE CheckedMul(f[n - 1], t[n])]
  <2> HIDE DEF t, M
  <2> QED
    BY <1>1, <1>6, ExtentProductsDef
<1>8. e = [n \in 0 .. N |-> IF n = 0 THEN 1 ELSE e[n - 1] * shape[(N - n) + 1]]
  BY <1>1, ExtentsFromRightDef
<1>9. /\ \A n \in 0 .. N : e[n] \in Nat \ {0} /\ e[n] <= Numel(shape)
      /\ Numel(shape) <= MaxUsize
  <2>1. \A n \in 0 .. N : e[n] \in Nat \ {0}
    BY ExtentsFromRightPositive
  <2>2. \A n \in 0 .. N : e[n] <= Numel(shape)
    BY ExtentsGrow
  <2>3. Numel(shape) <= MaxUsize
    BY NumelFits
  <2> QED
    BY <2>1, <2>2, <2>3
<1> DEFINE K == Numel(shape)
<1>10. K \in Nat
  BY NumelFits, MaxUsizeAssumption
<1> HIDE DEF e, f, t, after, N, M, K
<1>11. 0 \in S
  BY <1>1, <1>7, <1>8
<1>12. ASSUME NEW n \in Nat, n \in S
       PROVE  n + 1 \in S
  <2> SUFFICES ASSUME n + 1 <= M PROVE f[n + 1] = e[n + 1]
    OBVIOUS
  <2>1. /\ n + 1 \in 0 .. M /\ n + 1 \in 1 .. M /\ n + 1 # 0 /\ (n + 1) - 1 = n /\ n <= M
        /\ n + 1 \in 0 .. N /\ n \in 0 .. N
    BY <1>1
  <2>2. f[n + 1] = CheckedMul(e[n], t[n + 1])
    BY <1>7, <1>12, <2>1
  <2>3. e[n + 1] = e[n] * t[n + 1]
    BY <1>5, <1>8, <2>1
  <2>4. e[n] \in Nat /\ e[n + 1] \in Nat /\ e[n + 1] <= K /\ K <= MaxUsize
    BY <1>9, <2>1 DEF K
  <2>5. e[n] # Overflow
    BY <2>4 DEF Overflow
  <2>6. ~ (e[n] * t[n + 1] > MaxUsize)
    BY <1>10, <2>3, <2>4, MaxUsizeAssumption
  <2> QED
    BY <2>2, <2>3, <2>5, <2>6 DEF CheckedMul
<1>13. M \in S
  <2> HIDE DEF S
  <2> QED
    BY <1>1, <1>11, <1>12, SetInduction
<1>14. f[M] = e[M]
  BY <1>1, <1>13
<1> QED
  BY <1>6, <1>14 DEF Stride, Numel, RowStride, f, e, t, after, M, N

\* A sum of terms, one for each axis and in the order of the axes, is an offset.
LEMMA PlacedTotal ==
  ASSUME NEW f \in Amounts, NEW multi, NEW N \in Nat, Len(multi) = N, NEW shape,
         NEW C \in [0 .. MaxLoopVar + 1 -> 0 .. N], C[0] = 0, C[MaxLoopVar + 1] = N,
         \A v \in 0 .. MaxLoopVar :
            \/ f[v] = 0 /\ C[v + 1] = C[v]
            \/ C[v + 1] = C[v] + 1 /\ f[v] = multi[C[v] + 1] * RowStride(shape, C[v] + 1)
  PROVE  Total(f) = MultiToFlat(multi, shape)
<1> DEFINE s == Sums(f)
           o == Offsets(multi, shape)
           S == {n \in Nat : n <= MaxLoopVar + 1 => s[n] = o[C[n]]}
<1>1. s[0] = 0 /\ \A n \in 0 .. MaxLoopVar : s[n + 1] = s[n] + f[n]
  BY SumsStep
<1>2. o = [n \in 0 .. N |-> IF n = 0 THEN 0 ELSE o[n - 1] + multi[n] * RowStride(shape, n)]
  BY OffsetsDef
<1>3. \A n \in 0 .. MaxLoopVar + 1 : s[n] \in Nat
  BY SumsAreNat
<1> HIDE DEF s, o
<1>4. 0 \in S
  BY <1>1, <1>2
<1>5. ASSUME NEW n \in Nat, n \in S
      PROVE  n + 1 \in S
  <2> SUFFICES ASSUME n + 1 <= MaxLoopVar + 1 PROVE s[n + 1] = o[C[n + 1]]
    OBVIOUS
  <2>1. /\ n \in 0 .. MaxLoopVar /\ n \in 0 .. MaxLoopVar + 1 /\ n + 1 \in 0 .. MaxLoopVar + 1
        /\ n <= MaxLoopVar + 1
    BY LoopAssumption
  <2>2. s[n + 1] = o[C[n]] + f[n] /\ o[C[n]] \in Nat
    BY <1>1, <1>3, <1>5, <2>1
  <2>3. C[n] \in 0 .. N /\ C[n + 1] \in 0 .. N
    BY <2>1
  <2>4. CASE f[n] = 0 /\ C[n + 1] = C[n]
    BY <2>2, <2>4
  <2>5. CASE C[n + 1] = C[n] + 1 /\ f[n] = multi[C[n] + 1] * RowStride(shape, C[n] + 1)
    <3>1. C[n + 1] # 0 /\ C[n + 1] - 1 = C[n]
      BY <2>3, <2>5
    <3>2. o[C[n + 1]] = o[C[n]] + multi[C[n] + 1] * RowStride(shape, C[n] + 1)
      BY <1>2, <2>3, <2>5, <3>1
    <3> QED
      BY <2>2, <2>5, <3>2
  <2> QED
    BY <2>1, <2>4, <2>5
<1>6. MaxLoopVar + 1 \in S
  <2>1. MaxLoopVar + 1 \in Nat
    BY LoopAssumption
  <2> HIDE DEF S
  <2> QED
    BY <1>4, <1>5, <2>1, SetInduction
<1> QED
  BY <1>6 DEF Total, MultiToFlat, s, o

\* What the indices behind the first n contribute is less than a step of the n-th.
LEMMA OffsetTail ==
  ASSUME NEW multi, NEW shape, Below(multi, shape), Numel(shape) # Overflow
  PROVE  LET o == Offsets(multi, shape)
             N == Len(shape)
         IN  \A n \in 0 .. N : /\ o[n] \in Nat /\ o[n] <= o[N]
                               /\ o[N] < o[n] + RowStride(shape, n)
<1> DEFINE N == Len(shape)
           e == ExtentsFromRight(shape)
           o == Offsets(multi, shape)
           T == {n \in Nat : n <= N => o[n] \in Nat}
           S == {k \in Nat : k <= N => o[N - k] <= o[N] /\ o[N] < o[N - k] + e[k]}
<1>1. /\ shape \in Seq(Nat) /\ N \in Nat /\ Len(multi) = N
      /\ \A a \in 1 .. N : shape[a] # 0
  BY BelowShape
<1>2. /\ e[0] = 1
      /\ \A n \in 0 .. N : e[n] \in Nat \ {0}
      /\ \A n \in 0 .. N - 1 : e[N - n] = e[N - (n + 1)] * shape[n + 1]
  BY <1>1, ExtentsFromRightPositive
<1>3. o = [n \in 0 .. N |-> IF n = 0 THEN 0 ELSE o[n - 1] + multi[n] * RowStride(shape, n)]
  BY <1>1, OffsetsDef
<1>4. \A n \in 0 .. N : RowStride(shape, n) = e[N - n]
  BY DEF RowStride
<1>5. \A a \in 1 .. N : multi[a] \in Nat /\ shape[a] \in Nat /\ multi[a] < shape[a]
  BY DEF Below
<1> HIDE DEF e, o, N
<1>6. ASSUME NEW n \in 0 .. N - 1
      PROVE  /\ o[n + 1] = o[n] + multi[n + 1] * e[N - (n + 1)]
             /\ multi[n + 1] * e[N - (n + 1)] \in Nat
  <2>1. /\ n + 1 \in 1 .. N /\ n + 1 \in 0 .. N /\ n + 1 # 0 /\ (n + 1) - 1 = n
        /\ N - (n + 1) \in 0 .. N
    BY <1>1
  <2>2. multi[n + 1] \in Nat /\ e[N - (n + 1)] \in Nat
    BY <1>2, <1>5, <2>1
  <2> QED
    BY <1>3, <1>4, <2>1, <2>2, ProductIsNat
<1>7. \A n \in 0 .. N : o[n] \in Nat
  <2>1. 0 \in T
    BY <1>1, <1>3
  <2>2. ASSUME NEW n \in Nat, n \in T
        PROVE  n + 1 \in T
    <3> SUFFICES ASSUME n + 1 <= N PROVE o[n + 1] \in Nat
      OBVIOUS
    <3>1. n \in 0 .. N - 1 /\ n <= N
      BY <1>1
    <3> DEFINE x == multi[n + 1] * e[N - (n + 1)]
    <3>2. o[n + 1] = o[n] + x /\ x \in Nat /\ o[n] \in Nat
      BY <1>6, <2>2, <3>1
    <3> HIDE DEF x
    <3> QED
      BY <3>2
  <2>3. \A n \in Nat : n \in T
    <3> HIDE DEF T
    <3> QED
      BY <2>1, <2>2, SetInduction
  <2> QED
    BY <1>1, <2>3
<1>8. 0 \in S
  <2>1. N - 0 = N /\ N \in 0 .. N
    BY <1>1
  <2> QED
    BY <1>2, <1>7, <2>1
<1>9. ASSUME NEW k \in Nat, k \in S
      PROVE  k + 1 \in S
  <2> DEFINE n == N - (k + 1)
  <2> SUFFICES ASSUME k + 1 <= N PROVE o[n] <= o[N] /\ o[N] < o[n] + e[k + 1]
    OBVIOUS
  <2>1. /\ n \in 0 .. N - 1 /\ n \in 0 .. N /\ n + 1 = N - k /\ N - n = k + 1 /\ N - (n + 1) = k
        /\ n + 1 \in 1 .. N /\ n + 1 \in 0 .. N /\ N \in 0 .. N /\ k <= N
        /\ k \in 0 .. N /\ k + 1 \in 0 .. N
    BY <1>1
  <2> HIDE DEF n
  <2> DEFINE x == e[k]
             c == multi[n + 1]
             s == shape[n + 1]
             y == c * x
             z == x * s
             a == o[n]
             b == o[n + 1]
             d == o[N]
  <2>2. x \in Nat /\ c \in Nat /\ s \in Nat /\ c + 1 <= s /\ a \in Nat /\ b \in Nat /\ d \in Nat
    BY <1>2, <1>5, <1>7, <2>1
  <2>3. b = a + y
    BY <1>6, <2>1
  <2>4. e[k + 1] = z
    BY <1>2, <2>1
  <2>5. b <= d /\ d < b + x
    BY <1>9, <2>1
  <2>6. y \in Nat /\ z \in Nat /\ y + x <= z
    <3> HIDE DEF x, c, s
    <3>1. x * (c + 1) <= x * s
      BY <2>2, MulMonotone
    <3>2. x * (c + 1) = c * x + x /\ c * x \in Nat /\ x * s \in Nat
      BY <2>2
    <3> QED
      BY <3>1, <3>2
  <2> HIDE DEF x, c, s, y, z, a, b, d
  <2>7. a <= d /\ d < a + z
    BY <2>2, <2>3, <2>5, <2>6
  <2> QED
    BY <2>4, <2>7 DEF a, d
<1>10. \A k \in Nat : k \in S
  <2> HIDE DEF S
  <2> QED
    BY <1>8, <1>9, SetInduction
<1>11. ASSUME NEW n \in 0 .. N
       PROVE  /\ o[n] \in Nat /\ o[n] <= o[N]
              /\ o[N] < o[n] + RowStride(shape, n)
  <2>1. N - n \in Nat /\ N - n <= N /\ N - (N - n) = n
    BY <1>1
  <2>2. o[N - (N - n)] <= o[N] /\ o[N] < o[N - (N - n)] + e[N - n]
    BY <1>10, <2>1
  <2> QED
    BY <1>4, <1>7, <2>1, <2>2
<1> QED
  BY <1>11 DEF o, N

\* Different indices have different offsets.
LEMMA OffsetUnique ==
  ASSUME NEW x, NEW y, NEW shape, Below(x, shape), Below(y, shape), Numel(shape) # Overflow,
         MultiToFlat(x, shape) = MultiToFlat(y, shape)
  PROVE  \A a \in 1 .. Len(shape) : x[a] = y[a]
<1> DEFINE N == Len(shape)
           o == Offsets(x, shape)
           u == Offsets(y, shape)
           S == {n \in Nat : n <= N => o[n] = u[n] /\ \A a \in 1 .. n : x[a] = y[a]}
<1>1. /\ shape \in Seq(Nat) /\ N \in Nat /\ Len(x) = N /\ Len(y) = N
      /\ \A a \in 1 .. N : shape[a] # 0
  BY BelowShape
<1>2. o = [n \in 0 .. N |-> IF n = 0 THEN 0 ELSE o[n - 1] + x[n] * RowStride(shape, n)]
  BY <1>1, OffsetsDef
<1>3. u = [n \in 0 .. N |-> IF n = 0 THEN 0 ELSE u[n - 1] + y[n] * RowStride(shape, n)]
  BY <1>1, OffsetsDef
<1>4. \A n \in 0 .. N : o[n] \in Nat /\ o[n] <= o[N] /\ o[N] < o[n] + RowStride(shape, n)
  BY OffsetTail
<1>5. \A n \in 0 .. N : u[n] \in Nat /\ u[n] <= u[N] /\ u[N] < u[n] + RowStride(shape, n)
  BY OffsetTail
<1>6. o[N] = u[N]
  BY <1>1 DEF MultiToFlat
<1>7. \A a \in 1 .. N : x[a] \in Nat /\ y[a] \in Nat
  BY DEF Below
<1>8. \A n \in 0 .. N : RowStride(shape, n) \in Nat
  <2> SUFFICES ASSUME NEW n \in 0 .. N PROVE RowStride(shape, n) \in Nat
    OBVIOUS
  <2>1. N - n \in 0 .. N
    BY <1>1
  <2>2. ExtentsFromRight(shape)[N - n] \in Nat
    BY <1>1, <2>1, ExtentsFromRightPositive
  <2> QED
    BY <2>2 DEF RowStride
<1> HIDE DEF o, u, N
<1>9. 0 \in S
  <2>1. \A a \in 1 .. 0 : FALSE
    OBVIOUS
  <2> QED
    BY <1>1, <1>2, <1>3, <2>1
<1>10. ASSUME NEW n \in Nat, n \in S
       PROVE  n + 1 \in S
  <2> SUFFICES ASSUME n + 1 <= N
               PROVE  o[n + 1] = u[n + 1] /\ \A a \in 1 .. (n + 1) : x[a] = y[a]
    OBVIOUS
  <2>1. /\ n + 1 \in 1 .. N /\ n + 1 \in 0 .. N /\ n \in 0 .. N /\ n + 1 # 0 /\ (n + 1) - 1 = n
        /\ n <= N /\ N \in 0 .. N
    BY <1>1
  <2> DEFINE s == RowStride(shape, n + 1)
             b == o[n]
             c == x[n + 1]
             d == y[n + 1]
             t == o[N]
             ro == t - o[n + 1]
             ru == t - u[n + 1]
  <2>2. b = u[n] /\ \A a \in 1 .. n : x[a] = y[a]
    BY <1>10, <2>1
  <2>3. o[n + 1] = b + c * s /\ u[n + 1] = b + d * s
    BY <1>2, <1>3, <2>1, <2>2
  <2>4. c \in Nat /\ d \in Nat /\ s \in Nat /\ b \in Nat /\ t \in Nat
    BY <1>4, <1>7, <1>8, <2>1
  <2>5. /\ o[n + 1] \in Nat /\ o[n + 1] <= t /\ t < o[n + 1] + s
        /\ u[n + 1] \in Nat /\ u[n + 1] <= t /\ t < u[n + 1] + s
    BY <1>4, <1>5, <1>6, <2>1
  <2>6. ro \in Nat /\ ru \in Nat /\ ro < s /\ ru < s
    <3> DEFINE p == o[n + 1]
               q == u[n + 1]
    <3> HIDE DEF s, t, p, q
    <3>1. /\ p \in Nat /\ p <= t /\ t < p + s /\ q \in Nat /\ q <= t /\ t < q + s
          /\ s \in Nat /\ t \in Nat
      BY <2>4, <2>5 DEF p, q
    <3>2. t - p \in Nat /\ t - q \in Nat /\ t - p < s /\ t - q < s
      BY <3>1
    <3> QED
      BY <3>2 DEF p, q
  <2>7. s * c + ro = s * d + ru
    <3> HIDE DEF s, b, c, d, t
    <3>1. s * c = c * s /\ s * d = d * s /\ c * s \in Nat /\ d * s \in Nat
      BY <2>4
    <3> DEFINE j == c * s
               k == d * s
    <3>2. /\ o[n + 1] = b + j /\ u[n + 1] = b + k /\ j \in Nat /\ k \in Nat
          /\ s * c = j /\ s * d = k
      BY <2>3, <3>1
    <3> HIDE DEF j, k
    <3> QED
      BY <2>4, <3>2
  <2>8. c = d
    <3> HIDE DEF s, c, d, ro, ru
    <3> QED
      BY <2>4, <2>6, <2>7, TileUnique
  <2>9. o[n + 1] = u[n + 1]
    BY <2>3, <2>8
  <2>10. ASSUME NEW a \in 1 .. (n + 1)
         PROVE  x[a] = y[a]
    <3>1. a \in 1 .. n \/ a = n + 1
      OBVIOUS
    <3> QED
      BY <2>2, <2>8, <3>1
  <2> QED
    BY <2>9, <2>10
<1>11. N \in S
  <2> HIDE DEF S
  <2> QED
    BY <1>1, <1>9, <1>10, SetInduction
<1> QED
  BY <1>1, <1>11 DEF N

\* The coefficients of an affine expression.
LEMMA AffineCoefficient ==
  ASSUME NEW f, \A v \in DOMAIN f : f[v] \in Nat
  PROVE  /\ \A v : Coefficient(Affine(f), v) = IF v \in DOMAIN f THEN f[v] ELSE 0
         /\ DOMAIN Affine(f) \subseteq DOMAIN f
<1> DEFINE e == Affine(f)
<1>1. e = [v \in {w \in DOMAIN f : f[w] # 0} |-> f[v]]
  BY DEF Affine
<1> HIDE DEF e
<1>2. ASSUME NEW v
      PROVE  Coefficient(e, v) = IF v \in DOMAIN f THEN f[v] ELSE 0
  <2>1. CASE v \in DOMAIN e
    BY <1>1, <2>1 DEF Coefficient
  <2>2. CASE v \notin DOMAIN e
    BY <1>1, <2>2 DEF Coefficient
  <2> QED
    BY <2>1, <2>2
<1>3. DOMAIN e \subseteq DOMAIN f
  BY <1>1
<1> QED
  BY <1>2, <1>3 DEF e

\* How many of a set are not beyond an id, and the one before it.
LEMMA RankStep ==
  ASSUME NEW S \in SUBSET Nat, IsFiniteSet(S), NEW i \in Int
  PROVE  /\ Rank(S, i) \in 0 .. Cardinality(S)
         /\ Rank(S, i + 1) = IF i + 1 \in S THEN Rank(S, i) + 1 ELSE Rank(S, i)
<1> DEFINE A == {j \in S : j <= i}
           B == {j \in S : j <= i + 1}
<1>1. IsFiniteSet(A) /\ A \subseteq S
  BY FS_Subset
<1>2. Cardinality(A) \in Nat /\ Cardinality(S) \in Nat /\ Cardinality(A) <= Cardinality(S)
  BY <1>1, FS_Subset, FS_CardinalityType
<1>3. B = IF i + 1 \in S THEN A \cup {i + 1} ELSE A
  <2>1. \A j \in S : j \in Nat /\ (j <= i + 1 <=> (j <= i \/ j = i + 1))
    OBVIOUS
  <2>2. CASE i + 1 \in S
    <3>1. \A j : j \in B <=> j \in A \cup {i + 1}
      BY <2>1, <2>2
    <3> HIDE DEF A, B
    <3> QED
      BY <2>2, <3>1
  <2>3. CASE i + 1 \notin S
    <3>1. \A j : j \in B <=> j \in A
      BY <2>1, <2>3
    <3> HIDE DEF A, B
    <3> QED
      BY <2>3, <3>1
  <2> QED
    BY <2>2, <2>3
<1>4. i + 1 \notin A
  OBVIOUS
<1>5. Cardinality(A \cup {i + 1}) = Cardinality(A) + 1
  <2> HIDE DEF A
  <2> QED
    BY <1>1, <1>4, FS_AddElement
<1>6. Rank(S, i) = Cardinality(A) /\ Rank(S, i + 1) = Cardinality(B)
  BY DEF Rank
<1> HIDE DEF A, B
<1>7. Cardinality(B) = IF i + 1 \in S THEN Cardinality(A) + 1 ELSE Cardinality(A)
  BY <1>3, <1>5
<1> QED
  BY <1>2, <1>6, <1>7

\* Terms for some of the axes of the loops from base on, in their order, and no others.
TermsOf(f, base, K, multi, shape) ==
  /\ \A v \in 0 .. MaxLoopVar : (v + 1) - base \notin K => f[v] = 0
  /\ \A a \in K : f[(base + a) - 1] = multi[Rank(K, a)] * RowStride(shape, Rank(K, a))

\* Their sum is an offset.
LEMMA KeptTotal ==
  ASSUME NEW f, NEW base, NEW N, NEW K, NEW multi, NEW shape,
         f \in Amounts, base \in Nat, N \in Nat, base + N <= MaxLoopVar,
         K \subseteq 1 .. N, Len(multi) = Cardinality(K), TermsOf(f, base, K, multi, shape)
  PROVE  Total(f) = MultiToFlat(multi, shape)
<1> DEFINE M == Cardinality(K)
           C == [n \in 0 .. MaxLoopVar + 1 |-> Rank(K, n - base)]
<1>1. IsFiniteSet(K) /\ K \in SUBSET Nat /\ M \in Nat
  <2>1. IsFiniteSet(1 .. N)
    BY FS_Interval
  <2>2. IsFiniteSet(K)
    BY <2>1, FS_Subset
  <2>3. \A a \in 1 .. N : a \in Nat
    OBVIOUS
  <2> QED
    BY <2>1, <2>2, <2>3, FS_CardinalityType
<1>2. \A n \in 0 .. MaxLoopVar + 1 : n - base \in Int
  BY LoopAssumption
<1> HIDE DEF M
<1>3. C \in [0 .. MaxLoopVar + 1 -> 0 .. M]
  <2> SUFFICES ASSUME NEW n \in 0 .. MaxLoopVar + 1 PROVE Rank(K, n - base) \in 0 .. M
    OBVIOUS
  <2> QED
    BY <1>1, <1>2, RankStep DEF M
<1>4. C[0] = 0
  <2>0. \A j \in 1 .. N : ~ (j <= 0 - base)
    OBVIOUS
  <2>1. {j \in K : j <= 0 - base} = {}
    <3>1. \A j \in K : ~ (j <= 0 - base)
      BY <2>0
    <3> QED
      BY ONLY <3>1
  <2>2. Rank(K, 0 - base) = 0
    BY <2>1, FS_EmptySet DEF Rank
  <2>3. 0 \in 0 .. MaxLoopVar + 1
    BY LoopAssumption
  <2> QED
    BY <2>2, <2>3
<1>5. C[MaxLoopVar + 1] = M
  <2>0. \A j \in 1 .. N : j <= (MaxLoopVar + 1) - base
    BY LoopAssumption
  <2>1. {j \in K : j <= (MaxLoopVar + 1) - base} = K
    <3>1. \A j \in K : j <= (MaxLoopVar + 1) - base
      BY <2>0
    <3> QED
      BY ONLY <3>1
  <2>2. Rank(K, (MaxLoopVar + 1) - base) = M
    BY <2>1 DEF Rank, M
  <2>3. MaxLoopVar + 1 \in 0 .. MaxLoopVar + 1
    BY LoopAssumption
  <2> QED
    BY <2>2, <2>3
<1>6. ASSUME NEW v \in 0 .. MaxLoopVar
      PROVE  \/ f[v] = 0 /\ C[v + 1] = C[v]
             \/ /\ C[v + 1] = C[v] + 1
                /\ f[v] = multi[C[v] + 1] * RowStride(shape, C[v] + 1)
  <2> DEFINE i == v - base
  <2>1. /\ i \in Int /\ i + 1 = (v + 1) - base
        /\ v \in 0 .. MaxLoopVar + 1 /\ v + 1 \in 0 .. MaxLoopVar + 1
    BY LoopAssumption
  <2>2. C[v] = Rank(K, i) /\ C[v + 1] = Rank(K, (v + 1) - base)
    BY <2>1
  <2>3. Rank(K, i + 1) = IF i + 1 \in K THEN Rank(K, i) + 1 ELSE Rank(K, i)
    BY <1>1, <2>1, RankStep
  <2> HIDE DEF C
  <2>4. CASE i + 1 \notin K
    BY <2>1, <2>2, <2>3, <2>4 DEF TermsOf
  <2>5. CASE i + 1 \in K
    <3>1. (base + (i + 1)) - 1 = v
      BY LoopAssumption
    <3>2. f[(base + (i + 1)) - 1] = multi[Rank(K, i + 1)] * RowStride(shape, Rank(K, i + 1))
      BY <2>5 DEF TermsOf
    <3> HIDE DEF i
    <3> QED
      BY <2>1, <2>2, <2>3, <2>5, <3>1, <3>2
  <2> QED
    BY <2>4, <2>5
<1> HIDE DEF C
<1> QED
  BY <1>1, <1>3, <1>4, <1>5, <1>6, PlacedTotal DEF M

\* Terms for all of the axes, and no others.
AllTermsOf(f, base, N, multi, shape) ==
  /\ \A v \in 0 .. MaxLoopVar : (v + 1) - base \notin 1 .. N => f[v] = 0
  /\ \A a \in 1 .. N : f[(base + a) - 1] = multi[a] * RowStride(shape, a)

\* So is their sum.
LEMMA AxisTotal ==
  ASSUME NEW f \in Amounts, NEW base \in Nat, NEW N \in Nat, base + N <= MaxLoopVar,
         NEW multi, Len(multi) = N, NEW shape, AllTermsOf(f, base, N, multi, shape)
  PROVE  Total(f) = MultiToFlat(multi, shape)
<1> DEFINE K == 1 .. N
<1>1. Cardinality(K) = N
  BY FS_Interval
<1>2. ASSUME NEW a \in K
      PROVE  Rank(K, a) = a
  <2>1. {j \in K : j <= a} = 1 .. a
    OBVIOUS
  <2>2. a \in Nat /\ Cardinality(1 .. a) = IF 1 > a THEN 0 ELSE (a - 1) + 1
    BY FS_Interval
  <2>3. Cardinality(1 .. a) = a
    BY <2>2
  <2> QED
    BY <2>1, <2>3 DEF Rank
<1>3. \A a \in K : f[(base + a) - 1] = multi[Rank(K, a)] * RowStride(shape, Rank(K, a))
  BY <1>2 DEF AllTermsOf
<1>4. K \subseteq 1 .. N /\ TermsOf(f, base, K, multi, shape)
  BY <1>3 DEF TermsOf, AllTermsOf
<1>5. Len(multi) = Cardinality(K)
  BY <1>1
<1> HIDE DEF K
<1> QED
  BY <1>4, <1>5, KeptTotal

\* What the loops over the axes of a tensor are at.
AxesAt(p, base, N) == [a \in 1 .. N |-> p[(base + a) - 1]]

\* It is an index of the tensor.
LEMMA AxesBelow ==
  ASSUME NEW p \in Amounts, NEW base \in Nat, NEW shape \in Seq(Nat),
         base + Len(shape) <= MaxLoopVar,
         \A a \in 1 .. Len(shape) : p[(base + a) - 1] < shape[a]
  PROVE  /\ Below(AxesAt(p, base, Len(shape)), shape)
         /\ Len(AxesAt(p, base, Len(shape))) = Len(shape)
<1> DEFINE N == Len(shape)
           x == AxesAt(p, base, N)
<1>1. N \in Nat /\ \A a \in 1 .. N : shape[a] \in Nat
  OBVIOUS
<1>2. \A a \in 1 .. N : (base + a) - 1 \in 0 .. MaxLoopVar
  BY <1>1, LoopAssumption
<1>3. x = [a \in 1 .. N |-> p[(base + a) - 1]]
  BY DEF AxesAt
<1> HIDE DEF x, N
<1>4. x \in [1 .. N -> Nat]
  BY <1>2, <1>3 DEF Amounts
<1>5. x \in Seq(Nat) /\ Len(x) = N
  BY <1>1, <1>4
<1>6. IsList(x) /\ IsList(shape)
  BY <1>5, SeqIsList
<1>7. \A a \in 1 .. N : x[a] < shape[a]
  BY <1>3 DEF N
<1>8. Below(x, shape)
  BY <1>1, <1>4, <1>5, <1>6, <1>7 DEF Below, N
<1> QED
  BY <1>5, <1>8 DEF x, N

\* The address that lowering writes for a tensor's element is its offset.
LEMMA RowMajorAddress ==
  ASSUME NEW shape \in Seq(Nat), Numel(shape) # Overflow, Addressable(shape),
         NEW base \in Nat, base + Len(shape) <= MaxLoopVar,
         NEW fresh, fresh = [a \in 1 .. Len(shape) |-> (base + a) - 1],
         NEW p \in Amounts, \A a \in 1 .. Len(shape) : p[(base + a) - 1] < shape[a]
  PROVE  Address(RowMajorAffine(shape, fresh), p)
           = MultiToFlat(AxesAt(p, base, Len(shape)), shape)
<1> DEFINE N == Len(shape)
           x == AxesAt(p, base, N)
           axis(v) == CHOOSE a \in DOMAIN fresh : fresh[a] = v
           f == [v \in Range(fresh) |-> Stride(shape, axis(v))]
           e == RowMajorAffine(shape, fresh)
           g == Contributions(e, p)
<1>1. /\ N \in Nat /\ DOMAIN fresh = 1 .. N /\ DOMAIN shape = 1 .. N
      /\ \A a \in 1 .. N : fresh[a] = (base + a) - 1
      /\ \A a \in 1 .. N : (base + a) - 1 \in 0 .. MaxLoopVar
  BY LoopAssumption
<1>2. Below(x, shape) /\ Len(x) = N /\ \A a \in 1 .. N : shape[a] # 0
  BY AxesBelow, BelowShape
<1>3. \A v \in Range(fresh) : axis(v) \in 1 .. N /\ fresh[axis(v)] = v
  BY <1>1 DEF Range
<1>4. \A a \in 1 .. N : axis((base + a) - 1) = a /\ (base + a) - 1 \in Range(fresh)
  <2> SUFFICES ASSUME NEW a \in 1 .. N
               PROVE  axis((base + a) - 1) = a /\ (base + a) - 1 \in Range(fresh)
    OBVIOUS
  <2>1. (base + a) - 1 \in Range(fresh)
    BY <1>1 DEF Range
  <2>2. axis((base + a) - 1) \in 1 .. N /\ fresh[axis((base + a) - 1)] = (base + a) - 1
    BY <1>3, <2>1
  <2> HIDE DEF axis
  <2>3. axis((base + a) - 1) = a
    BY <1>1, <2>2
  <2> QED
    BY <2>1, <2>3
<1>5. \A v \in Range(fresh) : f[v] \in Nat
  <2>1. \A a \in 1 .. N : Stride(shape, a) \in 0 .. MaxI64
    BY <1>1 DEF Addressable
  <2> HIDE DEF axis
  <2> QED
    BY <1>3, <2>1, LoopAssumption
<1>6. e = Affine(f) /\ IndexWithin(e, Range(fresh))
  <2>1. e = Affine(f)
    BY DEF RowMajorAffine
  <2>2. IndexWithin(e, Range(fresh))
    <3> HIDE DEF f, axis
    <3> QED
      BY <1>1, RowMajorWithin
  <2> HIDE DEF e, f, axis
  <2> QED
    BY <2>1, <2>2
<1> HIDE DEF axis, e
<1>7. DOMAIN f = Range(fresh)
  OBVIOUS
<1>8. \A v : Coefficient(e, v) = IF v \in Range(fresh) THEN f[v] ELSE 0
  <2> HIDE DEF f
  <2> QED
    BY <1>5, <1>6, <1>7, AffineCoefficient
<1>9. g \in Amounts /\ \A v \in 0 .. MaxLoopVar : g[v] = Coefficient(e, v) * p[v]
  BY <1>6, ContributionsAreAmounts
<1>10. ASSUME NEW a \in 1 .. N
       PROVE  g[(base + a) - 1] = x[a] * RowStride(shape, a)
  <2> DEFINE v == (base + a) - 1
  <2>1. v \in 0 .. MaxLoopVar /\ Coefficient(e, v) = Stride(shape, a)
    BY <1>1, <1>4, <1>8
  <2>2. Stride(shape, a) = RowStride(shape, a)
    BY <1>2, StrideIsExact
  <2>3. x[a] = p[v]
    BY DEF AxesAt
  <2>4. Coefficient(e, v) \in Nat /\ p[v] \in Nat
    BY <1>6, <2>1, CoefficientsAreNat, LoopAssumption DEF Amounts
  <2> HIDE DEF v, g, x
  <2>5. Coefficient(e, v) * p[v] = p[v] * Coefficient(e, v)
    BY <2>4
  <2>6. g[v] = x[a] * RowStride(shape, a)
    BY <1>9, <2>1, <2>2, <2>3, <2>5
  <2> QED
    BY <2>6 DEF v
<1>11. ASSUME NEW v \in 0 .. MaxLoopVar, (v + 1) - base \notin 1 .. N
       PROVE  g[v] = 0
  <2>1. v \notin Range(fresh)
    <3> SUFFICES ASSUME NEW a \in 1 .. N, v = (base + a) - 1 PROVE FALSE
      BY <1>1 DEF Range
    <3> QED
      BY <1>11
  <2>2. Coefficient(e, v) = 0 /\ p[v] \in Nat
    BY <1>8, <2>1 DEF Amounts
  <2> HIDE DEF g
  <2> QED
    BY <1>9, <2>2
<1> HIDE DEF g, x, N
<1>12. Total(g) = MultiToFlat(x, shape)
  <2>1. base + N <= MaxLoopVar
    BY DEF N
  <2>2. g \in Amounts /\ Len(x) = N /\ N \in Nat
    BY <1>1, <1>2, <1>9
  <2>3. \A v \in 0 .. MaxLoopVar : (v + 1) - base \notin 1 .. N => g[v] = 0
    BY <1>11
  <2>4. \A a \in 1 .. N : g[(base + a) - 1] = x[a] * RowStride(shape, a)
    BY <1>10
  <2>5. AllTermsOf(g, base, N, x, shape)
    BY <2>3, <2>4 DEF AllTermsOf
  <2> QED
    BY <2>1, <2>2, <2>5, AxisTotal
<1> QED
  BY <1>12 DEF Address, g, e, x, N

-----------------------------------------------------------------------------
(* The output address of a sum.                                             *)
\* The axes that a sum keeps.
KeptAxes(shape, axes) == {a \in DOMAIN shape : a \notin Range(axes)}

\* They are a finite set of axes.
LEMMA KeptAxesFinite ==
  ASSUME NEW shape \in Seq(Nat), NEW axes
  PROVE  LET K == KeptAxes(shape, axes)
         IN  K \subseteq 1 .. Len(shape) /\ IsFiniteSet(K) /\ K \in SUBSET Nat
<1> DEFINE K == KeptAxes(shape, axes)
<1>1. K \subseteq 1 .. Len(shape)
  BY DEF KeptAxes
<1>2. IsFiniteSet(1 .. Len(shape))
  BY FS_Interval
<1> HIDE DEF K
<1>3. IsFiniteSet(K)
  BY <1>1, <1>2, FS_Subset
<1>4. \A a \in 1 .. Len(shape) : a \in Nat
  OBVIOUS
<1>5. K \in SUBSET Nat
  BY <1>1, <1>4
<1> QED
  BY <1>1, <1>3, <1>5 DEF K

\* Where a sum puts the element at x.
OutIndex(shape, axes, keepdim, x) ==
  LET K == KeptAxes(shape, axes)
  IN  IF keepdim THEN [a \in DOMAIN shape |-> IF a \in K THEN x[a] ELSE 0]
      ELSE [k \in 1 .. Cardinality(K) |-> x[Ascending(K)[k]]]

\* It is an index of the output,
LEMMA OutIndexBelow ==
  ASSUME NEW shape \in Seq(Nat), NEW axes, NEW keepdim \in BOOLEAN, NEW x, Below(x, shape)
  PROVE  Below(OutIndex(shape, axes, keepdim, x), ReducedShape(shape, axes, keepdim))
<1> DEFINE N == Len(shape)
           K == KeptAxes(shape, axes)
           M == Cardinality(K)
           A == Ascending(K)
           z == OutIndex(shape, axes, keepdim, x)
           out == ReducedShape(shape, axes, keepdim)
<1>1. /\ N \in Nat /\ DOMAIN shape = 1 .. N
      /\ \A a \in 1 .. N : x[a] \in Nat /\ shape[a] \in Nat /\ x[a] < shape[a]
  BY DEF Below
<1>2. K \subseteq 1 .. N /\ IsFiniteSet(K) /\ K \in SUBSET Nat
  BY KeptAxesFinite
<1>3. CASE keepdim
  <2>1. z = [a \in 1 .. N |-> IF a \in K THEN x[a] ELSE 0]
    BY <1>1, <1>3 DEF OutIndex
  <2>2. out = [a \in 1 .. N |-> IF a \in K THEN shape[a] ELSE 1]
    BY <1>1, <1>3 DEF ReducedShape, KeptAxes
  <2> HIDE DEF z, out, K, N
  <2>3. \A a \in 1 .. N : z[a] \in Nat /\ out[a] \in Nat /\ z[a] < out[a]
    BY <1>1, <2>1, <2>2
  <2>4. z \in [1 .. N -> Nat] /\ out \in [1 .. N -> Nat]
    BY <2>1, <2>2, <2>3
  <2>5. z \in Seq(Nat) /\ Len(z) = N /\ out \in Seq(Nat) /\ Len(out) = N
    BY <1>1, <2>4
  <2>6. IsList(z) /\ IsList(out)
    BY <2>5, SeqIsList
  <2>7. Below(z, out)
    BY <2>3, <2>5, <2>6 DEF Below
  <2> QED
    BY <2>7 DEF z, out
<1>4. CASE ~ keepdim
  <2>1. z = [k \in 1 .. M |-> x[A[k]]]
    BY <1>4 DEF OutIndex
  <2>2. out = [k \in 1 .. M |-> shape[A[k]]]
    BY <1>4 DEF ReducedShape, KeptAxes, Ascending, Rank
  <2>3. M \in Nat
    BY <1>2, FS_CardinalityType
  <2>4. \A k \in 1 .. M : A[k] \in 1 .. N
    <3>1. A \in [1 .. M -> K]
      BY <1>2, AscendingLists
    <3> HIDE DEF A, K, M
    <3> QED
      BY <1>2, <3>1
  <2> HIDE DEF z, out, K, N, M, A
  <2>5. \A k \in 1 .. M : z[k] \in Nat /\ out[k] \in Nat /\ z[k] < out[k]
    BY <1>1, <2>1, <2>2, <2>4
  <2>6. z \in [1 .. M -> Nat] /\ out \in [1 .. M -> Nat]
    BY <2>1, <2>2, <2>5
  <2>7. z \in Seq(Nat) /\ Len(z) = M /\ out \in Seq(Nat) /\ Len(out) = M
    BY <2>3, <2>6
  <2>8. IsList(z) /\ IsList(out)
    BY <2>7, SeqIsList
  <2>9. Below(z, out)
    BY <2>5, <2>7, <2>8 DEF Below
  <2> QED
    BY <2>9 DEF z, out
<1> QED
  BY <1>3, <1>4

\* which tells the kept coordinates.
LEMMA OutIndexTells ==
  ASSUME NEW shape \in Seq(Nat), NEW axes, NEW keepdim \in BOOLEAN,
         NEW x, NEW y, Below(x, shape), Below(y, shape),
         LET z == OutIndex(shape, axes, keepdim, x)
             w == OutIndex(shape, axes, keepdim, y)
         IN  \A k \in 1 .. Len(ReducedShape(shape, axes, keepdim)) : z[k] = w[k]
  PROVE  \A a \in KeptAxes(shape, axes) : x[a] = y[a]
<1> DEFINE N == Len(shape)
           K == KeptAxes(shape, axes)
           M == Cardinality(K)
           A == Ascending(K)
           z == OutIndex(shape, axes, keepdim, x)
           w == OutIndex(shape, axes, keepdim, y)
           out == ReducedShape(shape, axes, keepdim)
<1>1. N \in Nat /\ DOMAIN shape = 1 .. N
  OBVIOUS
<1>2. K \subseteq 1 .. N /\ IsFiniteSet(K) /\ K \in SUBSET Nat
  BY KeptAxesFinite
<1>3. \A k \in 1 .. Len(out) : z[k] = w[k]
  OBVIOUS
<1> SUFFICES ASSUME NEW a \in K PROVE x[a] = y[a]
  OBVIOUS
<1>4. DOMAIN out = 1 .. Len(out)
  BY ReducedShapeIsShape
<1>5. CASE keepdim
  <2>1. /\ z = [b \in 1 .. N |-> IF b \in K THEN x[b] ELSE 0]
        /\ w = [b \in 1 .. N |-> IF b \in K THEN y[b] ELSE 0]
    BY <1>1, <1>5 DEF OutIndex
  <2>2. DOMAIN out = 1 .. N
    BY <1>1, <1>5 DEF ReducedShape
  <2> HIDE DEF z, w, out, K, N
  <2>3. a \in 1 .. N /\ z[a] = w[a]
    BY <1>2, <1>3, <1>4, <2>2
  <2> QED
    BY <2>1, <2>3
<1>6. CASE ~ keepdim
  <2>1. z = [k \in 1 .. M |-> x[A[k]]] /\ w = [k \in 1 .. M |-> y[A[k]]]
    BY <1>6 DEF OutIndex
  <2>2. DOMAIN out = 1 .. M
    BY <1>6 DEF ReducedShape, KeptAxes
  <2>3. A[Rank(K, a)] = a
    BY <1>2, AscendingLists
  <2>4. Rank(K, a) \in 1 .. M
    BY <1>2, RankMonotone
  <2> HIDE DEF z, w, out, K, N, M, A
  <2>5. z[Rank(K, a)] = w[Rank(K, a)]
    BY <1>3, <1>4, <2>2, <2>4
  <2> QED
    BY <2>1, <2>3, <2>4, <2>5
<1> QED
  BY <1>5, <1>6

\* The axis of the output for an axis that is kept.
OutAxisOf(K, keepdim, a) == IF keepdim THEN a ELSE Rank(K, a)

\* The coefficients of the output address.
LEMMA SumCoefficients ==
  ASSUME NEW shape \in Seq(Nat), NEW axes, NEW keepdim \in BOOLEAN, NEW base \in Nat,
         base + Len(shape) <= MaxLoopVar, Addressable(ReducedShape(shape, axes, keepdim))
  PROVE  LET out == ReducedShape(shape, axes, keepdim)
             K == KeptAxes(shape, axes)
             e == SumOutputAffine(out, axes, keepdim,
                                  [a \in 1 .. Len(shape) |-> (base + a) - 1])
         IN  /\ IndexWithin(e, 0 .. MaxLoopVar)
             /\ DOMAIN e \subseteq {(base + a) - 1 : a \in K}
             /\ \A a \in K : /\ Coefficient(e, (base + a) - 1)
                                  = Stride(out, OutAxisOf(K, keepdim, a))
                             /\ OutAxisOf(K, keepdim, a) \in 1 .. Len(out)
<1> DEFINE N == Len(shape)
           K == KeptAxes(shape, axes)
           M == Cardinality(K)
           A == Ascending(K)
           out == ReducedShape(shape, axes, keepdim)
           fresh == [a \in 1 .. N |-> (base + a) - 1]
           e == SumOutputAffine(out, axes, keepdim, fresh)
           place(v) == CHOOSE k \in DOMAIN A : fresh[A[k]] = v
           axis(k) == IF keepdim THEN A[k] ELSE k
           V == {fresh[a] : a \in Range(A)}
           f == [v \in V |-> Stride(out, axis(place(v)))]
<1>1. N \in Nat /\ DOMAIN shape = 1 .. N /\ DOMAIN fresh = 1 .. N
  OBVIOUS
<1>2. K \subseteq 1 .. N /\ IsFiniteSet(K) /\ K \in SUBSET Nat
  BY KeptAxesFinite
<1>3. /\ A \in [1 .. M -> K]
      /\ \A k \in 1 .. M : Rank(K, A[k]) = k
      /\ \A a \in K : A[Rank(K, a)] = a /\ Rank(K, a) \in 1 .. M
  BY <1>2, AscendingLists, RankMonotone
<1>4. {a \in DOMAIN fresh : a \notin Range(axes)} = K
  BY <1>1 DEF KeptAxes
<1>5. e = Affine(f)
  <2> DEFINE J == {a \in DOMAIN fresh : a \notin Range(axes)}
             B == Ascending(J)
             h == [v \in {fresh[a] : a \in Range(B)} |->
                     Stride(out, IF keepdim THEN B[CHOOSE k \in DOMAIN B : fresh[B[k]] = v]
                                 ELSE CHOOSE k \in DOMAIN B : fresh[B[k]] = v)]
  <2>1. e = Affine(h)
    BY Zenon DEF SumOutputAffine
  <2>2. B = A
    BY <1>4
  <2> HIDE DEF A, B, e, fresh, out
  <2>3. h = f
    BY <2>2
  <2> HIDE DEF h, f
  <2> QED
    BY <2>1, <2>3
<1>6. DOMAIN out = IF keepdim THEN 1 .. N ELSE 1 .. M
  BY <1>1 DEF ReducedShape, KeptAxes
<1>7. out \in Seq(Nat) /\ DOMAIN out = 1 .. Len(out)
  BY ReducedShapeIsShape
<1>8. \A a \in 1 .. N : fresh[a] = (base + a) - 1 /\ fresh[a] \in 0 .. MaxLoopVar
  BY LoopAssumption
<1>9. \A a, b \in 1 .. N : fresh[a] = fresh[b] => a = b
  BY <1>8
<1> HIDE DEF A, out, fresh, N, M, e
<1>10. Range(A) = K
  <2>1. \A k \in DOMAIN A : A[k] \in K
    BY <1>3
  <2>2. \A a \in K : \E k \in DOMAIN A : A[k] = a
    BY <1>3
  <2> HIDE DEF K
  <2> QED
    BY <2>1, <2>2 DEF Range
<1>11. ASSUME NEW a \in K
       PROVE  fresh[a] \in V /\ place(fresh[a]) = Rank(K, a)
  <2>1. fresh[a] \in V
    BY <1>10
  <2>2. \E k \in DOMAIN A : fresh[A[k]] = fresh[a]
    BY <1>3
  <2>3. place(fresh[a]) \in DOMAIN A /\ fresh[A[place(fresh[a])]] = fresh[a]
    BY <2>2
  <2> DEFINE k == place(fresh[a])
  <2> HIDE DEF k, K
  <2>4. k \in 1 .. M /\ fresh[A[k]] = fresh[a]
    BY <1>3, <2>3 DEF k
  <2>5. A[k] = a
    BY <1>2, <1>3, <1>9, <2>4
  <2>6. k = Rank(K, a)
    BY <1>3, <2>4, <2>5
  <2> QED
    BY <2>1, <2>6 DEF k
<1>12. ASSUME NEW a \in K
       PROVE  /\ OutAxisOf(K, keepdim, a) \in 1 .. Len(out)
              /\ axis(place(fresh[a])) = OutAxisOf(K, keepdim, a)
  <2>1. place(fresh[a]) = Rank(K, a) /\ A[Rank(K, a)] = a /\ Rank(K, a) \in 1 .. M /\ a \in 1 .. N
    BY <1>2, <1>3, <1>11
  <2> HIDE DEF K, place
  <2>2. CASE keepdim
    BY <1>6, <1>7, <2>1, <2>2 DEF OutAxisOf
  <2>3. CASE ~ keepdim
    BY <1>6, <1>7, <2>1, <2>3 DEF OutAxisOf
  <2> QED
    BY <2>2, <2>3
<1>13. \A v \in V : \E a \in K : v = fresh[a]
  BY <1>10
<1>14. ASSUME NEW a \in K
       PROVE  f[fresh[a]] = Stride(out, OutAxisOf(K, keepdim, a))
  <2> HIDE DEF K, place, axis, V
  <2> QED
    BY <1>11, <1>12
<1>15. DOMAIN f = V
  OBVIOUS
<1>16. \A k \in 1 .. Len(out) : Stride(out, k) \in 0 .. MaxI64
  <2>1. Addressable(out)
    BY DEF out
  <2> QED
    BY <1>7, <2>1 DEF Addressable
<1> HIDE DEF f, V, place, axis
<1>17. \A v \in DOMAIN f : f[v] \in 0 .. MaxI64
  <2> SUFFICES ASSUME NEW v \in V PROVE f[v] \in 0 .. MaxI64
    BY <1>15
  <2>1. PICK a \in K : v = fresh[a]
    BY <1>13
  <2> HIDE DEF K
  <2> QED
    BY <1>12, <1>14, <1>16, <2>1
<1>18. /\ \A v : Coefficient(e, v) = IF v \in V THEN f[v] ELSE 0
       /\ DOMAIN e \subseteq V
  <2>1. \A v \in DOMAIN f : f[v] \in Nat
    BY <1>17, LoopAssumption
  <2> QED
    BY <1>5, <1>15, <2>1, AffineCoefficient
<1>19. IndexWithin(e, V)
  BY <1>5, <1>15, <1>17, AffineWithin
<1>20. V \subseteq 0 .. MaxLoopVar
  BY <1>2, <1>8, <1>13
<1>21. IndexWithin(e, 0 .. MaxLoopVar)
  BY <1>19, <1>20 DEF IndexWithin
<1>22. DOMAIN e \subseteq {(base + a) - 1 : a \in K}
  <2> HIDE DEF K
  <2> QED
    BY <1>2, <1>8, <1>13, <1>18
<1>23. ASSUME NEW a \in K
       PROVE  /\ Coefficient(e, (base + a) - 1) = Stride(out, OutAxisOf(K, keepdim, a))
              /\ OutAxisOf(K, keepdim, a) \in 1 .. Len(out)
  <2>1. fresh[a] = (base + a) - 1 /\ fresh[a] \in V
    BY <1>2, <1>8, <1>11
  <2> HIDE DEF K
  <2> QED
    BY <1>12, <1>14, <1>18, <2>1
<1> QED
  BY <1>21, <1>22, <1>23 DEF e, out, fresh, N

\* The address that lowering adds an element of the input to is the offset of the
\* element of the output that it belongs to.
LEMMA SumAddress ==
  ASSUME NEW shape \in Seq(Nat), NEW axes, NEW keepdim \in BOOLEAN, NEW base \in Nat,
         base + Len(shape) <= MaxLoopVar, Addressable(ReducedShape(shape, axes, keepdim)),
         Numel(ReducedShape(shape, axes, keepdim)) # Overflow,
         NEW p \in Amounts, \A a \in 1 .. Len(shape) : p[(base + a) - 1] < shape[a]
  PROVE  LET out == ReducedShape(shape, axes, keepdim)
         IN  Address(SumOutputAffine(out, axes, keepdim,
                                     [a \in 1 .. Len(shape) |-> (base + a) - 1]), p)
               = MultiToFlat(OutIndex(shape, axes, keepdim, AxesAt(p, base, Len(shape))), out)
<1> DEFINE N == Len(shape)
           K == KeptAxes(shape, axes)
           M == Cardinality(K)
           A == Ascending(K)
           out == ReducedShape(shape, axes, keepdim)
           x == AxesAt(p, base, N)
           z == OutIndex(shape, axes, keepdim, x)
           e == SumOutputAffine(out, axes, keepdim, [a \in 1 .. N |-> (base + a) - 1])
           g == Contributions(e, p)
<1>1. /\ N \in Nat /\ DOMAIN shape = 1 .. N
      /\ \A a \in 1 .. N : (base + a) - 1 \in 0 .. MaxLoopVar
  BY LoopAssumption
<1>2. K \subseteq 1 .. N /\ IsFiniteSet(K) /\ K \in SUBSET Nat
  BY KeptAxesFinite
<1>3. Below(x, shape)
  BY AxesBelow
<1>4. Below(z, out)
  BY <1>3, OutIndexBelow
<1>5. /\ out \in Seq(Nat) /\ Len(z) = Len(out)
      /\ \A k \in 1 .. Len(out) : out[k] # 0
  BY <1>4, BelowShape
<1>6. /\ IndexWithin(e, 0 .. MaxLoopVar)
      /\ DOMAIN e \subseteq {(base + a) - 1 : a \in K}
      /\ \A a \in K : /\ Coefficient(e, (base + a) - 1) = Stride(out, OutAxisOf(K, keepdim, a))
                      /\ OutAxisOf(K, keepdim, a) \in 1 .. Len(out)
  BY SumCoefficients
<1>7. g \in Amounts /\ \A v \in 0 .. MaxLoopVar : g[v] = Coefficient(e, v) * p[v]
  BY <1>6, ContributionsAreAmounts
<1>8. \A k \in 1 .. Len(out) : Stride(out, k) = RowStride(out, k)
  BY <1>5, StrideIsExact
<1>9. \A a \in 1 .. N : x[a] = p[(base + a) - 1]
  BY DEF AxesAt
<1>10. \A a \in K : z[OutAxisOf(K, keepdim, a)] = x[a]
  <2> SUFFICES ASSUME NEW a \in K PROVE z[OutAxisOf(K, keepdim, a)] = x[a]
    OBVIOUS
  <2>1. a \in DOMAIN shape
    BY <1>1, <1>2
  <2>2. CASE keepdim
    <3>1. z = [b \in DOMAIN shape |-> IF b \in K THEN x[b] ELSE 0]
      BY <2>2 DEF OutIndex
    <3> HIDE DEF z, K, x
    <3> QED
      BY <2>1, <2>2, <3>1 DEF OutAxisOf
  <2>3. CASE ~ keepdim
    <3>1. z = [k \in 1 .. M |-> x[A[k]]]
      BY <2>3 DEF OutIndex
    <3>2. A[Rank(K, a)] = a /\ Rank(K, a) \in 1 .. M
      BY <1>2, AscendingLists, RankMonotone
    <3> HIDE DEF z, K, x, M, A
    <3> QED
      BY <2>3, <3>1, <3>2 DEF OutAxisOf
  <2> QED
    BY <2>2, <2>3
<1> HIDE DEF out, x, z, e, g
<1>11. ASSUME NEW a \in K
       PROVE  g[(base + a) - 1] = z[OutAxisOf(K, keepdim, a)] * RowStride(out, OutAxisOf(K, keepdim, a))
  <2> DEFINE v == (base + a) - 1
             k == OutAxisOf(K, keepdim, a)
  <2>1. a \in 1 .. N /\ v \in 0 .. MaxLoopVar /\ k \in 1 .. Len(out)
    BY <1>1, <1>2, <1>6
  <2>2. Coefficient(e, v) = Stride(out, k) /\ Stride(out, k) = RowStride(out, k)
    BY <1>6, <1>8, <2>1
  <2>3. Coefficient(e, v) \in Nat /\ p[v] \in Nat
    BY <1>6, <2>1, CoefficientsAreNat, LoopAssumption DEF Amounts
  <2>4. z[k] = p[v]
    BY <1>9, <1>10, <2>1
  <2> HIDE DEF v, k, K, N
  <2>5. Coefficient(e, v) * p[v] = p[v] * Coefficient(e, v)
    BY <2>3
  <2>6. g[v] = z[k] * RowStride(out, k)
    BY <1>7, <2>1, <2>2, <2>4, <2>5
  <2> QED
    BY <2>6 DEF v, k
<1>12. ASSUME NEW v \in 0 .. MaxLoopVar, (v + 1) - base \notin K
       PROVE  g[v] = 0
  <2>1. v \notin DOMAIN e
    <3> SUFFICES ASSUME NEW a \in K, v = (base + a) - 1 PROVE FALSE
      BY <1>6
    <3>1. a \in Nat
      BY <1>2
    <3>2. (v + 1) - base = a
      BY <3>1
    <3> QED
      BY <1>12, <3>2
  <2>2. Coefficient(e, v) = 0 /\ p[v] \in Nat
    BY <2>1 DEF Coefficient, Amounts
  <2> QED
    BY <1>7, <2>2
<1> HIDE DEF K, N
<1>13. base + N <= MaxLoopVar
  BY DEF N
<1>14. CASE keepdim
  <2>1. Len(out) = N
    <3>1. out = [a \in 1 .. N |-> IF a \in K THEN shape[a] ELSE 1]
      BY <1>1, <1>14 DEF out, ReducedShape, KeptAxes, K
    <3>2. DOMAIN out = 1 .. N
      BY <3>1
    <3>4. DOMAIN out = 1 .. Len(out)
      BY <1>5
    <3>3. Len(out) \in Nat
      BY <1>5
    <3> QED
      BY <1>1, <3>2, <3>3, <3>4
  <2>2. ASSUME NEW a \in 1 .. N
        PROVE  g[(base + a) - 1] = z[a] * RowStride(out, a)
    <3>1. CASE a \in K
      BY <1>11, <1>14, <3>1 DEF OutAxisOf
    <3>2. CASE a \notin K
      <4>1. z[a] = 0
        <5>1. z = [b \in 1 .. N |-> IF b \in K THEN x[b] ELSE 0]
          BY <1>1, <1>14 DEF z, OutIndex, K
        <5> QED
          BY <3>2, <5>1
      <4>2. RowStride(out, a) \in Nat
        <5>1. Stride(out, a) \in 0 .. MaxI64
          <6>1. Addressable(out) /\ DOMAIN out = 1 .. N
            BY <1>5, <2>1 DEF out
          <6> QED
            BY <6>1 DEF Addressable
        <5> QED
          BY <1>8, <2>1, <5>1, LoopAssumption
      <4>3. (base + a) - 1 \in 0 .. MaxLoopVar /\ (((base + a) - 1) + 1) - base = a
        <5>1. a \in Nat
          BY <1>1
        <5>2. (((base + a) - 1) + 1) - base = a
          BY <5>1
        <5> QED
          BY <1>1, <5>2
      <4>4. g[(base + a) - 1] = 0
        BY <1>12, <3>2, <4>3
      <4> QED
        BY <4>1, <4>2, <4>4
    <3> QED
      BY <3>1, <3>2
  <2>3. \A v \in 0 .. MaxLoopVar : (v + 1) - base \notin 1 .. N => g[v] = 0
    BY <1>2, <1>12
  <2>4. AllTermsOf(g, base, N, z, out)
    BY <2>2, <2>3 DEF AllTermsOf
  <2>5. Len(z) = N
    BY <1>5, <2>1
  <2>6. Total(g) = MultiToFlat(z, out)
    BY <1>1, <1>7, <1>13, <2>4, <2>5, AxisTotal
  <2> QED
    BY <2>6 DEF Address, g, e, z, x, out, N
<1>15. CASE ~ keepdim
  <2>1. TermsOf(g, base, K, z, out)
    <3>1. \A a \in K : g[(base + a) - 1] = z[Rank(K, a)] * RowStride(out, Rank(K, a))
      BY <1>11, <1>15 DEF OutAxisOf
    <3>2. \A v \in 0 .. MaxLoopVar : (v + 1) - base \notin K => g[v] = 0
      BY <1>12
    <3> QED
      BY <3>1, <3>2 DEF TermsOf
  <2>2. Len(z) = Cardinality(K)
    <3>1. DOMAIN out = 1 .. M
      BY <1>15 DEF out, ReducedShape, KeptAxes, K
    <3>2. M \in Nat
      BY <1>2, FS_CardinalityType
    <3>3. DOMAIN out = 1 .. Len(out) /\ Len(out) \in Nat
      BY <1>5
    <3> HIDE DEF M
    <3>4. Len(out) = M
      BY <3>1, <3>2, <3>3
    <3> QED
      BY <1>5, <3>4 DEF M
  <2>3. Total(g) = MultiToFlat(z, out)
    <3>1. g \in Amounts /\ N \in Nat /\ K \subseteq 1 .. N /\ base \in Nat
      BY <1>1, <1>2, <1>7
    <3> HIDE DEF M, A
    <3> QED
      BY <1>13, <2>1, <2>2, <3>1, KeptTotal
  <2> QED
    BY <2>3 DEF Address, g, e, z, x, out, N
<1> QED
  BY <1>14, <1>15

\* The variables of the loops over the axes of a tensor.
AxisVars(base, n) == [a \in 1 .. n |-> (base + a) - 1]

\* These loops are within the tensor.
InAxes(p, base, shape) ==
  p \in Amounts /\ \A a \in 1 .. Len(shape) : p[(base + a) - 1] < shape[a]

\* ElementsOf of the input that are added to one element of the output are told apart
\* by the axes that are summed only.
LEMMA SumApart ==
  ASSUME NEW shape, NEW axes, NEW keepdim, NEW base, NEW p, NEW q, NEW e,
         shape \in Seq(Nat), keepdim \in BOOLEAN, base \in Nat,
         base + Len(shape) <= MaxLoopVar, Addressable(ReducedShape(shape, axes, keepdim)),
         Numel(ReducedShape(shape, axes, keepdim)) # Overflow,
         InAxes(p, base, shape), InAxes(q, base, shape),
         e = SumOutputAffine(ReducedShape(shape, axes, keepdim), axes, keepdim,
                             AxisVars(base, Len(shape)))
  PROVE  /\ Address(e, p) \in 0 .. Numel(ReducedShape(shape, axes, keepdim)) - 1
         /\ Address(e, p) = Address(e, q) => \A v \in DOMAIN e : p[v] = q[v]
<1> DEFINE N == Len(shape)
           K == KeptAxes(shape, axes)
           out == ReducedShape(shape, axes, keepdim)
           x == AxesAt(p, base, N)
           y == AxesAt(q, base, N)
           z == OutIndex(shape, axes, keepdim, x)
           w == OutIndex(shape, axes, keepdim, y)
<1>1. Address(e, p) = MultiToFlat(z, out)
  BY SumAddress DEF InAxes, AxisVars
<1>2. Address(e, q) = MultiToFlat(w, out)
  BY SumAddress DEF InAxes, AxisVars
<1>3. Below(x, shape) /\ Below(y, shape)
  BY AxesBelow DEF InAxes
<1>4. Below(z, out) /\ Below(w, out)
  BY <1>3, OutIndexBelow
<1>5. DOMAIN e \subseteq {(base + a) - 1 : a \in K}
  BY SumCoefficients DEF AxisVars
<1>6. K \subseteq 1 .. N
  BY KeptAxesFinite
<1>7. \A a \in 1 .. N : x[a] = p[(base + a) - 1] /\ y[a] = q[(base + a) - 1]
  BY DEF AxesAt
<1>8. Numel(out) # Overflow
  OBVIOUS
<1>9. ASSUME Address(e, p) = Address(e, q)
      PROVE  \A v \in DOMAIN e : p[v] = q[v]
  <2>1. \A k \in 1 .. Len(out) : z[k] = w[k]
    <3> HIDE DEF z, w, out
    <3>1. MultiToFlat(z, out) = MultiToFlat(w, out)
      BY <1>1, <1>2, <1>9
    <3> QED
      BY <1>4, <1>8, <3>1, OffsetUnique
  <2>2. \A a \in K : x[a] = y[a]
    BY <1>3, <2>1, OutIndexTells
  <2> HIDE DEF K, x, y, N
  <2> QED
    BY <1>5, <1>6, <1>7, <2>2
<1>10. Address(e, p) \in 0 .. Numel(out) - 1
  <2> HIDE DEF z, out
  <2> QED
    BY <1>1, <1>4, <1>8, OffsetInRange
<1> QED
  BY <1>9, <1>10

\* The same of the address of a tensor's element.
LEMMA RowMajorApart ==
  ASSUME NEW shape, NEW base, NEW p, NEW q, NEW e,
         shape \in Seq(Nat), Numel(shape) # Overflow, Addressable(shape),
         base \in Nat, base + Len(shape) <= MaxLoopVar,
         InAxes(p, base, shape), InAxes(q, base, shape),
         e = RowMajorAffine(shape, AxisVars(base, Len(shape)))
  PROVE  /\ Address(e, p) \in 0 .. Numel(shape) - 1
         /\ Address(e, p) = Address(e, q) => \A v \in DOMAIN e : p[v] = q[v]
<1> DEFINE N == Len(shape)
           x == AxesAt(p, base, N)
           y == AxesAt(q, base, N)
           fresh == AxisVars(base, N)
<1>1. Address(e, p) = MultiToFlat(x, shape)
  BY RowMajorAddress DEF InAxes, AxisVars
<1>2. Address(e, q) = MultiToFlat(y, shape)
  BY RowMajorAddress DEF InAxes, AxisVars
<1>3. Below(x, shape) /\ Below(y, shape)
  BY AxesBelow DEF InAxes
<1>4. \A a \in 1 .. N : x[a] = p[(base + a) - 1] /\ y[a] = q[(base + a) - 1]
  BY DEF AxesAt
<1>5. DOMAIN e \subseteq {(base + a) - 1 : a \in 1 .. N}
  <2>1. DOMAIN fresh = DOMAIN shape
    BY DEF AxisVars
  <2>2. IndexWithin(e, Range(fresh))
    <3> HIDE DEF fresh
    <3> QED
      BY <2>1, RowMajorWithin DEF fresh, N
  <2> QED
    BY <2>2 DEF IndexWithin, Range, AxisVars
<1>6. ASSUME Address(e, p) = Address(e, q)
      PROVE  \A v \in DOMAIN e : p[v] = q[v]
  <2> HIDE DEF x, y, N
  <2>1. \A a \in 1 .. N : x[a] = y[a]
    <3>1. MultiToFlat(x, shape) = MultiToFlat(y, shape)
      BY <1>1, <1>2, <1>6
    <3>2. Below(x, shape) /\ Below(y, shape) /\ Numel(shape) # Overflow
      BY <1>3
    <3>3. \A a \in 1 .. Len(shape) : x[a] = y[a]
      BY <3>1, <3>2, OffsetUnique
    <3> QED
      BY <3>3 DEF N
  <2> QED
    BY <1>4, <1>5, <2>1
<1>7. Address(e, p) \in 0 .. Numel(shape) - 1
  <2> HIDE DEF x
  <2> QED
    BY <1>1, <1>3, OffsetInRange
<1> QED
  BY <1>6, <1>7

-----------------------------------------------------------------------------
(* The nests of lowering.                                                   *)
\* Indices that reach different places at different points, all below a bound.
Indexes(e, levels, count) ==
  \A p, q \in Points(levels) :
     /\ Address(e, p) \in 0 .. count - 1
     /\ Address(e, p) = Address(e, q) => \A v \in DOMAIN e : p[v] = q[v]

\* A nest of one assignment is sound if its target is indexed so, and what it loads is
\* in the buffers and elsewhere or the target.
LEMMA OneAssignSound ==
  ASSUME NEW levels, Sized(levels), NEW target, NEW op, NEW loads, NEW buffers,
         Fits(buffers, target) => Indexes(target.index, levels, ElementsOf(buffers, target)),
         \A ref \in Range(loads) :
            /\ ref.buffer = target.buffer => ref = target
            /\ ref # target =>
                  (Fits(buffers, ref) => \A p \in Points(levels) :
                                            Address(ref.index, p) \in 0 .. ElementsOf(buffers, ref) - 1)
  PROVE  Sound(Nest(levels, <<Assign(target, op, loads)>>), buffers)
<1> DEFINE body == <<Assign(target, op, loads)>>
           nest == Nest(levels, body)
<1>1. nest.levels = levels /\ nest.body = body
  BY DEF Nest
<1>2. DOMAIN body = {1} /\ body[1].target = target /\ body[1].loads = loads
  BY DEF Assign
<1>3. Writes(body) = {target} /\ Reads(body) = Range(loads)
  BY <1>2 DEF Writes, Reads
<1>4. References(nest) = Range(loads) \cup {target}
  BY <1>1, <1>3 DEF References
<1> HIDE DEF body, nest
<1>5. ASSUME NEW ref \in References(nest), Fits(buffers, ref), NEW p \in Points(levels)
      PROVE  Address(ref.index, p) < ElementsOf(buffers, ref)
  <2>1. Address(ref.index, p) \in 0 .. ElementsOf(buffers, ref) - 1
    <3>1. CASE ref = target
      BY <1>5, <3>1 DEF Indexes
    <3>2. CASE ref # target
      BY <1>4, <1>5, <3>2
    <3> QED
      BY <3>1, <3>2
  <2>2. ElementsOf(buffers, ref) \in Nat
    BY <1>5, LoopAssumption DEF Fits
  <2> QED
    BY <2>1, <2>2
<1>6. InBuffers(nest, buffers)
  BY <1>1, <1>5 DEF InBuffers
<1>7. PlacesApart(nest, buffers)
  BY <1>1, <1>3 DEF PlacesApart, Indexes
<1>8. OneIndexEach(nest)
  BY <1>1, <1>3, <1>4 DEF OneIndexEach
<1> QED
  BY <1>1, <1>6, <1>7, <1>8 DEF Sound, nest, body

\* The points of the loops over a tensor.
LEMMA LoopPoints ==
  ASSUME NEW shape \in Seq(Nat), NEW base \in Nat, NEW fresh,
         fresh = AxisVars(base, Len(shape))
  PROVE  LET levels == LevelsOf(shape, fresh)
         IN  /\ Sized(levels)
             /\ \A p \in Points(levels) : InAxes(p, base, shape)
<1> DEFINE N == Len(shape)
           levels == LevelsOf(shape, fresh)
<1>1. N \in Nat /\ \A a \in 1 .. N : shape[a] \in Nat
  OBVIOUS
<1>2. levels = [a \in 1 .. N |-> Level((base + a) - 1, shape[a])]
  BY DEF LevelsOf, AxisVars
<1> HIDE DEF levels, N
<1>3. \A a \in 1 .. N : levels[a].var = (base + a) - 1 /\ levels[a].extent = shape[a]
  BY <1>2 DEF Level
<1>4. Range(levels) = {levels[a] : a \in 1 .. N}
  BY <1>2 DEF Range
<1>5. Sized(levels)
  BY <1>1, <1>3, <1>4 DEF Sized
<1>6. ASSUME NEW p \in Points(levels), NEW a \in 1 .. N
      PROVE  p[(base + a) - 1] < shape[a]
  <2>1. levels[a] \in Range(levels)
    BY <1>4
  <2>2. p[levels[a].var] < levels[a].extent
    BY <2>1 DEF Points
  <2> QED
    BY <1>3, <2>2
<1>7. \A p \in Points(levels) : p \in Amounts
  BY DEF Points
<1> QED
  BY <1>5, <1>6, <1>7 DEF levels, N, InAxes

\* A row-major index over them,
LEMMA RowMajorIndexes ==
  ASSUME NEW shape \in Seq(Nat), Addressable(shape), NEW base \in Nat,
         base + Len(shape) <= MaxLoopVar, NEW fresh,
         fresh = AxisVars(base, Len(shape)), Numel(shape) # Overflow
  PROVE  Indexes(RowMajorAffine(shape, fresh), LevelsOf(shape, fresh), Numel(shape))
<1> DEFINE levels == LevelsOf(shape, fresh)
           e == RowMajorAffine(shape, fresh)
<1>1. \A p \in Points(levels) : InAxes(p, base, shape)
  BY LoopPoints
<1>2. e = RowMajorAffine(shape, AxisVars(base, Len(shape)))
  OBVIOUS
<1> HIDE DEF levels, e
<1>3. ASSUME NEW p \in Points(levels), NEW q \in Points(levels)
      PROVE  /\ Address(e, p) \in 0 .. Numel(shape) - 1
             /\ Address(e, p) = Address(e, q) => \A v \in DOMAIN e : p[v] = q[v]
  BY <1>1, <1>2, RowMajorApart
<1> QED
  BY <1>3 DEF Indexes, levels, e

\* and the index of a sum's output.
LEMMA SumIndexes ==
  ASSUME NEW shape \in Seq(Nat), NEW axes, NEW keepdim \in BOOLEAN, NEW base \in Nat,
         base + Len(shape) <= MaxLoopVar, Addressable(ReducedShape(shape, axes, keepdim)),
         Numel(ReducedShape(shape, axes, keepdim)) # Overflow,
         NEW fresh, fresh = AxisVars(base, Len(shape))
  PROVE  Indexes(SumOutputAffine(ReducedShape(shape, axes, keepdim), axes, keepdim, fresh),
                 LevelsOf(shape, fresh), Numel(ReducedShape(shape, axes, keepdim)))
<1> DEFINE levels == LevelsOf(shape, fresh)
           out == ReducedShape(shape, axes, keepdim)
           e == SumOutputAffine(out, axes, keepdim, fresh)
<1>1. \A p \in Points(levels) : InAxes(p, base, shape)
  BY LoopPoints
<1>2. e = SumOutputAffine(ReducedShape(shape, axes, keepdim), axes, keepdim,
                          AxisVars(base, Len(shape)))
  OBVIOUS
<1> HIDE DEF levels, e
<1>3. ASSUME NEW p \in Points(levels), NEW q \in Points(levels)
      PROVE  /\ Address(e, p) \in 0 .. Numel(out) - 1
             /\ Address(e, p) = Address(e, q) => \A v \in DOMAIN e : p[v] = q[v]
  BY <1>1, <1>2, SumApart
<1> QED
  BY <1>3 DEF Indexes, levels, e

\* The element count of a matrix, unless it overflows.
LEMMA NumelOfMatrix ==
  ASSUME NEW m \in Nat, NEW n \in Nat, Numel(<<m, n>>) # Overflow
  PROVE  Numel(<<m, n>>) = m * n
<1> DEFINE shape == <<m, n>>
           f == ExtentProducts(shape)
<1>1. Len(shape) = 2 /\ shape[1] = m /\ shape[2] = n
  OBVIOUS
<1>2. f[2] # Overflow
  <2>1. Numel(shape) # Overflow
    OBVIOUS
  <2> HIDE DEF shape
  <2> QED
    BY <1>1, <2>1 DEF Numel
<1> HIDE DEF shape
<1>3. f = [k \in 0 .. 2 |-> IF k = 0 THEN 1 ELSE CheckedMul(f[k - 1], shape[k])]
  BY <1>1, ExtentProductsDef
<1> HIDE DEF f
<1>4. f[0] = 1 /\ f[1] = CheckedMul(f[0], m) /\ f[2] = CheckedMul(f[1], n)
  BY <1>1, <1>3
<1>5. f[1] # Overflow
  BY <1>2, <1>4 DEF CheckedMul
<1>6. f[1] = m
  BY <1>4, <1>5 DEF CheckedMul, Overflow
<1>7. f[2] = m * n
  BY <1>2, <1>4, <1>5, <1>6 DEF CheckedMul, Overflow
<1> QED
  BY <1>1, <1>7 DEF Numel, f, shape

\* The address of two terms.
LEMMA TwoTermsAddress ==
  ASSUME NEW v, NEW w, NEW c, NEW p,
         v \in 0 .. MaxLoopVar, w \in 0 .. MaxLoopVar, v # w, c \in 0 .. MaxI64, p \in Amounts
  PROVE  LET e == Affine(TwoTerms(v, c, w, 1))
         IN  /\ Address(e, p) = c * p[v] + p[w]
             /\ DOMAIN e \subseteq {v, w}
<1> DEFINE f == TwoTerms(v, c, w, 1)
           e == Affine(f)
           g == Contributions(e, p)
<1>1. f = [x \in {v, w} |-> IF x = v THEN c ELSE 1]
  BY DEF TwoTerms
<1> HIDE DEF f
<1>2. DOMAIN f = {v, w} /\ f[v] = c /\ f[w] = 1
  BY <1>1
<1>3. /\ \A x : Coefficient(e, x) = IF x \in {v, w} THEN f[x] ELSE 0
      /\ DOMAIN e \subseteq {v, w}
  <2>1. \A x \in DOMAIN f : f[x] \in Nat
    BY <1>2, LoopAssumption
  <2> QED
    BY <1>2, <2>1, AffineCoefficient
<1>4. IndexWithin(e, {v, w})
  <2>1. \A x \in DOMAIN f : f[x] \in 0 .. MaxI64
    BY <1>2, LoopAssumption
  <2> QED
    BY <1>2, <2>1, AffineWithin
<1> HIDE DEF e
<1>5. g \in Amounts /\ \A x \in 0 .. MaxLoopVar : g[x] = Coefficient(e, x) * p[x]
  BY <1>4, ContributionsAreAmounts
<1> HIDE DEF g
<1>6. \A x \in 0 .. MaxLoopVar : p[x] \in Nat
  BY DEF Amounts
<1>7. \A x \in 0 .. MaxLoopVar : x # v /\ x # w => g[x] = 0
  BY <1>3, <1>5, <1>6
<1>8. g[v] = c * p[v] /\ g[w] = p[w]
  <2>1. Coefficient(e, v) = c /\ Coefficient(e, w) = 1
    BY <1>2, <1>3
  <2>2. 1 * p[w] = p[w]
    BY <1>6
  <2> QED
    BY <1>5, <2>1, <2>2
<1>9. Total(g) = g[v] + g[w]
  BY <1>5, <1>7, TotalOfTwo
<1> QED
  BY <1>3, <1>8, <1>9 DEF Address, g, e, f

\* The offset of an element of a matrix is below the count.
LEMMA MatrixOffset ==
  ASSUME NEW m \in Nat, NEW n \in Nat, NEW x \in Nat, NEW y \in Nat, x < m, y < n
  PROVE  n * x + y \in 0 .. m * n - 1
<1>1. n * (x + 1) <= n * m
  BY MulMonotone
<1>2. n * (x + 1) = n * x + n /\ n * m = m * n /\ n * x \in Nat /\ m * n \in Nat
  OBVIOUS
<1> DEFINE a == n * x
           b == m * n
<1>3. a \in Nat /\ b \in Nat /\ a + n <= b
  BY <1>1, <1>2
<1> HIDE DEF a, b
<1>4. a + y \in 0 .. b - 1
  BY <1>3
<1> QED
  BY <1>4 DEF a, b

\* The index of a matrix's element, row before column.
LEMMA MatrixIndexes ==
  ASSUME NEW levels, NEW v, NEW w, NEW m, NEW n,
         v \in 0 .. MaxLoopVar, w \in 0 .. MaxLoopVar, v # w,
         m \in Nat, n \in 0 .. MaxI64,
         Level(v, m) \in Range(levels), Level(w, n) \in Range(levels),
         Numel(<<m, n>>) # Overflow
  PROVE  Indexes(Affine(TwoTerms(v, n, w, 1)), levels, Numel(<<m, n>>))
<1> DEFINE e == Affine(TwoTerms(v, n, w, 1))
<1>1. n \in Nat
  BY LoopAssumption
<1>2. Numel(<<m, n>>) = m * n
  BY <1>1, NumelOfMatrix
<1>3. ASSUME NEW p \in Points(levels)
      PROVE  /\ p \in Amounts /\ p[v] \in Nat /\ p[w] \in Nat /\ p[v] < m /\ p[w] < n
             /\ Address(e, p) = n * p[v] + p[w] /\ DOMAIN e \subseteq {v, w}
  <2>1. p \in Amounts /\ p[Level(v, m).var] < Level(v, m).extent
        /\ p[Level(w, n).var] < Level(w, n).extent
    BY DEF Points
  <2>2. p[v] < m /\ p[w] < n
    BY <2>1 DEF Level
  <2>3. p[v] \in Nat /\ p[w] \in Nat
    BY <2>1 DEF Amounts
  <2>4. Address(e, p) = n * p[v] + p[w] /\ DOMAIN e \subseteq {v, w}
    BY <2>1, TwoTermsAddress
  <2> QED
    BY <2>1, <2>2, <2>3, <2>4
<1> HIDE DEF e
<1>4. ASSUME NEW p \in Points(levels), NEW q \in Points(levels)
      PROVE  /\ Address(e, p) \in 0 .. Numel(<<m, n>>) - 1
             /\ Address(e, p) = Address(e, q) => \A x \in DOMAIN e : p[x] = q[x]
  <2> DEFINE x1 == p[v]
             y1 == p[w]
             x2 == q[v]
             y2 == q[w]
             N == Numel(<<m, n>>)
  <2>1. /\ x1 \in Nat /\ y1 \in Nat /\ x2 \in Nat /\ y2 \in Nat
        /\ x1 < m /\ y1 < n /\ y2 < n
        /\ Address(e, p) = n * x1 + y1 /\ Address(e, q) = n * x2 + y2
        /\ DOMAIN e \subseteq {v, w} /\ N = m * n
    BY <1>2, <1>3
  <2> HIDE DEF x1, y1, x2, y2, N
  <2>2. n * x1 + y1 \in 0 .. m * n - 1
    BY <1>1, <2>1, MatrixOffset
  <2>3. ASSUME Address(e, p) = Address(e, q) PROVE x1 = x2 /\ y1 = y2
    BY <1>1, <2>1, <2>3, TileUnique
  <2>4. Address(e, p) \in 0 .. N - 1
    BY <2>1, <2>2
  <2>5. Address(e, p) = Address(e, q) => \A x \in DOMAIN e : p[x] = q[x]
    BY <2>1, <2>3 DEF x1, y1, x2, y2
  <2> QED
    BY <2>4, <2>5 DEF N
<1> QED
  BY <1>4 DEF Indexes, e

-----------------------------------------------------------------------------
(* A lowering adds sound nests to sound ones.                               *)
\* A sound nest over buffers that exist.
SoundIn(nest, buffers) ==
  Sound(nest, buffers) /\ \A ref \in References(nest) : ref.buffer \in 1 .. Len(buffers)

\* A lowerer of sound nests.
SoundLowering(l) == IsList(l.buffers) /\ \A k \in DOMAIN l.body : SoundIn(l.body[k], l.buffers)

\* One more buffer does not concern the nests that are there.
LEMMA AppendSound ==
  ASSUME NEW nest, NEW buffers, NEW b, IsList(buffers), SoundIn(nest, buffers)
  PROVE  SoundIn(nest, Append(buffers, b))
<1> DEFINE more == Append(buffers, b)
           N == Len(buffers)
<1>1. N \in Nat /\ Len(more) = N + 1 /\ \A i \in 1 .. N : more[i] = buffers[i]
  BY Lists, AppendToList
<1> HIDE DEF more, N
<1>2. ASSUME NEW ref \in References(nest)
      PROVE  /\ ref.buffer \in 1 .. Len(more)
             /\ ElementsOf(more, ref) = ElementsOf(buffers, ref)
             /\ Fits(more, ref) <=> Fits(buffers, ref)
  <2>1. ref.buffer \in 1 .. N
    BY DEF SoundIn, N
  <2>2. ElementsOf(more, ref) = ElementsOf(buffers, ref)
    BY <1>1, <2>1 DEF ElementsOf
  <2>3. ref.buffer \in 1 .. Len(more)
    BY <1>1, <2>1
  <2> QED
    BY <2>2, <2>3 DEF Fits
<1>3. Sized(nest.levels) /\ OneIndexEach(nest)
  BY DEF SoundIn, Sound
<1>4. InBuffers(nest, more)
  BY <1>2 DEF SoundIn, Sound, InBuffers
<1>5. PlacesApart(nest, more)
  <2>1. \A ref \in Writes(nest.body) : Fits(more, ref) <=> Fits(buffers, ref)
    BY <1>2 DEF References
  <2>2. PlacesApart(nest, buffers)
    BY DEF SoundIn, Sound
  <2> QED
    BY <2>1, <2>2 DEF PlacesApart
<1>6. Sound(nest, more)
  BY <1>3, <1>4, <1>5 DEF Sound
<1> QED
  BY <1>2, <1>6 DEF SoundIn, more

\* Neither do the buffers of inputs and constants.
LEMMA AddBufferSound ==
  ASSUME NEW l, NEW m, NEW b, SoundLowering(l), m.buffers = Append(l.buffers, b),
         m.body = l.body
  PROVE  SoundLowering(m)
BY AppendSound, AppendToList DEF SoundLowering

\* A lowerer with a new buffer and the nests that fill it.
LEMMA AddNestsSound ==
  ASSUME NEW l, NEW shape, NEW nests, NEW taken, Lowering(l), SoundLowering(l), IsList(nests),
         \A k \in DOMAIN nests :
            SoundIn(nests[k], Append(l.buffers, Buffer("Temp", shape, << >>)))
  PROVE  LET m == AddNests(l, shape, nests, taken)
         IN  /\ SoundLowering(m)
             /\ m.buffers = Append(l.buffers, Buffer("Temp", shape, << >>))
             /\ m.node_buffers = l.node_buffers
<1> DEFINE b == Buffer("Temp", shape, << >>)
           more == Append(l.buffers, b)
           body == l.body \o nests
           m == AddNests(l, shape, nests, taken)
<1>1. m = [l EXCEPT !.buffers = more, !.body = body, !.next_loop_var = @ + taken]
  BY DEF AddNests
<1>2. IsList(l.body) /\ IsList(more)
  BY AppendToList DEF Lowering, AllClosed, SoundLowering
<1>3. \A k \in DOMAIN l.body : SoundIn(l.body[k], more)
  BY AppendSound DEF SoundLowering
<1>4. \A k \in DOMAIN nests : SoundIn(nests[k], more)
  OBVIOUS
<1> HIDE DEF more, body, m
<1>5. m.buffers = more /\ m.body = body /\ m.node_buffers = l.node_buffers
  BY <1>1 DEF Lowering
<1>6. ASSUME NEW k \in DOMAIN body
      PROVE  SoundIn(body[k], more)
  <2>1. (\E j \in DOMAIN l.body : body[k] = l.body[j]) \/ (\E j \in DOMAIN nests : body[k] = nests[j])
    BY <1>2, ConcatElements DEF body
  <2> QED
    BY <1>3, <1>4, <2>1
<1>7. SoundLowering(m)
  BY <1>2, <1>5, <1>6 DEF SoundLowering
<1> QED
  BY <1>5, <1>7 DEF m, more

\* The new buffer and the old ones.
LEMMA NewBufferIsLast ==
  ASSUME NEW l, IsList(l.buffers), NEW shape
  PROVE  LET more == Append(l.buffers, Buffer("Temp", shape, << >>))
         IN  /\ IsList(more) /\ Len(more) = NewBuffer(l) /\ NewBuffer(l) \in Nat \ {0}
             /\ more[NewBuffer(l)].shape = shape
             /\ \A i \in 1 .. Len(l.buffers) : /\ more[i] = l.buffers[i]
                                               /\ i \in 1 .. Len(more) /\ i # NewBuffer(l)
<1> DEFINE b == Buffer("Temp", shape, << >>)
           more == Append(l.buffers, b)
           N == Len(l.buffers)
<1>1. /\ IsList(more) /\ N \in Nat /\ Len(more) = N + 1 /\ more[N + 1] = b
      /\ \A i \in 1 .. N : more[i] = l.buffers[i]
  BY Lists, AppendToList
<1>2. b.shape = shape
  BY DEF Buffer
<1> HIDE DEF more, b, N
<1>3. NewBuffer(l) = N + 1
  BY DEF NewBuffer, N
<1>4. \A i \in 1 .. N : i \in 1 .. N + 1 /\ i # N + 1
  BY <1>1
<1> QED
  BY <1>1, <1>2, <1>3, <1>4 DEF more, b, N

\* What an assignment refers to.
LEMMA OneAssignRefs ==
  ASSUME NEW levels, NEW target, NEW op, NEW loads
  PROVE  References(Nest(levels, <<Assign(target, op, loads)>>)) = Range(loads) \cup {target}
<1> DEFINE body == <<Assign(target, op, loads)>>
<1>1. DOMAIN body = {1} /\ body[1].target = target /\ body[1].loads = loads
  BY DEF Assign
<1> HIDE DEF body
<1>2. Writes(body) = {target} /\ Reads(body) = Range(loads)
  BY <1>1 DEF Writes, Reads
<1>3. Nest(levels, body).body = body
  BY DEF Nest
<1> QED
  BY <1>2, <1>3 DEF References, body

\* Overflow does not fit.
LEMMA FitsCounts ==
  ASSUME NEW buffers, NEW ref, Fits(buffers, ref)
  PROVE  ElementsOf(buffers, ref) # Overflow
BY LoopAssumption DEF Fits, Overflow

\* A nest that fills a tensor, element by element, from others of as many elements.
LEMMA RowNestSound ==
  ASSUME NEW l, NEW shape, NEW base, NEW fresh, NEW op, NEW loads,
         IsList(l.buffers), shape \in Seq(Nat), Addressable(shape), base \in Nat,
         base + Len(shape) <= MaxLoopVar, fresh = AxisVars(base, Len(shape)),
         \A ref \in Range(loads) : /\ ref.index = RowMajorAffine(shape, fresh)
                                   /\ ref.buffer \in 1 .. Len(l.buffers)
                                   /\ Numel(l.buffers[ref.buffer].shape) = Numel(shape)
  PROVE  SoundIn(Nest(LevelsOf(shape, fresh),
                      <<Assign(Ref(NewBuffer(l), RowMajorAffine(shape, fresh)), op, loads)>>),
                 Append(l.buffers, Buffer("Temp", shape, << >>)))
<1> DEFINE b == NewBuffer(l)
           e == RowMajorAffine(shape, fresh)
           target == Ref(b, e)
           levels == LevelsOf(shape, fresh)
           more == Append(l.buffers, Buffer("Temp", shape, << >>))
           nest == Nest(levels, <<Assign(target, op, loads)>>)
<1>1. /\ IsList(more) /\ Len(more) = b /\ b \in Nat \ {0} /\ more[b].shape = shape
      /\ \A i \in 1 .. Len(l.buffers) : more[i] = l.buffers[i] /\ i \in 1 .. Len(more) /\ i # b
  BY NewBufferIsLast
<1>2. Sized(levels)
  BY LoopPoints
<1>3. Numel(shape) # Overflow => Indexes(e, levels, Numel(shape))
  BY RowMajorIndexes
<1>4. target.buffer = b /\ target.index = e
  BY DEF Ref
<1> HIDE DEF b, e, target, levels, more
<1>5. ElementsOf(more, target) = Numel(shape)
  BY <1>1, <1>4 DEF ElementsOf
<1>6. ASSUME NEW ref \in Range(loads)
      PROVE  /\ ref.buffer \in 1 .. Len(more) /\ ref.buffer # b /\ ref.index = e
             /\ ElementsOf(more, ref) = Numel(shape)
  BY <1>1 DEF ElementsOf, e
<1>7. Fits(more, target) => Indexes(target.index, levels, ElementsOf(more, target))
  BY <1>3, <1>4, <1>5, FitsCounts
<1>8. ASSUME NEW ref \in Range(loads)
      PROVE  /\ ref.buffer = target.buffer => ref = target
             /\ Fits(more, ref) => \A p \in Points(levels) :
                                      Address(ref.index, p) \in 0 .. ElementsOf(more, ref) - 1
  <2>1. ref.buffer # target.buffer
    BY <1>4, <1>6
  <2>2. ASSUME Fits(more, ref)
        PROVE  \A p \in Points(levels) : Address(ref.index, p) \in 0 .. ElementsOf(more, ref) - 1
    <3>1. Numel(shape) # Overflow
      BY <1>6, <2>2, FitsCounts
    <3>2. Indexes(e, levels, Numel(shape))
      BY <1>3, <3>1
    <3> QED
      BY <1>6, <3>2 DEF Indexes
  <2> QED
    BY <2>1, <2>2
<1>9. Sound(nest, more)
  BY <1>2, <1>7, <1>8, OneAssignSound
<1>10. References(nest) = Range(loads) \cup {target}
  BY OneAssignRefs
<1>11. \A ref \in References(nest) : ref.buffer \in 1 .. Len(more)
  BY <1>1, <1>4, <1>6, <1>10
<1> QED
  BY <1>9, <1>11 DEF SoundIn, nest, more, levels, target, e, b

\* The nest that adds up a sum.
LEMMA SumNestSound ==
  ASSUME NEW l, NEW shape, NEW axes, NEW keepdim, NEW base, NEW fresh, NEW op, NEW input, NEW out,
         IsList(l.buffers), shape \in Seq(Nat), keepdim \in BOOLEAN,
         out = ReducedShape(shape, axes, keepdim),
         Addressable(shape), Addressable(out), base \in Nat,
         base + Len(shape) <= MaxLoopVar, fresh = AxisVars(base, Len(shape)),
         input \in 1 .. Len(l.buffers), Numel(l.buffers[input].shape) = Numel(shape)
  PROVE  LET target == Ref(NewBuffer(l), SumOutputAffine(out, axes, keepdim, fresh))
             load == Ref(input, RowMajorAffine(shape, fresh))
         IN  SoundIn(Nest(LevelsOf(shape, fresh), <<Assign(target, op, <<target, load>>)>>),
                     Append(l.buffers, Buffer("Temp", out, << >>)))
<1> DEFINE b == NewBuffer(l)
           e == SumOutputAffine(out, axes, keepdim, fresh)
           d == RowMajorAffine(shape, fresh)
           target == Ref(b, e)
           load == Ref(input, d)
           loads == <<target, load>>
           levels == LevelsOf(shape, fresh)
           more == Append(l.buffers, Buffer("Temp", out, << >>))
           nest == Nest(levels, <<Assign(target, op, loads)>>)
<1>1. /\ IsList(more) /\ Len(more) = b /\ b \in Nat \ {0} /\ more[b].shape = out
      /\ \A i \in 1 .. Len(l.buffers) : more[i] = l.buffers[i] /\ i \in 1 .. Len(more) /\ i # b
  BY NewBufferIsLast
<1>2. Sized(levels)
  BY LoopPoints
<1>3. Numel(shape) # Overflow => Indexes(d, levels, Numel(shape))
  BY RowMajorIndexes
<1>4. Numel(out) # Overflow => Indexes(e, levels, Numel(out))
  BY SumIndexes
<1>5. target.buffer = b /\ target.index = e /\ load.buffer = input /\ load.index = d
  BY DEF Ref
<1>6. Range(loads) = {target, load}
  <2>1. DOMAIN loads = {1, 2} /\ loads[1] = target /\ loads[2] = load
    OBVIOUS
  <2> HIDE DEF loads
  <2> QED
    BY <2>1 DEF Range
<1> HIDE DEF b, e, d, target, load, loads, levels, more
<1>7. ElementsOf(more, target) = Numel(out) /\ ElementsOf(more, load) = Numel(shape)
  BY <1>1, <1>5 DEF ElementsOf
<1>8. Fits(more, target) => Indexes(target.index, levels, ElementsOf(more, target))
  BY <1>4, <1>5, <1>7, FitsCounts
<1>9. load.buffer # target.buffer
  BY <1>1, <1>5
<1>10. Fits(more, load) => \A p \in Points(levels) :
                              Address(load.index, p) \in 0 .. ElementsOf(more, load) - 1
  <2> SUFFICES ASSUME Fits(more, load)
               PROVE  \A p \in Points(levels) : Address(load.index, p) \in 0 .. ElementsOf(more, load) - 1
    OBVIOUS
  <2>1. Indexes(d, levels, Numel(shape))
    BY <1>3, <1>7, FitsCounts
  <2> QED
    BY <1>5, <1>7, <2>1 DEF Indexes
<1>11. \A ref \in Range(loads) :
          /\ ref.buffer = target.buffer => ref = target
          /\ ref # target =>
               (Fits(more, ref) => \A p \in Points(levels) :
                                      Address(ref.index, p) \in 0 .. ElementsOf(more, ref) - 1)
  BY <1>6, <1>9, <1>10
<1>12. Sound(nest, more)
  BY <1>2, <1>8, <1>11, OneAssignSound
<1>13. References(nest) = Range(loads) \cup {target}
  BY OneAssignRefs
<1>14. target.buffer \in 1 .. Len(more) /\ load.buffer \in 1 .. Len(more)
  BY <1>1, <1>5
<1>15. \A ref \in References(nest) : ref.buffer \in 1 .. Len(more)
  BY <1>6, <1>13, <1>14
<1> QED
  BY <1>12, <1>15 DEF SoundIn, nest, more, levels, loads, target, load, e, d, b

\* What lowering a node does to the buffers: it adds one of the node's shape.
Fills(l, m, shape) ==
  /\ SoundLowering(m)
  /\ m.buffers = Append(l.buffers, Buffer("Temp", shape, << >>))
  /\ m.node_buffers = l.node_buffers

\* A list of one nest, and of two.
LEMMA NestLists ==
  ASSUME NEW a, NEW b
  PROVE  /\ IsList(<<a>>) /\ \A k \in DOMAIN <<a>> : <<a>>[k] = a
         /\ IsList(<<a, b>>) /\ \A k \in DOMAIN <<a, b>> : <<a, b>>[k] \in {a, b}
<1>1. <<a>> = [i \in 1 .. 1 |-> <<a>>[i]] /\ <<a, b>> = [i \in 1 .. 2 |-> <<a, b>>[i]]
  OBVIOUS
<1>2. IsList(<<a>>) /\ IsList(<<a, b>>)
  BY <1>1 DEF IsList
<1>3. /\ \A k \in DOMAIN <<a>> : <<a>>[k] = a
      /\ \A k \in DOMAIN <<a, b>> : <<a, b>>[k] \in {a, b}
  OBVIOUS
<1> QED
  BY <1>2, <1>3

\* The variables that a lowerer takes.
LEMMA FreshAreAxisVars ==
  ASSUME NEW l, NEW from, NEW count, l.next_loop_var \in Nat, from \in Nat, count \in Nat
  PROVE  FreshVars(l, from, count) = AxisVars(l.next_loop_var + from, count)
<1> DEFINE n == l.next_loop_var
           f == FreshVars(l, from, count)
           g == AxisVars(n + from, count)
<1>1. f = [k \in 1 .. count |-> n + from + k - 1]
  BY DEF FreshVars
<1>2. g = [k \in 1 .. count |-> ((n + from) + k) - 1]
  BY DEF AxisVars
<1>3. n \in Nat
  OBVIOUS
<1> HIDE DEF f, g, n
<1>4. f = g
  BY <1>1, <1>2, <1>3
<1> QED
  BY <1>4 DEF f, g, n

\* An elementwise operation,
LEMMA ElementwiseSoundly ==
  ASSUME NEW l, NEW shape, NEW op, NEW operands, Lowering(l), SoundLowering(l),
         shape \in Seq(Nat), Addressable(shape), l.next_loop_var + Len(shape) <= MaxLoopVar,
         \A k \in DOMAIN operands : /\ operands[k] \in 1 .. Len(l.buffers)
                                    /\ Numel(l.buffers[operands[k]].shape) = Numel(shape)
  PROVE  Fills(l, Elementwise(l, shape, op, operands), shape)
<1> DEFINE fresh == FreshVars(l, 0, Len(shape))
           base == l.next_loop_var + 0
           flat == RowMajorAffine(shape, fresh)
           loads == [k \in DOMAIN operands |-> Ref(operands[k], flat)]
           nest == Nest(LevelsOf(shape, fresh), <<Assign(Ref(NewBuffer(l), flat), op, loads)>>)
           more == Append(l.buffers, Buffer("Temp", shape, << >>))
<1>1. Elementwise(l, shape, op, operands) = AddNests(l, shape, <<nest>>, Len(shape))
  BY DEF Elementwise
<1>2. fresh = AxisVars(base, Len(shape))
  <2>1. l.next_loop_var \in Nat /\ Len(shape) \in Nat /\ 0 \in Nat
    BY LoopAssumption DEF Lowering
  <2> QED
    BY <2>1, FreshAreAxisVars
<1>3. base \in Nat /\ base + Len(shape) <= MaxLoopVar
  <2>1. l.next_loop_var \in Nat /\ Len(shape) \in Nat
    BY LoopAssumption DEF Lowering
  <2> QED
    BY <2>1
<1> HIDE DEF fresh, base
<1>4. \A ref \in Range(loads) : /\ ref.index = flat
                                /\ ref.buffer \in 1 .. Len(l.buffers)
                                /\ Numel(l.buffers[ref.buffer].shape) = Numel(shape)
  BY DEF Range, Ref
<1>5. SoundIn(nest, more)
  <2>1. IsList(l.buffers)
    BY DEF SoundLowering
  <2> HIDE DEF loads
  <2> QED
    BY <1>2, <1>3, <1>4, <2>1, RowNestSound
<1>6. IsList(<<nest>>) /\ \A k \in DOMAIN <<nest>> : SoundIn(<<nest>>[k], more)
  <2> HIDE DEF nest
  <2> QED
    BY <1>5, NestLists
<1> DEFINE nests == <<nest>>
           m == AddNests(l, shape, nests, Len(shape))
<1>7. SoundLowering(m) /\ m.buffers = more /\ m.node_buffers = l.node_buffers
  <2>1. IsList(nests) /\ \A k \in DOMAIN nests : SoundIn(nests[k], more)
    BY <1>6
  <2> HIDE DEF nests
  <2> QED
    BY <2>1, AddNestsSound
<1> QED
  BY <1>1, <1>7 DEF Fills

\* a sum,
LEMMA SumSoundly ==
  ASSUME NEW l, NEW shape, NEW axes, NEW keepdim, NEW out, NEW input,
         Lowering(l), SoundLowering(l), shape \in Seq(Nat), keepdim \in BOOLEAN,
         out = ReducedShape(shape, axes, keepdim), Addressable(shape), Addressable(out),
         l.next_loop_var + (Len(out) + Len(shape)) <= MaxLoopVar,
         input \in 1 .. Len(l.buffers), Numel(l.buffers[input].shape) = Numel(shape)
  PROVE  Fills(l, LowerSum(l, out, input, shape, axes, keepdim), out)
<1> DEFINE outVars == FreshVars(l, 0, Len(out))
           inVars  == FreshVars(l, Len(out), Len(shape))
           base == l.next_loop_var + 0
           next == l.next_loop_var + Len(out)
           zero == Ref(NewBuffer(l), RowMajorAffine(out, outVars))
           target == Ref(NewBuffer(l), SumOutputAffine(out, axes, keepdim, inVars))
           load == Ref(input, RowMajorAffine(shape, inVars))
           first == Nest(LevelsOf(out, outVars), <<Assign(zero, "Zero", << >>)>>)
           second == Nest(LevelsOf(shape, inVars), <<Assign(target, "Add", <<target, load>>)>>)
           nests == <<first, second>>
           taken == Len(out) + Len(shape)
           more == Append(l.buffers, Buffer("Temp", out, << >>))
<1>1. LowerSum(l, out, input, shape, axes, keepdim) = AddNests(l, out, nests, taken)
  BY DEF LowerSum
<1>2. outVars = AxisVars(base, Len(out)) /\ inVars = AxisVars(next, Len(shape))
  <2>0. l.next_loop_var \in Nat /\ Len(shape) \in Nat /\ Len(out) \in Nat /\ 0 \in Nat
    BY ReducedShapeIsShape, LoopAssumption DEF Lowering
  <2>1. outVars = AxisVars(base, Len(out))
    BY <2>0, FreshAreAxisVars
  <2>2. inVars = AxisVars(next, Len(shape))
    BY <2>0, FreshAreAxisVars
  <2> QED
    BY <2>1, <2>2
<1>3. out \in Seq(Nat)
  BY ReducedShapeIsShape
<1>4. /\ base \in Nat /\ base + Len(out) <= MaxLoopVar
      /\ next \in Nat /\ next + Len(shape) <= MaxLoopVar
  <2> DEFINE a == l.next_loop_var
             b == Len(out)
             c == Len(shape)
  <2>1. a \in Nat /\ b \in Nat /\ c \in Nat /\ a + (b + c) <= MaxLoopVar
    BY <1>3, LoopAssumption DEF Lowering
  <2> HIDE DEF a, b, c
  <2>2. /\ a + 0 \in Nat /\ a + 0 + b <= MaxLoopVar
        /\ a + b \in Nat /\ a + b + c <= MaxLoopVar
    BY <2>1, LoopAssumption
  <2> QED
    BY <2>2 DEF a, b, c
<1>5. IsList(l.buffers)
  BY DEF SoundLowering
<1> HIDE DEF outVars, inVars, base, next
<1>6. SoundIn(first, more)
  <2> DEFINE none == << >>
  <2>1. \A ref \in Range(none) : FALSE
    BY DEF Range
  <2> HIDE DEF none
  <2>2. SoundIn(Nest(LevelsOf(out, outVars), <<Assign(zero, "Zero", none)>>), more)
    BY <1>2, <1>3, <1>4, <1>5, <2>1, RowNestSound
  <2> QED
    BY <2>2 DEF none
<1>7. SoundIn(second, more)
  BY <1>2, <1>4, <1>5, SumNestSound
<1>8. IsList(nests) /\ \A k \in DOMAIN nests : SoundIn(nests[k], more)
  <2> HIDE DEF first, second
  <2> QED
    BY <1>6, <1>7, NestLists
<1> HIDE DEF nests, taken
<1> DEFINE m == AddNests(l, out, nests, taken)
<1>9. SoundLowering(m) /\ m.buffers = more /\ m.node_buffers = l.node_buffers
  <2> HIDE DEF first, second
  <2>1. Lowering(l) /\ SoundLowering(l)
    OBVIOUS
  <2> QED
    BY ONLY <1>8, <2>1, AddNestsSound
<1> QED
  BY <1>1, <1>9 DEF Fills

\* and a product.
LEMMA MatmulSoundly ==
  ASSUME NEW l, NEW left, NEW leftShape, NEW right, NEW rightShape,
         Lowering(l), SoundLowering(l),
         \A k \in 1 .. 2 : leftShape[k] \in 0 .. MaxI64 /\ rightShape[k] \in 0 .. MaxI64,
         leftShape[2] = rightShape[1], l.next_loop_var + 3 <= MaxLoopVar,
         left \in 1 .. Len(l.buffers), right \in 1 .. Len(l.buffers),
         Numel(l.buffers[left].shape) = Numel(<<leftShape[1], leftShape[2]>>),
         Numel(l.buffers[right].shape) = Numel(<<rightShape[1], rightShape[2]>>)
  PROVE  Fills(l, LowerMatmul(l, left, leftShape, right, rightShape),
               <<leftShape[1], rightShape[2]>>)
<1> DEFINE fresh == FreshVars(l, 0, 3)
           dims == <<leftShape[1], rightShape[2], leftShape[2]>>
           b == NewBuffer(l)
           out == Ref(b, Affine(TwoTerms(fresh[1], dims[2], fresh[2], 1)))
           lhs == Ref(left, Affine(TwoTerms(fresh[1], dims[3], fresh[3], 1)))
           rhs == Ref(right, Affine(TwoTerms(fresh[3], dims[2], fresh[2], 1)))
           levels == LevelsOf(dims, fresh)
           outer == SubSeq(levels, 1, 2)
           loads == <<out, lhs, rhs>>
           none == << >>
           first == Nest(outer, <<Assign(out, "Zero", none)>>)
           second == Nest(levels, <<Assign(out, "MulAdd", loads)>>)
           shape == <<dims[1], dims[2]>>
           nests == <<first, second>>
           more == Append(l.buffers, Buffer("Temp", shape, << >>))
           m == dims[1]
           n == dims[2]
           k == dims[3]
<1>1. LowerMatmul(l, left, leftShape, right, rightShape) = AddNests(l, shape, nests, 3)
  BY DEF LowerMatmul
<1>2. /\ dims[1] = leftShape[1] /\ dims[2] = rightShape[2] /\ dims[3] = leftShape[2]
      /\ leftShape[1] \in 0 .. MaxI64 /\ rightShape[2] \in 0 .. MaxI64
      /\ leftShape[2] \in 0 .. MaxI64 /\ leftShape[2] = rightShape[1]
  <2>1. 1 \in 1 .. 2 /\ 2 \in 1 .. 2
    OBVIOUS
  <2> QED
    BY <2>1
<1>3. shape = <<leftShape[1], rightShape[2]>>
  BY <1>2
<1> DEFINE next == l.next_loop_var
<1>4. next \in Nat /\ next + 3 <= MaxLoopVar
  BY LoopAssumption DEF Lowering
<1>5. fresh = [a \in 1 .. 3 |-> next + 0 + a - 1]
  BY DEF FreshVars
<1> HIDE DEF dims, fresh, next
<1>6. /\ DOMAIN fresh = 1 .. 3
      /\ fresh[1] \in 0 .. MaxLoopVar /\ fresh[2] \in 0 .. MaxLoopVar /\ fresh[3] \in 0 .. MaxLoopVar
      /\ fresh[1] # fresh[2] /\ fresh[1] # fresh[3] /\ fresh[3] # fresh[2]
  BY <1>4, <1>5, LoopAssumption
<1>7. m \in 0 .. MaxI64 /\ n \in 0 .. MaxI64 /\ k \in 0 .. MaxI64 /\ m \in Nat /\ n \in Nat /\ k \in Nat
  BY <1>2, LoopAssumption
<1>8. levels = [a \in 1 .. 3 |-> Level(fresh[a], dims[a])]
  BY <1>6 DEF LevelsOf
<1> HIDE DEF levels
<1>9. /\ Range(levels) = {Level(fresh[1], m), Level(fresh[2], n), Level(fresh[3], k)}
      /\ IsList(levels) /\ Len(levels) = 3
  <2>1. levels[1] = Level(fresh[1], m) /\ levels[2] = Level(fresh[2], n) /\ levels[3] = Level(fresh[3], k)
    BY <1>8
  <2>2. DOMAIN levels = {1, 2, 3}
    BY <1>8
  <2>3. IsList(levels)
    BY <1>8 DEF IsList
  <2>4. Len(levels) = 3
    BY <1>8, <2>3, Lists
  <2> QED
    BY <2>1, <2>2, <2>3, <2>4 DEF Range
<1>10. Range(outer) = {Level(fresh[1], m), Level(fresh[2], n)}
  <2>1. 1 \in 1 .. Len(levels) + 1 /\ 2 \in (1 - 1) .. Len(levels)
    BY <1>9
  <2>2. Range(outer) = {levels[i] : i \in 1 .. 2}
    BY <1>9, <2>1, SubListRange
  <2>3. levels[1] = Level(fresh[1], m) /\ levels[2] = Level(fresh[2], n)
    BY <1>8
  <2> HIDE DEF outer
  <2> QED
    BY <2>2, <2>3
<1> HIDE DEF outer
<1>11. Sized(levels) /\ Sized(outer)
  BY <1>7, <1>9, <1>10 DEF Sized, Level
<1> HIDE DEF m, n, k
<1> DEFINE outIndex == Affine(TwoTerms(fresh[1], n, fresh[2], 1))
           lhsIndex == Affine(TwoTerms(fresh[1], k, fresh[3], 1))
           rhsIndex == Affine(TwoTerms(fresh[3], n, fresh[2], 1))
<1>12. /\ Numel(<<m, n>>) # Overflow => /\ Indexes(outIndex, levels, Numel(<<m, n>>))
                                        /\ Indexes(outIndex, outer, Numel(<<m, n>>))
       /\ Numel(<<m, k>>) # Overflow => Indexes(lhsIndex, levels, Numel(<<m, k>>))
       /\ Numel(<<k, n>>) # Overflow => Indexes(rhsIndex, levels, Numel(<<k, n>>))
  <2>1. /\ Level(fresh[1], m) \in Range(levels) /\ Level(fresh[2], n) \in Range(levels)
        /\ Level(fresh[3], k) \in Range(levels)
        /\ Level(fresh[1], m) \in Range(outer) /\ Level(fresh[2], n) \in Range(outer)
    BY <1>9, <1>10
  <2> DEFINE u == fresh[1]
             v == fresh[2]
             w == fresh[3]
  <2>2. /\ u \in 0 .. MaxLoopVar /\ v \in 0 .. MaxLoopVar /\ w \in 0 .. MaxLoopVar
        /\ u # v /\ u # w /\ w # v
    BY <1>6
  <2> HIDE DEF u, v, w, fresh
  <2>3. Numel(<<m, n>>) # Overflow => Indexes(outIndex, levels, Numel(<<m, n>>))
    BY <1>7, <2>1, <2>2, MatrixIndexes DEF u, v
  <2>4. Numel(<<m, n>>) # Overflow => Indexes(outIndex, outer, Numel(<<m, n>>))
    BY <1>7, <2>1, <2>2, MatrixIndexes DEF u, v
  <2>5. Numel(<<m, k>>) # Overflow => Indexes(lhsIndex, levels, Numel(<<m, k>>))
    BY <1>7, <2>1, <2>2, MatrixIndexes DEF u, w
  <2>6. Numel(<<k, n>>) # Overflow => Indexes(rhsIndex, levels, Numel(<<k, n>>))
    BY <1>7, <2>1, <2>2, MatrixIndexes DEF w, v
  <2> QED
    BY <2>3, <2>4, <2>5, <2>6
<1>13. /\ out.buffer = b /\ out.index = outIndex
       /\ lhs.buffer = left /\ lhs.index = lhsIndex
       /\ rhs.buffer = right /\ rhs.index = rhsIndex
  BY DEF Ref, n, k
<1>14. Range(loads) = {out, lhs, rhs} /\ \A ref \in Range(none) : FALSE
  <2>1. DOMAIN loads = {1, 2, 3} /\ loads[1] = out /\ loads[2] = lhs /\ loads[3] = rhs
    OBVIOUS
  <2> HIDE DEF loads
  <2> QED
    BY <2>1 DEF Range
<1>15. IsList(l.buffers)
  BY DEF SoundLowering
<1>16. /\ Numel(l.buffers[left].shape) = Numel(<<m, k>>)
       /\ Numel(l.buffers[right].shape) = Numel(<<k, n>>)
  BY <1>2 DEF m, n, k
<1>17. /\ IsList(more) /\ Len(more) = b /\ b \in Nat \ {0} /\ more[b].shape = <<m, n>>
       /\ \A i \in 1 .. Len(l.buffers) : more[i] = l.buffers[i] /\ i \in 1 .. Len(more) /\ i # b
  <2>1. shape = <<m, n>>
    BY DEF m, n
  <2> HIDE DEF shape
  <2>2. /\ IsList(more) /\ Len(more) = b /\ b \in Nat \ {0} /\ more[b].shape = shape
        /\ \A i \in 1 .. Len(l.buffers) : more[i] = l.buffers[i] /\ i \in 1 .. Len(more) /\ i # b
    BY ONLY <1>15, NewBufferIsLast
  <2> QED
    BY <2>1, <2>2
<1> HIDE DEF b, out, lhs, rhs, loads, none, more, outIndex, lhsIndex, rhsIndex
<1>18. /\ ElementsOf(more, out) = Numel(<<m, n>>)
       /\ ElementsOf(more, lhs) = Numel(<<m, k>>)
       /\ ElementsOf(more, rhs) = Numel(<<k, n>>)
  BY <1>13, <1>16, <1>17 DEF ElementsOf
<1>19. Fits(more, out) => /\ Indexes(out.index, levels, ElementsOf(more, out))
                          /\ Indexes(out.index, outer, ElementsOf(more, out))
  BY <1>12, <1>13, <1>18, FitsCounts
<1>20. lhs.buffer # out.buffer /\ rhs.buffer # out.buffer
  BY <1>13, <1>17
<1>21. ASSUME NEW ref \in {lhs, rhs}, Fits(more, ref), NEW p \in Points(levels)
       PROVE  Address(ref.index, p) \in 0 .. ElementsOf(more, ref) - 1
  <2>1. Indexes(ref.index, levels, ElementsOf(more, ref))
    BY <1>12, <1>13, <1>18, <1>21, FitsCounts
  <2> QED
    BY <2>1 DEF Indexes
<1>22. \A ref \in Range(loads) :
          /\ ref.buffer = out.buffer => ref = out
          /\ ref # out =>
               (Fits(more, ref) => \A p \in Points(levels) :
                                      Address(ref.index, p) \in 0 .. ElementsOf(more, ref) - 1)
  BY <1>14, <1>20, <1>21
<1>23. Sound(second, more)
  BY <1>11, <1>19, <1>22, OneAssignSound
<1>24. Sound(first, more)
  BY <1>11, <1>14, <1>19, OneAssignSound
<1>25. References(first) = Range(none) \cup {out} /\ References(second) = Range(loads) \cup {out}
  BY OneAssignRefs
<1>26. out.buffer \in 1 .. Len(more) /\ lhs.buffer \in 1 .. Len(more) /\ rhs.buffer \in 1 .. Len(more)
  BY <1>13, <1>17
<1>27. SoundIn(first, more) /\ SoundIn(second, more)
  BY <1>14, <1>23, <1>24, <1>25, <1>26 DEF SoundIn
<1> HIDE DEF first, second
<1>28. IsList(nests) /\ \A i \in DOMAIN nests : SoundIn(nests[i], more)
  <2>1. IsList(nests) /\ \A i \in DOMAIN nests : nests[i] \in {first, second}
    BY ONLY NestLists
  <2> QED
    BY ONLY <1>27, <2>1
<1> HIDE DEF nests
<1> DEFINE new == AddNests(l, shape, nests, 3)
<1>29. SoundLowering(new) /\ new.buffers = more /\ new.node_buffers = l.node_buffers
  <2> HIDE DEF shape
  <2>1. Lowering(l) /\ SoundLowering(l)
    OBVIOUS
  <2> QED
    BY ONLY <1>28, <2>1, AddNestsSound DEF more
<1> QED
  BY <1>1, <1>3, <1>29 DEF Fills, more

-----------------------------------------------------------------------------
(* What inference says of the shapes of a node and of its operands.        *)
\* The shapes of an elementwise operation are one, a product's are those of
\* matrices, and a reshape keeps the number of elements.
TypeAgrees(node, shape, shapes) ==
  /\ node.op \in {"Input", "Const"} => shape = node.attr.shape
  /\ node.op \in {"Add", "Sub", "Mul", "Neg", "Relu"} => \A k \in DOMAIN shapes : shapes[k] = shape
  /\ node.op = "Matmul" =>
        shapes[1][2] = shapes[2][1] /\ shape = <<shapes[1][1], shapes[2][2]>>
  /\ node.op = "Reshape" => Numel(shapes[1]) = Numel(shape)

\* A type that inference gives without an error agrees with those of the operands.
LEMMA InferNodeAgrees ==
  ASSUME NEW node, node.op \in Operations, node.args \in Seq(Nat),
         Len(node.args) = Arity(node.op), NEW types,
         \A k \in DOMAIN node.args : node.args[k] \in DOMAIN types,
         InferNode(node, types).err = "None"
  PROVE  TypeAgrees(node, InferNode(node, types).shape, ShapesOf(node, types))
<1> DEFINE t == InferNode(node, types)
           l == types[node.args[1]]
           r == types[node.args[2]]
           shapes == ShapesOf(node, types)
<1> SUFFICES TypeAgrees(node, t.shape, shapes)
  OBVIOUS
<1>1. ~ (\E k \in DOMAIN node.args : node.args[k] \notin DOMAIN types) /\ t.err = "None"
  OBVIOUS
<1>2. \A kind : TypeErr(kind).err = kind
  BY DEF TypeErr
<1>3. \A dtype, shape : TypeOf(dtype, shape).shape = shape
  BY DEF TypeOf
<1>4. ASSUME Arity(node.op) \in {1, 2}
      PROVE  shapes[1] = l.shape
  BY <1>4 DEF ShapesOf
<1>5. ASSUME Arity(node.op) = 2
      PROVE  shapes[2] = r.shape /\ DOMAIN shapes = {1, 2}
  BY <1>5 DEF ShapesOf
<1>6. ASSUME Arity(node.op) = 1
      PROVE  DOMAIN shapes = {1}
  BY <1>6 DEF ShapesOf
<1> HIDE DEF t, shapes, l, r
<1>7. CASE node.op \in {"Input", "Const"}
  <2>1. t = TypeOf(node.attr.dtype, node.attr.shape)
    BY <1>1, <1>7 DEF InferNode, t, UnaryOps
  <2> QED
    BY <1>3, <1>7, <2>1 DEF TypeAgrees
<1>8. CASE node.op \in {"Add", "Sub", "Mul"}
  <2>1. t = InferElementwise(l, r)
    BY <1>1, <1>8 DEF InferNode, t, l, r, UnaryOps
  <2>2. t = l /\ l.shape = r.shape
    BY <1>1, <1>2, <2>1 DEF InferElementwise
  <2>3. Arity(node.op) = 2
    BY <1>8 DEF Arity, UnaryOps, BinaryOps
  <2>4. \A k \in DOMAIN shapes : shapes[k] = t.shape
    BY <1>4, <1>5, <2>2, <2>3
  <2> QED
    BY <1>8, <2>4 DEF TypeAgrees
<1>9. CASE node.op \in UnaryOps
  <2>1. t = InferUnary(l)
    BY <1>1, <1>9 DEF InferNode, t, l, UnaryOps
  <2>2. t = l
    BY <1>1, <1>2, <2>1 DEF InferUnary
  <2>3. Arity(node.op) = 1
    BY <1>9 DEF Arity, UnaryOps, BinaryOps
  <2>4. \A k \in DOMAIN shapes : shapes[k] = t.shape
    BY <1>4, <1>6, <2>2, <2>3
  <2> QED
    BY <1>9, <2>4 DEF TypeAgrees, UnaryOps
<1>10. CASE node.op = "Matmul"
  <2>1. t = InferMatmul(l, r)
    BY <1>1, <1>10 DEF InferNode, t, l, r, UnaryOps
  <2>2. l.shape[2] = r.shape[1] /\ t = TypeOf(l.dtype, <<l.shape[1], r.shape[2]>>)
    BY <1>1, <1>2, <2>1 DEF InferMatmul
  <2>3. Arity(node.op) = 2
    BY <1>10 DEF Arity, UnaryOps, BinaryOps
  <2>4. t.shape = <<l.shape[1], r.shape[2]>> /\ shapes[1] = l.shape /\ shapes[2] = r.shape
    BY <1>3, <1>4, <1>5, <2>2, <2>3
  <2> QED
    BY <1>10, <2>2, <2>4 DEF TypeAgrees
<1>11. CASE node.op = "Sum"
  BY <1>11 DEF TypeAgrees
<1>12. CASE node.op = "Reshape"
  <2>1. t = InferReshape(l, node.attr.shape)
    BY <1>1, <1>12 DEF InferNode, t, l, UnaryOps
  <2>2. t = TypeOf(l.dtype, node.attr.shape) /\ Numel(l.shape) = Numel(node.attr.shape)
    BY <1>1, <1>2, <2>1 DEF InferReshape
  <2>3. Arity(node.op) = 1
    BY <1>12 DEF Arity, UnaryOps, BinaryOps
  <2> QED
    BY <1>3, <1>4, <1>12, <2>2, <2>3 DEF TypeAgrees
<1> QED
  BY <1>7, <1>8, <1>9, <1>10, <1>11, <1>12 DEF Operations, BinaryOps, UnaryOps

\* So the types of a graph that inference accepts agree.
LEMMA InferTypesAgree ==
  ASSUME NEW g, IsGraph(g), InferTypes(g).err = "None", NEW i \in Ids(g)
  PROVE  TypeAgrees(g.nodes[i], InferTypes(g).types[i].shape,
                    ShapesOf(g.nodes[i], InferTypes(g).types))
<1> DEFINE types == InferTypes(g).types
           node == g.nodes[i]
<1>1. NodesFit(g) /\ Typing(g, types) /\ Len(types) = Len(g.nodes)
  BY InferTypesFit
<1> HIDE DEF types
<1>2. i \in 1 .. Len(types) /\ types[i] = InferNode(node, types) /\ types[i].err = "None"
  BY <1>1 DEF Typing, Ids
<1>3. /\ node.op \in Operations /\ node.args \in Seq(Nat) /\ Len(node.args) = Arity(node.op)
      /\ \A k \in DOMAIN node.args : node.args[k] \in 1 .. (i - 1)
  BY <1>1 DEF NodesFit
<1>4. DOMAIN types = 1 .. Len(g.nodes) /\ Len(g.nodes) \in Nat /\ i \in 1 .. Len(g.nodes)
  BY <1>1, Lists DEF Typing, NodesFit, Ids
<1>5. \A k \in DOMAIN node.args : node.args[k] \in DOMAIN types
  BY <1>3, <1>4
<1> HIDE DEF node
<1>6. TypeAgrees(node, InferNode(node, types).shape, ShapesOf(node, types))
  BY <1>2, <1>3, <1>5, InferNodeAgrees
<1> QED
  BY <1>2, <1>6 DEF node, types

\* A buffer of as many elements as a tensor of the shape has.
Holds(buffers, b, shape) == b \in 1 .. Len(buffers) /\ Numel(buffers[b].shape) = Numel(shape)

\* A new buffer holds a tensor of its shape, and the old ones hold what they did.
LEMMA AppendHolds ==
  ASSUME NEW buffers, IsList(buffers), NEW b, NEW shape, b.shape = shape
  PROVE  /\ IsList(Append(buffers, b))
         /\ Holds(Append(buffers, b), Len(buffers) + 1, shape)
         /\ \A c, s : Holds(buffers, c, s) => Holds(Append(buffers, b), c, s)
<1> DEFINE more == Append(buffers, b)
           N == Len(buffers)
<1>1. /\ IsList(more) /\ N \in Nat /\ Len(more) = N + 1 /\ more[N + 1] = b
      /\ \A i \in 1 .. N : more[i] = buffers[i]
  BY Lists, AppendToList
<1> HIDE DEF more
<1>2. Holds(more, N + 1, shape)
  <2> HIDE DEF N
  <2>1. N + 1 \in 1 .. Len(more)
    BY <1>1
  <2> QED
    BY <1>1, <2>1 DEF Holds
<1>3. ASSUME NEW c, NEW s, Holds(buffers, c, s)
      PROVE  Holds(more, c, s)
  <2>1. c \in 1 .. N /\ Numel(buffers[c].shape) = Numel(s)
    BY <1>3 DEF Holds
  <2> HIDE DEF N
  <2>2. c \in 1 .. Len(more) /\ more[c] = buffers[c]
    BY <1>1, <2>1
  <2> QED
    BY <2>1, <2>2 DEF Holds
<1> QED
  BY <1>1, <1>2, <1>3 DEF more

\* What the lowering of a node adds to a lowerer.
Extends(l, m, b, shape) ==
  /\ SoundLowering(m) /\ m.node_buffers = l.node_buffers
  /\ Holds(m.buffers, b, shape)
  /\ \A c, s : Holds(l.buffers, c, s) => Holds(m.buffers, c, s)

\* Nests that fill a new buffer do.
LEMMA FillsExtends ==
  ASSUME NEW l, NEW m, NEW shape, IsList(l.buffers), Fills(l, m, shape)
  PROVE  Extends(l, m, NewBuffer(l), shape)
<1> DEFINE b == Buffer("Temp", shape, << >>)
<1>1. b.shape = shape
  BY DEF Buffer
<1>2. m.buffers = Append(l.buffers, b) /\ SoundLowering(m) /\ m.node_buffers = l.node_buffers
  BY DEF Fills
<1> HIDE DEF b
<1>3. /\ Holds(m.buffers, Len(l.buffers) + 1, shape)
      /\ \A c, s : Holds(l.buffers, c, s) => Holds(m.buffers, c, s)
  BY <1>1, <1>2, AppendHolds
<1> QED
  BY <1>2, <1>3 DEF Extends, NewBuffer

\* A buffer that no nest fills does.
LEMMA AddBufferExtends ==
  ASSUME NEW l, NEW m, NEW b, NEW shape, SoundLowering(l), b.shape = shape,
         m.buffers = Append(l.buffers, b), m.body = l.body, m.node_buffers = l.node_buffers
  PROVE  Extends(l, m, NewBuffer(l), shape)
<1>1. IsList(l.buffers)
  BY DEF SoundLowering
<1>2. /\ Holds(m.buffers, Len(l.buffers) + 1, shape)
      /\ \A c, s : Holds(l.buffers, c, s) => Holds(m.buffers, c, s)
  BY <1>1, AppendHolds
<1>3. SoundLowering(m)
  BY AddBufferSound
<1> QED
  BY <1>2, <1>3 DEF Extends, NewBuffer

\* Every operation is lowered to sound nests.
LEMMA EmitSound ==
  ASSUME NEW l, Lowering(l), SoundLowering(l), NEW node, node.op \in Operations,
         AttrFits(node), NEW shape, NEW shapes,
         TypeFits(node, shape, shapes), TypeAgrees(node, shape, shapes),
         NEW operands, DOMAIN shapes = 1 .. Arity(node.op), DOMAIN operands = 1 .. Arity(node.op),
         \A k \in 1 .. Arity(node.op) : Holds(l.buffers, operands[k], shapes[k]),
         LowerError(l, node, shape, shapes) = "None"
  PROVE  Extends(l, Emit(l, node, shape, operands, shapes),
                 ResultBuffer(l, node, operands), shape)
<1> DEFINE m == Emit(l, node, shape, operands, shapes)
           b == ResultBuffer(l, node, operands)
<1>1. /\ l.next_loop_var + LoopVarsTaken(node, shape, shapes) <= MaxLoopVar
      /\ \A s \in Addressed(node, shape, shapes) : Addressable(s)
  <2>1. ~ (\/ l.next_loop_var + LoopVarsTaken(node, shape, shapes) > MaxLoopVar
           \/ \E s \in Addressed(node, shape, shapes) : ~ Addressable(s))
    BY DEF LowerError
  <2>2. l.next_loop_var \in Nat /\ LoopVarsTaken(node, shape, shapes) \in Nat
    <3>1. l.next_loop_var \in Nat
      BY LoopAssumption DEF Lowering
    <3>2. LoopVarsTaken(node, shape, shapes) \in Nat
      BY DEF LoopVarsTaken, Operations, BinaryOps, UnaryOps, TypeFits
    <3> QED
      BY <3>1, <3>2
  <2> QED
    BY <2>1, <2>2, LoopAssumption
<1>2. IsList(l.buffers) /\ (node.op # "Reshape" => b = NewBuffer(l))
  BY DEF SoundLowering, ResultBuffer
<1>4. CASE node.op = "Input"
  <2> DEFINE c == Buffer("Input", node.attr.shape, node.attr.name)
             n == [l EXCEPT !.buffers = Append(@, c)]
             r == [n EXCEPT !.inputs = Append(@, NewBuffer(l))]
  <2>1. m = r
    BY <1>4 DEF Emit, AddInput, AddBuffer
  <2>2. r.buffers = Append(l.buffers, c) /\ r.body = l.body /\ r.node_buffers = l.node_buffers
    <3>1. n.buffers = Append(l.buffers, c) /\ n.body = l.body /\ n.node_buffers = l.node_buffers
      BY DEF Lowering
    <3> HIDE DEF n, c
    <3>2. r.buffers = n.buffers /\ r.body = n.body /\ r.node_buffers = n.node_buffers
      BY DEF r, n
    <3> QED
      BY <3>1, <3>2
  <2>3. c.shape = shape
    BY <1>4 DEF Buffer, TypeAgrees
  <2> HIDE DEF r, c
  <2>4. Extends(l, r, NewBuffer(l), shape)
    BY <2>2, <2>3, AddBufferExtends
  <2> QED
    BY <1>2, <1>4, <2>1, <2>4
<1>5. CASE node.op = "Const"
  <2> DEFINE c == Buffer("Const", node.attr.shape, node.attr.data)
             r == [l EXCEPT !.buffers = Append(@, c)]
  <2>1. m = r
    BY <1>5 DEF Emit, AddBuffer
  <2>2. r.buffers = Append(l.buffers, c) /\ r.body = l.body /\ r.node_buffers = l.node_buffers
    BY DEF Lowering
  <2>3. c.shape = shape
    BY <1>5 DEF Buffer, TypeAgrees
  <2> HIDE DEF r, c
  <2>4. Extends(l, r, NewBuffer(l), shape)
    BY <2>2, <2>3, AddBufferExtends
  <2> QED
    BY <1>2, <1>5, <2>1, <2>4
<1>6. CASE node.op \in {"Add", "Sub", "Mul", "Neg", "Relu"}
  <2>1. m = Elementwise(l, shape, node.op, operands)
    BY <1>6 DEF Emit
  <2>2. /\ LoopVarsTaken(node, shape, shapes) = Len(shape)
        /\ shape \in Addressed(node, shape, shapes)
    BY <1>6 DEF LoopVarsTaken, Addressed
  <2>3. shape \in Seq(Nat) /\ Addressable(shape) /\ l.next_loop_var + Len(shape) <= MaxLoopVar
    BY <1>1, <2>2 DEF TypeFits
  <2>4. \A k \in DOMAIN operands : /\ operands[k] \in 1 .. Len(l.buffers)
                                   /\ Numel(l.buffers[operands[k]].shape) = Numel(shape)
    BY <1>6 DEF TypeAgrees, Holds
  <2>5. Fills(l, m, shape)
    BY <2>1, <2>3, <2>4, ElementwiseSoundly
  <2> HIDE DEF m, b
  <2> QED
    BY <1>2, <1>6, <2>5, FillsExtends DEF m, b
<1>7. CASE node.op = "Matmul"
  <2>1. m = LowerMatmul(l, operands[1], shapes[1], operands[2], shapes[2])
    BY <1>7 DEF Emit
  <2>2. l.next_loop_var + 3 <= MaxLoopVar
    BY <1>1, <1>7 DEF LoopVarsTaken
  <2>3. ASSUME NEW d \in Range(shapes[1]) \cup Range(shapes[2])
        PROVE  d <= MaxI64
    <3>1. Addressable(<<d>>)
      BY <1>1, <1>7 DEF Addressed
    <3>2. 1 \in DOMAIN <<d>> /\ <<d>>[1] = d
      OBVIOUS
    <3> QED
      BY <3>1, <3>2 DEF Addressable
  <2>4. ASSUME NEW k \in 1 .. 2
        PROVE  /\ shapes[1][k] \in Nat /\ shapes[1][k] \in Range(shapes[1])
               /\ shapes[2][k] \in Nat /\ shapes[2][k] \in Range(shapes[2])
    BY <1>7, SMTT(30) DEF TypeFits, Range
  <2>5. \A k \in 1 .. 2 : /\ shapes[1][k] \in 0 .. MaxI64
                          /\ shapes[2][k] \in 0 .. MaxI64
    BY <2>3, <2>4, LoopAssumption
  <2>6. shapes[1][2] = shapes[2][1] /\ shape = <<shapes[1][1], shapes[2][2]>>
    BY <1>7 DEF TypeAgrees
  <2>7. /\ shapes[1] \in Seq(Nat) /\ Len(shapes[1]) = 2
        /\ shapes[2] \in Seq(Nat) /\ Len(shapes[2]) = 2
    BY <1>7 DEF TypeFits
  <2>8. shapes[1] = <<shapes[1][1], shapes[1][2]>> /\ shapes[2] = <<shapes[2][1], shapes[2][2]>>
    BY <2>7
  <2>9. Arity(node.op) = 2
    BY <1>7 DEF Arity, UnaryOps, BinaryOps
  <2>10. Holds(l.buffers, operands[1], shapes[1]) /\ Holds(l.buffers, operands[2], shapes[2])
    BY <2>9
  <2>11. /\ operands[1] \in 1 .. Len(l.buffers) /\ operands[2] \in 1 .. Len(l.buffers)
         /\ Numel(l.buffers[operands[1]].shape) = Numel(<<shapes[1][1], shapes[1][2]>>)
         /\ Numel(l.buffers[operands[2]].shape) = Numel(<<shapes[2][1], shapes[2][2]>>)
    BY <2>8, <2>10 DEF Holds
  <2>12. Fills(l, m, <<shapes[1][1], shapes[2][2]>>)
    BY <2>1, <2>2, <2>5, <2>6, <2>11, MatmulSoundly
  <2> HIDE DEF m, b
  <2> QED
    BY <1>2, <1>7, <2>6, <2>12, FillsExtends DEF m, b
<1>8. CASE node.op = "Sum"
  <2>1. m = LowerSum(l, shape, operands[1], shapes[1], node.attr.axes, node.attr.keepdim)
    BY <1>8 DEF Emit
  <2>2. /\ LoopVarsTaken(node, shape, shapes) = Len(shape) + Len(shapes[1])
        /\ Addressed(node, shape, shapes) = {shape, shapes[1]}
    BY <1>8 DEF LoopVarsTaken, Addressed
  <2>3. /\ shapes[1] \in Seq(Nat)
        /\ shape = ReducedShape(shapes[1], node.attr.axes, node.attr.keepdim)
        /\ node.attr.keepdim \in BOOLEAN
    BY <1>8 DEF TypeFits, AttrFits
  <2>4. /\ Addressable(shape) /\ Addressable(shapes[1])
        /\ l.next_loop_var + (Len(shape) + Len(shapes[1])) <= MaxLoopVar
    BY <1>1, <2>2
  <2>5. Arity(node.op) = 1
    BY <1>8 DEF Arity, UnaryOps, BinaryOps
  <2>6. /\ operands[1] \in 1 .. Len(l.buffers)
        /\ Numel(l.buffers[operands[1]].shape) = Numel(shapes[1])
    BY <2>5 DEF Holds
  <2>7. Fills(l, m, shape)
    BY <2>1, <2>3, <2>4, <2>6, SumSoundly
  <2> HIDE DEF m, b
  <2> QED
    BY <1>2, <1>8, <2>7, FillsExtends DEF m, b
<1>9. CASE node.op = "Reshape"
  <2>1. m = l /\ b = operands[1]
    BY <1>9 DEF Emit, ResultBuffer
  <2>2. Arity(node.op) = 1
    BY <1>9 DEF Arity, UnaryOps, BinaryOps
  <2>3. Holds(l.buffers, operands[1], shape)
    BY <1>9, <2>2 DEF Holds, TypeAgrees
  <2> QED
    BY <2>1, <2>3 DEF Extends
<1> QED
  BY <1>4, <1>5, <1>6, <1>7, <1>8, <1>9 DEF Operations, BinaryOps, UnaryOps

-----------------------------------------------------------------------------
(* Lowering comes to every node after the node's operands.                  *)
\* The order so far lists operands first, and what is ready has all of its own listed.
OperandsFirst(g, order) ==
  \A n \in 1 .. Len(order) :
     Operands(g.nodes[order[n]]) \subseteq {order[j] : j \in 1 .. (n - 1)}

\* Both, of the order and the queue.
Listed(g, s) ==
  /\ s.order \in Seq(Ids(g)) /\ s.ready \in Seq(Ids(g))
  /\ OperandsFirst(g, s.order)
  /\ \A i \in Range(s.ready) : Operands(g.nodes[i]) \subseteq Range(s.order)

\* One more node whose operands are all listed.
LEMMA OneMoreOperandsFirst ==
  ASSUME NEW g, NEW order \in Seq(Ids(g)), OperandsFirst(g, order), NEW i \in Ids(g),
         Operands(g.nodes[i]) \subseteq Range(order)
  PROVE  /\ OperandsFirst(g, Append(order, i))
         /\ Range(order) \subseteq Range(Append(order, i))
<1> DEFINE more == Append(order, i)
           N == Len(order)
<1>1. /\ N \in Nat /\ DOMAIN order = 1 .. N /\ DOMAIN more = 1 .. N + 1
      /\ \A j \in 1 .. N : more[j] = order[j]
      /\ more[N + 1] = i /\ Len(more) = N + 1
  <2>1. IsList(order)
    BY SeqIsList
  <2>2. IsList(more)
    BY <2>1, AppendToList
  <2>3. DOMAIN more = 1 .. Len(more) /\ DOMAIN order = 1 .. N /\ N \in Nat
    BY <2>1, <2>2, Lists
  <2> QED
    BY <2>1, <2>3, AppendToList
<1> HIDE DEF more, N
<1>2. ASSUME NEW n \in 1 .. N + 1
      PROVE  Operands(g.nodes[more[n]]) \subseteq {more[j] : j \in 1 .. (n - 1)}
  <2>1. CASE n \in 1 .. N
    <3>1. Operands(g.nodes[order[n]]) \subseteq {order[j] : j \in 1 .. (n - 1)}
      BY <2>1 DEF OperandsFirst, N
    <3>2. \A j \in 1 .. (n - 1) : more[j] = order[j]
      BY <1>1, <2>1
    <3>3. more[n] = order[n]
      BY <1>1, <2>1
    <3> QED
      BY <3>1, <3>2, <3>3
  <2>2. CASE n = N + 1
    <3>1. Operands(g.nodes[more[n]]) \subseteq Range(order)
      BY <1>1, <2>2
    <3>2. n - 1 = N
      BY <1>1, <2>2
    <3>3. Range(order) = {more[j] : j \in 1 .. N}
      BY <1>1 DEF Range
    <3> QED
      BY <3>1, <3>2, <3>3
  <2> QED
    BY <1>1, <2>1, <2>2
<1>3. Range(order) \subseteq Range(more)
  BY <1>1 DEF Range
<1> QED
  BY <1>1, <1>2, <1>3 DEF OperandsFirst, more

\* Ids in ascending order are those of the set.
LEMMA AscendingWithin ==
  ASSUME NEW n \in Nat, NEW S \in SUBSET (1 .. n)
  PROVE  Range(Ascending(S)) \subseteq S
<1>1. IsFiniteSet(S) /\ S \in SUBSET Nat
  <2>1. IsFiniteSet(1 .. n)
    BY FS_Interval
  <2>2. IsFiniteSet(S)
    BY <2>1, FS_Subset
  <2> QED
    BY <2>2
<1>2. Ascending(S) \in [1 .. Cardinality(S) -> S]
  BY <1>1, AscendingLists
<1> HIDE DEF Ascending
<1> QED
  BY <1>2 DEF Range

\* A round of the loop.
LEMMA PopKeepsListed ==
  ASSUME NEW g, Len(g.nodes) \in Nat, NEW s, Listed(g, s)
  PROVE  Listed(g, PopReady(g, s))
<1>1. CASE s.ready = << >>
  BY <1>1 DEF PopReady
<1>2. CASE s.ready # << >>
  <2> DEFINE first == Head(s.ready)
             rest == Tail(s.ready)
             order == Append(s.order, first)
             A == Ascending(ReadyAfter(g, order))
             queue == rest \o A
  <2>1. /\ s.order \in Seq(Ids(g)) /\ s.ready \in Seq(Ids(g))
        /\ OperandsFirst(g, s.order)
        /\ \A i \in Range(s.ready) : Operands(g.nodes[i]) \subseteq Range(s.order)
    BY DEF Listed
  <2>2. /\ first \in Ids(g) /\ rest \in Seq(Ids(g)) /\ order \in Seq(Ids(g))
    BY <1>2, <2>1, HeadTailProperties, AppendProperties
  <2>3. first \in Range(s.ready) /\ Range(rest) \subseteq Range(s.ready)
    <3> DEFINE q == s.ready
               n == Len(q)
    <3>1. n \in Nat /\ n # 0 /\ DOMAIN q = 1 .. n
      BY <1>2, <2>1
    <3>2. first = q[1] /\ Len(rest) = n - 1 /\ \A k \in 1 .. n - 1 : rest[k] = q[k + 1]
      BY <1>2, <2>1
    <3>3. DOMAIN rest = 1 .. n - 1
      BY <2>2, <3>2
    <3> HIDE DEF q, n, first, rest
    <3>4. 1 \in 1 .. n /\ \A k \in 1 .. n - 1 : k + 1 \in 1 .. n
      BY <3>1
    <3>5. first \in Range(q) /\ Range(rest) \subseteq Range(q)
      BY <3>1, <3>2, <3>3, <3>4 DEF Range
    <3> QED
      BY <3>5 DEF q
  <2> HIDE DEF first, rest
  <2>4. OperandsFirst(g, order) /\ Range(s.order) \subseteq Range(order)
    BY <2>1, <2>2, <2>3, OneMoreOperandsFirst
  <2> HIDE DEF order
  <2>5. ReadyAfter(g, order) \in SUBSET (1 .. Len(g.nodes))
    BY DEF ReadyAfter, Ids
  <2>6. A \in Seq(Ids(g)) /\ Range(A) \subseteq ReadyAfter(g, order)
    BY <2>5, AscendingOfIds, AscendingWithin DEF Ids
  <2> HIDE DEF A
  <2>7. queue \in Seq(Ids(g))
    BY <2>2, <2>6
  <2>8. Range(queue) \subseteq Range(rest) \cup Range(A)
    BY <2>2, <2>6, SeqIsList, ConcatElements DEF Range
  <2>9. ASSUME NEW i \in Range(queue)
        PROVE  Operands(g.nodes[i]) \subseteq Range(order)
    <3>1. CASE i \in Range(rest)
      BY <2>1, <2>3, <2>4, <3>1
    <3>2. CASE i \in Range(A)
      BY <2>6, <3>2 DEF ReadyAfter
    <3> QED
      BY <2>8, <2>9, <3>1, <3>2
  <2>10. PopReady(g, s) = [order |-> order, ready |-> queue]
    BY <1>2 DEF PopReady, order, A, first, rest
  <2> HIDE DEF queue
  <2> QED
    BY <2>2, <2>4, <2>7, <2>9, <2>10 DEF Listed
<1> QED
  BY <1>1, <1>2

\* So the order that lowering follows lists operands first.
LEMMA KahnOrderListsOperandsFirst ==
  ASSUME NEW g, Len(g.nodes) \in Nat
  PROVE  OperandsFirst(g, KahnOrder(g))
<1> DEFINE N == Len(g.nodes)
           f == Pops(g)
           S == {n \in Nat : n <= N => Listed(g, f[n])}
           A == Ascending({i \in Ids(g) : Operands(g.nodes[i]) = {}})
           start == [order |-> << >>, ready |-> A]
<1>1. f = [n \in 0 .. N |-> IF n = 0 THEN start ELSE PopReady(g, f[n - 1])]
  BY PopsDef
<1>2. Listed(g, start)
  <2>1. {i \in Ids(g) : Operands(g.nodes[i]) = {}} \in SUBSET (1 .. N)
    BY DEF Ids
  <2>2. A \in Seq(Ids(g)) /\ Range(A) \subseteq {i \in Ids(g) : Operands(g.nodes[i]) = {}}
    BY <2>1, AscendingOfIds, AscendingWithin DEF Ids
  <2> HIDE DEF A
  <2>3. start.order = << >> /\ start.ready = A
    OBVIOUS
  <2>4. << >> \in Seq(Ids(g)) /\ Len(<< >>) = 0
    OBVIOUS
  <2> DEFINE none == << >>
  <2> HIDE DEF start, none
  <2>5. OperandsFirst(g, none)
    BY <2>4 DEF OperandsFirst, none
  <2>6. start.order = none /\ none \in Seq(Ids(g))
    BY <2>3, <2>4 DEF none
  <2> QED
    BY <2>2, <2>3, <2>5, <2>6 DEF Listed
<1> HIDE DEF f, start
<1>3. 0 \in S
  BY <1>1, <1>2
<1>4. ASSUME NEW n \in Nat, n \in S
      PROVE  n + 1 \in S
  <2> SUFFICES ASSUME n + 1 <= N
               PROVE  Listed(g, f[n + 1])
    BY <1>4
  <2>1. n + 1 \in 0 .. N /\ n + 1 # 0 /\ (n + 1) - 1 = n /\ n <= N
    OBVIOUS
  <2>2. f[n + 1] = PopReady(g, f[n])
    BY <1>1, <2>1
  <2>3. Listed(g, f[n])
    BY <1>4, <2>1
  <2> QED
    BY <2>2, <2>3, PopKeepsListed
<1>5. N \in S
  <2> HIDE DEF S
  <2> QED
    BY <1>3, <1>4, SetInduction
<1>6. Listed(g, f[N])
  BY <1>5
<1> QED
  BY <1>6 DEF Listed, f, KahnOrder

-----------------------------------------------------------------------------
(* The kernels of lowering are sound.                                       *)
\* After the first n nodes of an order: sound nests, and a buffer for each node.
LoweredSoundly(g, types, order, n, l) ==
  l.err = "None" =>
    /\ SoundLowering(l)
    /\ l.node_buffers = [i \in Ids(g) |-> l.node_buffers[i]]
    /\ \A j \in 1 .. n : Holds(l.buffers, l.node_buffers[order[j]], types[order[j]].shape)

\* One more node, whose operands are lowered already.
LEMMA LowerNodeSound ==
  ASSUME NEW g, NEW types, NEW order, NEW n \in Nat, NEW l, Lowering(l),
         LoweredSoundly(g, types, order, n, l),
         NEW node, NEW i, i = order[n + 1], i \in Ids(g), node = g.nodes[i],
         \A j \in 1 .. n : order[j] \in Ids(g),
         node.op \in Operations, AttrFits(node), node.args \in Seq(Nat),
         Len(node.args) = Arity(node.op),
         Operands(node) \subseteq {order[j] : j \in 1 .. n},
         TypeFits(node, types[i].shape, ShapesOf(node, types)),
         TypeAgrees(node, types[i].shape, ShapesOf(node, types))
  PROVE  LoweredSoundly(g, types, order, n + 1, LowerNode(l, i, node, types))
<1> DEFINE operands == [k \in DOMAIN node.args |-> l.node_buffers[node.args[k]]]
           shapes   == ShapesOf(node, types)
           shape    == types[i].shape
           error    == LowerError(l, node, shape, shapes)
           m        == Emit(l, node, shape, operands, shapes)
           b        == ResultBuffer(l, node, operands)
           r        == [m EXCEPT !.node_buffers[i] = b]
           done     == LowerNode(l, i, node, types)
<1> SUFFICES ASSUME done.err = "None"
             PROVE  /\ SoundLowering(done)
                    /\ done.node_buffers = [a \in Ids(g) |-> done.node_buffers[a]]
                    /\ \A j \in 1 .. n + 1 :
                          Holds(done.buffers, done.node_buffers[order[j]], types[order[j]].shape)
  BY DEF LoweredSoundly
<1>1. done = IF l.err # "None" THEN l
             ELSE IF error # "None" THEN [l EXCEPT !.err = error]
             ELSE r
  BY DEF LowerNode, ShapesOf
<1>2. l.err = "None" /\ error = "None"
  <2> HIDE DEF error, r, done
  <2>1. [l EXCEPT !.err = error].err = error
    BY DEF Lowering
  <2> QED
    BY <1>1, <2>1
<1>3. done = r
  BY <1>1, <1>2
<1>4. /\ SoundLowering(l)
      /\ l.node_buffers = [a \in Ids(g) |-> l.node_buffers[a]]
      /\ \A j \in 1 .. n : Holds(l.buffers, l.node_buffers[order[j]], types[order[j]].shape)
  BY <1>2 DEF LoweredSoundly
<1>5. DOMAIN node.args = 1 .. Arity(node.op)
  OBVIOUS
<1>6. DOMAIN operands = 1 .. Arity(node.op) /\ DOMAIN shapes = 1 .. Arity(node.op)
  BY <1>5 DEF ShapesOf
<1>7. ASSUME NEW k \in 1 .. Arity(node.op)
      PROVE  Holds(l.buffers, operands[k], shapes[k])
  <2>1. node.args[k] \in Operands(node)
    BY <1>5 DEF Operands, Range
  <2>2. PICK j \in 1 .. n : node.args[k] = order[j]
    BY <2>1
  <2>3. operands[k] = l.node_buffers[order[j]] /\ shapes[k] = types[order[j]].shape
    BY <1>5, <2>2 DEF ShapesOf
  <2> QED
    BY <1>4, <2>3
<1> HIDE DEF operands, shapes, shape
<1>8. Extends(l, m, b, shape) /\ Lowering(m)
  <2>1. TypeFits(node, shape, shapes) /\ TypeAgrees(node, shape, shapes)
    BY DEF shape, shapes
  <2>2. LowerError(l, node, shape, shapes) = "None"
    BY <1>2
  <2>3. Extends(l, m, b, shape)
    BY <1>4, <1>6, <1>7, <2>1, <2>2, EmitSound
  <2>4. Lowering(m)
    BY <2>1, <2>2, EmitKeeps
  <2> QED
    BY <2>3, <2>4
<1> HIDE DEF m, b, error
<1>9. /\ r.buffers = m.buffers /\ r.body = m.body
      /\ r.node_buffers = [m.node_buffers EXCEPT ![i] = b]
  BY <1>8 DEF Lowering
<1>10. m.node_buffers = l.node_buffers
  BY <1>8 DEF Extends
<1> HIDE DEF r, done
<1>11. SoundLowering(done)
  BY <1>3, <1>8, <1>9 DEF SoundLowering, Extends
<1>12. done.node_buffers = [l.node_buffers EXCEPT ![i] = b] /\ done.buffers = m.buffers
  BY <1>3, <1>9, <1>10
<1> DEFINE f == done.node_buffers
           h == l.node_buffers
<1>13. h = [a \in Ids(g) |-> h[a]] /\ f = [h EXCEPT ![i] = b]
  BY <1>4, <1>12
<1> HIDE DEF f, h
<1>14. /\ f = [a \in Ids(g) |-> f[a]] /\ f[i] = b
       /\ \A a \in Ids(g) : a # i => f[a] = h[a]
  BY <1>13
<1>15. ASSUME NEW j \in 1 .. n + 1
       PROVE  Holds(m.buffers, f[order[j]], types[order[j]].shape)
  <2>1. CASE order[j] = i
    BY <1>8, <1>14, <2>1 DEF Extends, shape
  <2>2. CASE order[j] # i
    <3>1. j \in 1 .. n
      BY <2>2
    <3>2. f[order[j]] = h[order[j]]
      BY <1>14, <2>2, <3>1
    <3>3. Holds(l.buffers, h[order[j]], types[order[j]].shape)
      BY <1>4, <3>1 DEF h
    <3> QED
      BY <1>8, <3>2, <3>3 DEF Extends
  <2> QED
    BY <2>1, <2>2
<1> QED
  BY <1>11, <1>12, <1>14, <1>15 DEF f

\* A lowering starts with nothing.
LEMMA EmptySound ==
  ASSUME NEW g, NEW types, NEW order
  PROVE  LoweredSoundly(g, types, order, 0, EmptyLowerer(g))
<1> DEFINE l == EmptyLowerer(g)
           none == << >>
<1>1. l = [err |-> "None", buffers |-> none, body |-> none, inputs |-> none,
           next_loop_var |-> 0, node_buffers |-> [i \in Ids(g) |-> 0]]
  BY DEF EmptyLowerer
<1>2. none \in Seq({}) /\ DOMAIN none = {}
  OBVIOUS
<1> HIDE DEF l, none
<1>3. l.buffers = none /\ l.body = none /\ l.node_buffers = [i \in Ids(g) |-> 0]
  BY <1>1
<1>4. IsList(none)
  BY <1>2, SeqIsList
<1>5. SoundLowering(l)
  BY <1>2, <1>3, <1>4 DEF SoundLowering
<1>6. l.node_buffers = [i \in Ids(g) |-> l.node_buffers[i]]
  BY <1>3
<1> QED
  BY <1>5, <1>6 DEF LoweredSoundly, l

\* A lowering that succeeds has lowered every node of the order.
LEMMA LoweringsSound ==
  ASSUME NEW g, NEW types, NodesFit(g), NEW order, order \in Seq(Ids(g)),
         OperandsFirst(g, order),
         \A i \in Ids(g) : /\ TypeFits(g.nodes[i], types[i].shape, ShapesOf(g.nodes[i], types))
                           /\ TypeAgrees(g.nodes[i], types[i].shape, ShapesOf(g.nodes[i], types))
  PROVE  LoweredSoundly(g, types, order, Len(order), Lowerings(g, types, order)[Len(order)])
<1> DEFINE N == Len(order)
           f == Lowerings(g, types, order)
           Upto(n) == Lowering(f[n]) /\ LoweredSoundly(g, types, order, n, f[n])
           S == {n \in Nat : n <= N => Upto(n)}
<1>1. N \in Nat /\ \A n \in 1 .. N : order[n] \in Ids(g)
  OBVIOUS
<1>2. f = [n \in 0 .. N |->
             IF n = 0 THEN EmptyLowerer(g)
             ELSE LowerNode(f[n - 1], order[n], g.nodes[order[n]], types)]
  BY <1>1, LoweringsDef
<1> HIDE DEF f
<1>3. 0 \in S
  <2>1. f[0] = EmptyLowerer(g)
    BY <1>1, <1>2
  <2> QED
    BY <2>1, EmptyLowering, EmptySound
<1>4. ASSUME NEW n \in Nat, n \in S
      PROVE  n + 1 \in S
  <2> SUFFICES ASSUME n + 1 <= N
               PROVE  Upto(n + 1)
    BY <1>4
  <2> DEFINE i == order[n + 1]
             node == g.nodes[i]
  <2>1. n + 1 \in 0 .. N /\ n + 1 \in 1 .. N /\ n + 1 # 0 /\ (n + 1) - 1 = n /\ n <= N
    BY <1>1
  <2>2. f[n + 1] = LowerNode(f[n], i, node, types)
    BY <1>2, <2>1
  <2>3. i \in Ids(g) /\ \A j \in 1 .. n : order[j] \in Ids(g)
    <3>1. \A j \in 1 .. n : j \in 1 .. N
      BY <1>1, <2>1
    <3> QED
      BY <1>1, <2>1, <3>1
  <2>4. Lowering(f[n]) /\ LoweredSoundly(g, types, order, n, f[n])
    BY <1>4, <2>1
  <2>5. Operands(node) \subseteq {order[j] : j \in 1 .. n}
    BY <2>1 DEF OperandsFirst
  <2>6. /\ node.op \in Operations /\ AttrFits(node) /\ node.args \in Seq(Nat)
        /\ Len(node.args) = Arity(node.op)
    BY <2>3 DEF NodesFit
  <2>7. /\ TypeFits(node, types[i].shape, ShapesOf(node, types))
        /\ TypeAgrees(node, types[i].shape, ShapesOf(node, types))
    BY <2>3
  <2> DEFINE x == f[n]
             a == i
             b == node
  <2>8. a = order[n + 1] /\ b = g.nodes[a]
    OBVIOUS
  <2> HIDE DEF x, a, b
  <2>9. Lowering(LowerNode(x, a, b, types))
    BY <2>4, <2>6, <2>7, LowerNodeKeeps DEF x, a, b
  <2>10. LoweredSoundly(g, types, order, n + 1, LowerNode(x, a, b, types))
    BY <2>3, <2>4, <2>5, <2>6, <2>7, <2>8, LowerNodeSound DEF x, a, b
  <2> QED
    BY <2>2, <2>9, <2>10 DEF x, a, b
<1>5. N \in S
  <2> HIDE DEF S
  <2> QED
    BY <1>1, <1>3, <1>4, SetInduction
<1> QED
  BY <1>1, <1>5 DEF f

\* So is a lowered kernel, or there is none.
LEMMA LoweredKernelSound ==
  ASSUME NEW g, IsGraph(g)
  PROVE  LET k == LoweredKernel(g)
         IN  "buffers" \in DOMAIN k /\ AllSound(k.body, k.buffers)
<1> DEFINE k == LoweredKernel(g)
           inferred == InferTypes(g)
           types == inferred.types
           order == KahnOrder(g)
           last == Lowerings(g, types, order)[Len(order)]
<1> SUFFICES "buffers" \in DOMAIN k /\ AllSound(k.body, k.buffers)
  OBVIOUS
<1>1. ASSUME NEW err
      PROVE  LET n == NoKernel(err)
             IN  "buffers" \in DOMAIN n /\ AllSound(n.body, n.buffers)
  <2> DEFINE n == NoKernel(err)
  <2>1. "buffers" \in DOMAIN n /\ n.body = << >> /\ DOMAIN n.body = {}
    BY DEF NoKernel
  <2> QED
    BY <2>1 DEF AllSound
<1>2. CASE inferred.err # "None"
  <2>1. k = NoKernel(inferred.err)
    BY <1>2 DEF LoweredKernel, LowerTyped
  <2> QED
    BY <1>1, <2>1
<1>3. CASE inferred.err = "None"
  <2>1. k = KernelOf(g, last, types)
    BY <1>3 DEF LoweredKernel, LowerTyped, LowerInOrder
  <2>2. /\ NodesFit(g)
        /\ \A i \in Ids(g) : /\ TypeFits(g.nodes[i], types[i].shape, ShapesOf(g.nodes[i], types))
                             /\ TypeAgrees(g.nodes[i], types[i].shape, ShapesOf(g.nodes[i], types))
    BY <1>3, InferTypesFit, InferTypesAgree
  <2>3. order \in Seq(Ids(g)) /\ OperandsFirst(g, order)
    BY <2>2, KahnOrderIsOfIds, KahnOrderListsOperandsFirst DEF NodesFit
  <2> HIDE DEF k, types, inferred, order
  <2>4. LoweredSoundly(g, types, order, Len(order), last)
    BY <2>2, <2>3, LoweringsSound
  <2> HIDE DEF last
  <2>5. CASE last.err # "None"
    <3>1. k = NoKernel(last.err)
      BY <2>1, <2>5 DEF KernelOf
    <3> QED
      BY <1>1, <3>1
  <2>6. CASE last.err = "None"
    <3>1. "buffers" \in DOMAIN k /\ k.buffers = last.buffers /\ k.body = last.body
      BY <2>1, <2>6 DEF KernelOf
    <3>2. \A n \in DOMAIN last.body : Sound(last.body[n], last.buffers)
      BY <2>4, <2>6 DEF LoweredSoundly, SoundLowering, SoundIn
    <3> QED
      BY <3>1, <3>2 DEF AllSound
  <2> QED
    BY <2>5, <2>6
<1> QED
  BY <1>2, <1>3

\* A kernel starts sound.
LEMMA InitSound == Init => SoundInv
<1> SUFFICES ASSUME Init
             PROVE  SoundInv
  OBVIOUS
<1>1. IsGraph(graph) /\ kernel = LoweredKernel(graph)
  BY ScheduleAssumption DEF Init
<1>2. KernelSound
  BY <1>1, LoweredKernelSound DEF KernelSound
<1> QED
  BY <1>2, InitIInv DEF SoundInv

\* Whatever the kernel and the legal moves made, no iteration of a loop that deps.rs
\* calls Parallel touches what another one writes, if the buffers that its nest writes
\* can be allocated.
THEOREM ParallelIsIndependent == Spec => []ParallelMeansIndependent
<1>1. Spec => []SoundInv
  BY InitSound, StepSound, PTL DEF Spec
<1> QED
  BY <1>1, SoundMeansIndependent, PTL

\* No index of a load or store leaves a buffer that can be allocated.
THEOREM IndicesStayInBuffers == Spec => []IndicesInBuffers
<1>1. Spec => []SoundInv
  BY InitSound, StepSound, PTL DEF Spec
<1> QED
  BY <1>1, SoundMeansInBuffers, PTL
=============================================================================
