----------------------------- MODULE RasterProofs -----------------------------
(***************************************************************************)
(* Proofs about the threads that draw bitmaps and about what they draw:    *)
(* ParallelLoop, RasterPixels and BitmapRows, for every value of their     *)
(* constants.                                                              *)
(*                                                                         *)
(* ParallelLoop.  The fields keep their types and a run is a barrier.  The *)
(* argument counts: finished is the number of helpers that have finished   *)
(* the epoch, so that it reaches Size - 1 only when every helper has.  A   *)
(* run processes each index once: the ranges of the slots are apart and    *)
(* cover the whole, and a slot has been left by f once for each epoch.     *)
(*                                                                         *)
(* RasterPixels.  What a run returned has processed every index, so that   *)
(* what has been drawn is complete; and what a batch has pinned fits into  *)
(* the budget by its estimates, so that there is room for one more mask    *)
(* when nothing else is left to be evicted.                                *)
(*                                                                         *)
(* BitmapRows.  A pixel is a word and a bit, and a shifted word of a mask  *)
(* has the bits of the pixels that are moved there (CoveredBit).  Loops are*)
(* sequences of states with an invariant each (IterateWithin): spans are   *)
(* drawn one after the other; while columns end, what is no longer on the  *)
(* stack is higher than the column that comes, and every run that has      *)
(* ended was measured (Popping, Pushed); the heights count the filled      *)
(* pixels up to a row, so that every rectangle that ends in it is a run of *)
(* columns (Histogrammed).                                                 *)
(***************************************************************************)
EXTENDS RasterPixels, FiniteSetTheorems, SequenceTheorems,
        WellFoundedInduction, TLAPS

(* Numbers.                                                                *)

\* A set of numbers has a least one.
LEMMA LeastNatural ==
  ASSUME NEW S \in SUBSET Nat, S # {}
  PROVE  \E n \in S : \A m \in S : n <= m
<1>1. PICK n \in S : \A m \in S : <<m, n>> \notin OpToRel(<, Nat)
  BY WFMin, NatLessThanWellFounded, Zenon
<1>2. \A m \in S : ~(m < n)
  BY <1>1 DEF OpToRel
<1>3. QED
  BY <1>2

\* A set of numbers has a least one, and if it is bounded a largest one.
LEMMA MinIs ==
  ASSUME NEW S \in SUBSET Nat, S # {}
  PROVE  Min(S) \in S /\ \A y \in S : Min(S) <= y
BY LeastNatural DEF Min

\* A set of numbers that is bounded has a largest one.
LEMMA MaxIs ==
  ASSUME NEW S \in SUBSET Nat, S # {}, NEW n \in Nat, \A y \in S : y <= n
  PROVE  Max(S) \in S /\ \A y \in S : Max(S) >= y
<1> DEFINE T == {n - y : y \in S}
<1>1. T \in SUBSET Nat /\ T # {}
  <2>1. \A y \in S : n - y \in Nat
    OBVIOUS
  <2> QED
    BY <2>1
<1>2. PICK t \in T : \A u \in T : t <= u
  BY <1>1, LeastNatural
<1>3. PICK x \in S : t = n - x
  BY <1>2
<1>4. \A y \in S : n - x <= n - y
  BY <1>2, <1>3
<1>5. \A y \in S : x >= y
  BY <1>4
<1> QED
  BY <1>5 DEF Max

\* The smaller of two.
LEMMA MinOfTwo ==
  ASSUME NEW a \in Nat, NEW b \in Nat
  PROVE  Min({a, b}) = IF a <= b THEN a ELSE b
BY MinIs

\* A number is given by its quotient and its remainder.
LEMMA DivisionBack ==
  ASSUME NEW b \in Nat \ {0}, NEW q \in Nat, NEW u \in 0 .. b - 1
  PROVE  /\ q * b + u \in Nat
         /\ (q * b + u) \div b = q /\ (q * b + u) % b = u
<1> DEFINE n == q * b + u
           p == n \div b
           v == n % b
<1>1. n \in Nat
  OBVIOUS
<1>2. p \in Nat /\ v \in 0 .. b - 1 /\ n = b * p + v
  BY <1>1
<1> HIDE DEF p, v
<1>3. n = b * q + u
  OBVIOUS
<1> HIDE DEF n
<1>4. CASE p < q
  <2>1. b * (p + 1) <= b * q /\ b * (p + 1) = b * p + b
    BY <1>2, <1>4
  <2> QED
    BY <1>2, <1>3, <2>1
<1>5. CASE q < p
  <2>1. b * (q + 1) <= b * p /\ b * (q + 1) = b * q + b
    BY <1>2, <1>5
  <2> QED
    BY <1>2, <1>3, <2>1
<1>6. CASE p = q
  BY <1>2, <1>3, <1>6, <1>1 DEF n, p, v
<1> QED
  BY <1>2, <1>4, <1>5, <1>6

-----------------------------------------------------------------------------
(* The parallel loop.                                                      *)

InRun == caller \in {"notifying", "executing", "checking", "asleep"}

\* The helpers that have finished the current epoch.
Ran == {h \in Helpers : seen[h] = epoch /\ at[h] \in {"waiting", "woken"}}

\* Where the caller is decides whether there is a task and whether the loop
\* is stopping.
CallerInv ==
  /\ task <=> InRun
  /\ stopping <=> caller \in {"stopping", "joining", "destroyed"}

\* What a helper's position says about the caller, and outside a run every
\* helper has seen the epoch.
HelperInv ==
  \A h \in Helpers :
    /\ at[h] \in {"executing", "finishing"} => InRun /\ seen[h] = epoch
    /\ ~InRun => seen[h] = epoch
    /\ InRun \/ caller = "idle" => at[h] \notin {"unborn", "ended"}
    /\ at[h] = "ended" => stopping

CountInv == InRun => finished = Cardinality(Ran)

IInv == TypeOK /\ CallerInv /\ HelperInv /\ CountInv

\* The helpers are Size - 1 many.
LEMMA HelpersFinite == IsFiniteSet(Helpers) /\ Cardinality(Helpers) = Size - 1
<1>1. 1 \in Int /\ Size - 1 \in Int
  BY LoopAssumption DEF LoopAssumption
<1>2. IsFiniteSet(1 .. Size - 1)
      /\ Cardinality(1 .. Size - 1) = IF 1 > Size - 1 THEN 0 ELSE (Size - 1) - 1 + 1
  BY <1>1, FS_Interval, Zenon
<1>3. QED
  BY <1>2, LoopAssumption DEF LoopAssumption, Helpers

\* A set of helpers has at most Size - 1 members, and all of them if as many.
LEMMA HelperSets ==
  ASSUME NEW T \in SUBSET Helpers
  PROVE  /\ IsFiniteSet(T)
         /\ Cardinality(T) \in 0 .. Size - 1
         /\ Cardinality(T) = Size - 1 => T = Helpers
<1>1. /\ IsFiniteSet(T)
      /\ Cardinality(T) <= Cardinality(Helpers)
      /\ Cardinality(Helpers) = Cardinality(T) => Helpers = T
  BY HelpersFinite, FS_Subset, Zenon
<1>2. Cardinality(T) \in Nat
  BY <1>1, FS_CardinalityType
<1>3. QED
  BY <1>1, <1>2, HelpersFinite, LoopAssumption DEF LoopAssumption

\* The loop is constructed in the invariant.
LEMMA InitIInv == Init => IInv
<1> SUFFICES ASSUME Init PROVE IInv
  OBVIOUS
<1>1. TypeOK
  <2>1. 0 \in 0 .. MaxRuns /\ 0 \in 0 .. Size - 1 /\ 0 \in 0 .. MaxCount
    BY LoopAssumption DEF LoopAssumption
  <2>2. QED
    BY <2>1 DEF Init, TypeOK
<1>2. CallerInv
  BY DEF Init, CallerInv, InRun
<1>3. HelperInv
  BY DEF Init, HelperInv, InRun
<1>4. CountInv
  BY DEF Init, CountInv, InRun
<1>5. QED
  BY <1>1, <1>2, <1>3, <1>4 DEF IInv

\* Executing a slot changes only work and error, and keeps their types.
LEMMA ExecuteTypes ==
  ASSUME NEW slot, Execute(slot), work \in [Indices -> Nat], error \in BOOLEAN
  PROVE  work' \in [Indices -> Nat] /\ error' \in BOOLEAN
<1>1. PICK reached \in First(slot) .. First(slot + 1) :
        /\ work' = [i \in Indices |->
                      IF First(slot) <= i /\ i < reached THEN work[i] + 1
                                                         ELSE work[i]]
        /\ error' = (error \/ reached < First(slot + 1))
  BY DEF Execute
<1>2. work' \in [Indices -> Nat]
  BY <1>1
<1>3. error' \in BOOLEAN
  BY <1>1, Zenon
<1>4. QED
  BY <1>2, <1>3

\* A helper that is not counted leaves room for one more.
LEMMA RoomToFinish ==
  ASSUME TypeOK, HelperInv, CountInv, NEW h \in Helpers, at[h] = "finishing"
  PROVE  /\ finished = Cardinality(Ran)
         /\ finished + 1 \in 0 .. Size - 1
         /\ Cardinality(Ran \cup {h}) = finished + 1
<1>1. finished = Cardinality(Ran)
  BY DEF HelperInv, CountInv
<1>2. h \notin Ran
  BY DEF Ran
<1>3. Ran \cup {h} \in SUBSET Helpers /\ Ran \in SUBSET Helpers
  BY DEF Ran
<1>4. IsFiniteSet(Ran) /\ Cardinality(Ran \cup {h}) \in 0 .. Size - 1
  BY <1>3, HelperSets
<1>5. Cardinality(Ran \cup {h}) = Cardinality(Ran) + 1
  BY <1>2, <1>4, FS_AddElement
<1>6. QED
  BY <1>1, <1>4, <1>5

\* Every step keeps the types.
LEMMA TypeStep == IInv /\ [Next]_vars => TypeOK'
<1> SUFFICES ASSUME IInv, [Next]_vars PROVE TypeOK'
  OBVIOUS
<1>t. TypeOK
  BY DEF IInv
<1> USE <1>t, LoopAssumption DEF LoopAssumption, TypeOK, helperVars, taskVars
<1>0. 0 \in 0 .. MaxRuns /\ 0 \in 0 .. Size - 1 /\ 0 \in 0 .. MaxCount
  OBVIOUS
<1>1. CASE UNCHANGED vars
  BY <1>1 DEF vars
<1>2. CASE SpawnFails \/ Constructed \/ Stop \/ CallerWakes \/ RunWaits \/ Joined
  BY <1>2 DEF SpawnFails, Constructed, Stop, CallerWakes, RunWaits, Joined
<1>3. CASE RunNotifies \/ StopNotifies
  BY <1>3 DEF RunNotifies, StopNotifies, NotifyHelpers
<1>4. CASE RunExecutes
  <2>1. work' \in [Indices -> Nat] /\ error' \in BOOLEAN
    BY <1>4, ExecuteTypes DEF RunExecutes
  <2>2. QED
    BY <1>4, <2>1 DEF RunExecutes
<1>5. CASE RunEnds
  BY <1>5 DEF RunEnds
<1>6. ASSUME NEW n \in 0 .. MaxCount, RunInline(n) PROVE TypeOK'
  <2>1. /\ work' \in [Indices -> Nat]
        /\ outcome' \in {"none", "returned", "threw"}
    BY <1>6 DEF RunInline
  <2>2. QED
    BY <1>6, <2>1 DEF RunInline
<1>7. ASSUME NEW n \in 0 .. MaxCount, RunBegins(n) PROVE TypeOK'
  <2>1. epoch' \in 0 .. MaxRuns
    BY <1>7 DEF RunBegins
  <2>2. work' \in [Indices -> Nat] /\ error' \in BOOLEAN
    BY <1>7 DEF RunBegins
  <2>3. QED
    BY <1>0, <1>7, <2>1, <2>2 DEF RunBegins
<1>8. ASSUME NEW h \in Helpers,
             Spawn(h) \/ HelperWaits(h) \/ HelperWakes(h) \/ HelperBegins(h)
               \/ HelperEnds(h)
      PROVE  TypeOK'
  BY <1>8 DEF Spawn, HelperWaits, HelperWakes, HelperBegins, HelperEnds
<1>9. ASSUME NEW h \in Helpers, HelperExecutes(h) PROVE TypeOK'
  <2>1. work' \in [Indices -> Nat] /\ error' \in BOOLEAN
    BY <1>9, ExecuteTypes DEF HelperExecutes
  <2>2. QED
    BY <1>9, <2>1 DEF HelperExecutes
<1>10. ASSUME NEW h \in Helpers, HelperFinishes(h) PROVE TypeOK'
  <2>1. finished' \in 0 .. Size - 1
    BY <1>10, RoomToFinish DEF IInv, HelperFinishes
  <2>2. /\ caller' \in {"constructing", "idle", "notifying", "executing",
                        "checking", "asleep", "stopping", "joining", "destroyed"}
        /\ at' \in [Helpers -> {"unborn", "waiting", "woken", "executing",
                                "finishing", "ended"}]
    BY <1>10 DEF HelperFinishes, NotifyCaller
  <2>3. QED
    BY <1>10, <2>1, <2>2 DEF HelperFinishes
<1>11. QED
  BY <1>1, <1>2, <1>3, <1>4, <1>5, <1>6, <1>7, <1>8, <1>9, <1>10
     DEF Next, Caller, Helper

\* There is a task during a run only.
LEMMA CallerStep == IInv /\ [Next]_vars => CallerInv'
<1> SUFFICES ASSUME IInv, [Next]_vars PROVE CallerInv'
  OBVIOUS
<1> USE DEF IInv, CallerInv, InRun, helperVars, taskVars
<1>1. CASE UNCHANGED vars
  BY <1>1 DEF vars
<1>2. CASE SpawnFails \/ Constructed \/ Stop \/ CallerWakes \/ RunWaits
           \/ Joined \/ RunNotifies \/ StopNotifies \/ RunExecutes \/ RunEnds
  BY <1>2 DEF SpawnFails, Constructed, Stop, CallerWakes, RunWaits, Joined,
              RunNotifies, StopNotifies, RunExecutes, RunEnds
<1>3. ASSUME NEW n \in 0 .. MaxCount, RunInline(n) \/ RunBegins(n)
      PROVE  CallerInv'
  BY <1>3 DEF RunInline, RunBegins
<1>4. ASSUME NEW h \in Helpers, Spawn(h) \/ HelperWakes(h) \/ Helper(h)
      PROVE  CallerInv'
  BY <1>4 DEF Spawn, HelperWakes, Helper, HelperWaits, HelperBegins,
              HelperExecutes, HelperFinishes, HelperEnds, NotifyCaller
<1>5. QED
  BY <1>1, <1>2, <1>3, <1>4 DEF Next, Caller

\* When finished_ is Size - 1, every helper has finished the epoch.
LEMMA AllRan ==
  ASSUME CountInv, InRun, finished = Size - 1
  PROVE  Ran = Helpers
<1>1. Ran \in SUBSET Helpers
  BY DEF Ran
<1>2. QED
  BY <1>1, HelperSets DEF CountInv

\* A helper executes during a run only.
LEMMA HelperStep == IInv /\ [Next]_vars => HelperInv'
<1> SUFFICES ASSUME IInv, [Next]_vars PROVE HelperInv'
  OBVIOUS
<1> USE DEF IInv, TypeOK, CallerInv, HelperInv, InRun, helperVars, taskVars
<1>1. CASE UNCHANGED vars
  BY <1>1 DEF vars
<1>2. CASE SpawnFails \/ Constructed \/ Stop \/ CallerWakes \/ RunWaits
           \/ Joined \/ RunExecutes
  BY <1>2 DEF SpawnFails, Constructed, Stop, CallerWakes, RunWaits, Joined,
              RunExecutes
<1>3. CASE RunNotifies \/ StopNotifies
  BY <1>3 DEF RunNotifies, StopNotifies, NotifyHelpers
<1>4. CASE RunEnds
  <2>1. Ran = Helpers
    BY <1>4, AllRan DEF RunEnds
  <2>2. \A h \in Helpers : seen[h] = epoch /\ at[h] \in {"waiting", "woken"}
    BY <2>1 DEF Ran
  <2>3. QED
    BY <1>4, <2>2 DEF RunEnds
<1>5. ASSUME NEW n \in 0 .. MaxCount, RunInline(n) \/ RunBegins(n)
      PROVE  HelperInv'
  BY <1>5 DEF RunInline, RunBegins
<1>6. ASSUME NEW h \in Helpers,
             Spawn(h) \/ HelperWakes(h) \/ HelperWaits(h) \/ HelperBegins(h)
               \/ HelperExecutes(h) \/ HelperEnds(h)
      PROVE  HelperInv'
  BY <1>6 DEF Spawn, HelperWakes, HelperWaits, HelperBegins, HelperExecutes,
              HelperEnds
<1>7. ASSUME NEW h \in Helpers, HelperFinishes(h) PROVE HelperInv'
  BY <1>7 DEF HelperFinishes, NotifyCaller
<1>8. QED
  BY <1>1, <1>2, <1>3, <1>4, <1>5, <1>6, <1>7 DEF Next, Caller, Helper

\* A step that moves no helper into or out of Ran, nor starts a run.
LEMMA CountKept ==
  ASSUME CountInv, Ran' = Ran, InRun' => InRun, finished' = finished
  PROVE  CountInv'
BY DEF CountInv

\* finished_ counts the helpers that have finished.
LEMMA CountStep == IInv /\ [Next]_vars => CountInv'
<1> SUFFICES ASSUME IInv, [Next]_vars PROVE CountInv'
  OBVIOUS
<1> USE DEF IInv, helperVars, taskVars
<1>1. CASE UNCHANGED vars
  BY <1>1 DEF vars, CountInv, Ran, InRun
<1>2. CASE SpawnFails \/ Constructed \/ Stop \/ CallerWakes \/ RunWaits
           \/ Joined \/ RunExecutes \/ RunEnds
  <2>1. /\ at' = at /\ seen' = seen /\ epoch' = epoch /\ finished' = finished
        /\ InRun' => InRun
    BY <1>2 DEF SpawnFails, Constructed, Stop, CallerWakes, RunWaits, Joined,
                RunExecutes, RunEnds, InRun
  <2>2. Ran' = Ran
    BY <2>1 DEF Ran
  <2>3. QED
    BY <2>1, <2>2, CountKept
<1>3. CASE RunNotifies \/ StopNotifies
  <2>1. Ran' = Ran
    BY <1>3 DEF RunNotifies, StopNotifies, NotifyHelpers, Ran, TypeOK
  <2>2. finished' = finished /\ (InRun' => InRun)
    BY <1>3 DEF RunNotifies, StopNotifies, InRun
  <2>3. QED
    BY <2>1, <2>2, CountKept
<1>4. ASSUME NEW n \in 0 .. MaxCount, RunInline(n) PROVE CountInv'
  BY <1>4 DEF RunInline, CountInv, InRun
<1>5. ASSUME NEW n \in 0 .. MaxCount, RunBegins(n) PROVE CountInv'
  <2>1. \A h \in Helpers : seen[h] = epoch
    BY <1>5 DEF RunBegins, HelperInv, InRun
  <2>2. Ran' = {}
    BY <1>5, <2>1 DEF RunBegins, Ran, TypeOK
  <2>3. QED
    BY <1>5, <2>2, FS_EmptySet DEF RunBegins, CountInv
<1>6. ASSUME NEW h \in Helpers, Spawn(h) PROVE CountInv'
  BY <1>6 DEF Spawn, CountInv, InRun
<1>7. ASSUME NEW h \in Helpers, HelperWaits(h) \/ HelperWakes(h)
      PROVE  CountInv'
  <2>1. Ran' = Ran
    BY <1>7 DEF HelperWaits, HelperWakes, Ran, TypeOK
  <2>2. finished' = finished /\ (InRun' => InRun)
    BY <1>7 DEF HelperWaits, HelperWakes, InRun
  <2>3. QED
    BY <2>1, <2>2, CountKept
<1>8. ASSUME NEW h \in Helpers, HelperBegins(h) \/ HelperExecutes(h)
      PROVE  CountInv'
  <2>1. Ran' = Ran
    BY <1>8 DEF HelperBegins, HelperExecutes, Ran, TypeOK
  <2>2. finished' = finished /\ (InRun' => InRun)
    BY <1>8 DEF HelperBegins, HelperExecutes, InRun
  <2>3. QED
    BY <2>1, <2>2, CountKept
<1>9. ASSUME NEW h \in Helpers, HelperEnds(h) PROVE CountInv'
  <2>1. ~InRun'
    BY <1>9 DEF HelperEnds, CallerInv, InRun
  <2>2. QED
    BY <2>1 DEF CountInv
<1>10. ASSUME NEW h \in Helpers, HelperFinishes(h) PROVE CountInv'
  <2>1. InRun /\ seen[h] = epoch /\ ~stopping
    BY <1>10 DEF HelperFinishes, HelperInv, CallerInv, InRun
  <2>2. Ran' = Ran \cup {h}
    BY <1>10, <2>1 DEF HelperFinishes, Sleeps, Ran, TypeOK
  <2>3. finished' = Cardinality(Ran \cup {h})
    BY <1>10, RoomToFinish DEF HelperFinishes
  <2>4. QED
    BY <2>2, <2>3 DEF CountInv
<1>11. QED
  BY <1>1, <1>2, <1>3, <1>4, <1>5, <1>6, <1>7, <1>8, <1>9, <1>10
     DEF Next, Caller, Helper

\* Together they are inductive.
LEMMA StepIInv == IInv /\ [Next]_vars => IInv'
BY TypeStep, CallerStep, HelperStep, CountStep DEF IInv

\* The fields of a loop keep their types, for any number of slots and runs.
THEOREM TypeCorrect == Spec => []TypeOK
<1>1. IInv => TypeOK
  BY DEF IInv
<1>2. QED
  BY <1>1, InitIInv, StepIInv, PTL DEF Spec

\* No helper executes a task outside a run, nor without a task, for any number
\* of slots and runs: run() is a barrier.
THEOREM BarrierAlways == Spec => []Barrier
<1>1. IInv => Barrier
  BY DEF IInv, HelperInv, CallerInv, Barrier, InRun
<1>2. QED
  BY <1>1, InitIInv, StepIInv, PTL DEF Spec

-----------------------------------------------------------------------------
(* Every index once.                                                       *)

\* Division rounds down.
LEMMA Quotient ==
  ASSUME NEW a \in Nat, NEW b \in Nat \ {0}
  PROVE  /\ a \div b \in Nat
         /\ b * (a \div b) <= a /\ a < b * (a \div b) + b
OBVIOUS

\* The least multiple.
LEMMA QuotientAtLeast ==
  ASSUME NEW a \in Nat, NEW b \in Nat \ {0}, NEW c \in Nat
  PROVE  c <= a \div b <=> b * c <= a
<1> DEFINE q == a \div b
<1>1. q \in Nat /\ b * q <= a /\ a < b * q + b
  BY Quotient
<1> HIDE DEF q
<1>2. CASE c <= q
  <2>1. b * c <= b * q BY <1>1, <1>2
  <2> QED BY <1>1, <1>2, <2>1 DEF q
<1>3. CASE c > q
  <2>1. b * c >= b * (q + 1) BY <1>1, <1>3
  <2>2. b * (q + 1) = b * q + b BY <1>1
  <2> QED BY <1>1, <1>3, <2>1, <2>2 DEF q
<1> QED BY <1>1, <1>2, <1>3

\* The ranges of the slots are consecutive, and together the whole range.
LEMMA FirstOrder ==
  ASSUME count \in Nat, NEW s \in 0 .. Size, NEW t \in 0 .. Size, s <= t
  PROVE  /\ First(s) \in Nat /\ First(t) \in Nat /\ First(s) <= First(t)
         /\ First(0) = 0 /\ First(Size) = count
<1>1. Size \in Nat \ {0} /\ count * s \in Nat /\ count * t \in Nat /\ count * s <= count * t
  BY LoopAssumption DEF LoopAssumption
<1>2. First(s) \in Nat /\ First(t) \in Nat /\ Size * First(s) <= count * s
  BY <1>1, Quotient DEF First
<1>3. First(s) <= First(t)
  BY <1>1, <1>2, QuotientAtLeast DEF First
<1>4. First(0) = 0
  <2>1. count * 0 = 0 BY <1>1
  <2> QED BY <1>1, <2>1 DEF First
<1>5. First(Size) = count
  <2> DEFINE q == (count * Size) \div Size
  <2>1. count * Size \in Nat /\ count * Size = Size * count BY <1>1
  <2>2. q \in Nat /\ count <= q BY <1>1, <2>1, QuotientAtLeast
  <2>3. ~(count + 1 <= q)
    <3>1. Size * (count + 1) = Size * count + Size BY <1>1
    <3> QED BY <1>1, <2>1, <3>1, QuotientAtLeast
  <2> QED BY <2>2, <2>3 DEF First
<1> QED BY <1>2, <1>3, <1>4, <1>5

\* Every index is in the range of a slot.
LEMMA FirstCovers ==
  ASSUME count \in Nat, NEW i \in 0 .. count - 1
  PROVE  \E s \in 0 .. Size - 1 : First(s) <= i /\ i < First(s + 1)
<1> DEFINE top == Size * (i + 1) - 1
           s == top \div count
<1>1. Size \in Nat \ {0} /\ count \in Nat \ {0} /\ i \in Nat
  BY LoopAssumption DEF LoopAssumption
<1>2. top \in Nat /\ Size * (i + 1) >= Size /\ Size * (i + 1) <= Size * count
  BY <1>1
<1> HIDE DEF top
<1>3. s \in Nat /\ count * s <= top /\ top < count * s + count
  BY <1>1, <1>2, Quotient
<1>4. ~(Size <= s)
  BY <1>1, <1>2, QuotientAtLeast DEF top
<1> HIDE DEF s
<1>5. ~(i + 1 <= First(s))
  <2>1. count * s \in Nat BY <1>1, <1>3
  <2>2. ~(Size * (i + 1) <= count * s) BY <1>1, <1>2, <1>3, <2>1 DEF top
  <2> QED BY <1>1, <2>1, <2>2, QuotientAtLeast DEF First
<1>6. i + 1 <= First(s + 1)
  <2>1. count * (s + 1) \in Nat /\ count * (s + 1) = count * s + count BY <1>1, <1>3
  <2>2. Size * (i + 1) <= count * (s + 1) BY <1>1, <1>2, <1>3, <2>1 DEF top
  <2> QED BY <1>1, <2>1, <2>2, QuotientAtLeast DEF First
<1>7. First(s) \in Int /\ First(s + 1) \in Int
  BY <1>1, <1>3, FirstOrder, <1>4
<1> QED BY <1>1, <1>3, <1>4, <1>5, <1>6, <1>7
\* The indices of a slot.
Part(slot) == {i \in Indices : First(slot) <= i /\ i < First(slot + 1)}

\* The slots that f has left, in this run: at its end or with an exception.
Left(slot) ==
  IF slot = 0 THEN caller \in {"checking", "asleep"}
  ELSE seen[slot] = epoch /\ at[slot] \in {"finishing", "waiting", "woken"}

\* Who has not left its slot has processed nothing of it, and who has left it
\* has processed all of it, unless an exception is kept for the caller.
WorkInv ==
  InRun =>
    /\ outcome = "none"
    /\ \A i \in Indices : work[i] <= 1
    /\ \A slot \in 0 .. Size - 1 :
         /\ ~Left(slot) => \A i \in Part(slot) : work[i] = 0
         /\ Left(slot) /\ ~error => \A i \in Part(slot) : work[i] = 1
    /\ error => \E slot \in 0 .. Size - 1 :
         Left(slot) /\ \E i \in Part(slot) : work[i] = 0

\* The indices of two slots are apart.
LEMMA PartsApart ==
  ASSUME count \in Nat, NEW s \in 0 .. Size - 1, NEW t \in 0 .. Size - 1, s # t
  PROVE  Part(s) \cap Part(t) = {}
PROOF
<1>0. Size \in Nat
  BY LoopAssumption DEF LoopAssumption
<1>1. ASSUME NEW a \in 0 .. Size - 1, NEW b \in 0 .. Size - 1, a < b
      PROVE  Part(a) \cap Part(b) = {}
  <2>1. First(a + 1) \in Nat /\ First(b) \in Nat /\ First(a + 1) <= First(b)
    BY <1>0, <1>1, FirstOrder
  <2> QED BY <2>1 DEF Part, Indices
<1>2. CASE s < t BY <1>1, <1>2
<1>3. CASE t < s BY <1>1, <1>3
<1> QED BY <1>0, <1>2, <1>3

\* A slot that f leaves adds its indices to what has been processed.
LEMMA ExecuteKeeps ==
  ASSUME TypeOK, WorkInv, InRun, InRun', NEW slot \in 0 .. Size - 1, ~Left(slot),
         Execute(slot), UNCHANGED <<count, outcome>>,
         \A t \in 0 .. Size - 1 : Left(t)' <=> Left(t) \/ t = slot
  PROVE  WorkInv'
PROOF
<1>1. PICK reached \in First(slot) .. First(slot + 1) :
        /\ work' = [i \in Indices |->
                      IF First(slot) <= i /\ i < reached THEN work[i] + 1
                                                         ELSE work[i]]
        /\ error' = (error \/ reached < First(slot + 1))
  BY DEF Execute
<1>2. /\ First(slot) \in Nat /\ First(slot + 1) \in Nat
      /\ First(slot + 1) <= count /\ count \in Nat /\ count <= MaxCount
      /\ MaxCount \in Nat /\ Size \in Nat
  BY FirstOrder, LoopAssumption DEF TypeOK, LoopAssumption
<1>3. \A t : Part(t)' = Part(t)
  BY DEF Part, First
<1>4. \A i \in Part(slot) : work[i] = 0
  BY DEF WorkInv
<1>5. \A i \in Indices : i \notin Part(slot) => work'[i] = work[i]
  BY <1>1, <1>2 DEF Part, Indices
<1>6. \A i \in Part(slot) : work'[i] = IF i < reached THEN 1 ELSE 0
  BY <1>1, <1>2, <1>4 DEF Part
<1>7. \A i \in Indices : work'[i] <= 1
  BY <1>5, <1>6 DEF WorkInv
<1>8. ASSUME NEW t \in 0 .. Size - 1
      PROVE  /\ ~Left(t)' => \A i \in Part(t) : work'[i] = 0
             /\ Left(t)' /\ ~error' => \A i \in Part(t) : work'[i] = 1
  <2>1. CASE t = slot
    <3>1. Left(slot)'
      OBVIOUS
    <3>2. ~error' => ~(reached < First(slot + 1))
      BY <1>1
    <3>3. ~error' => reached = First(slot + 1)
      BY <3>2, <1>1, <1>2
    <3> QED BY <2>1, <3>1, <3>3, <1>2, <1>6 DEF Part
  <2>2. CASE t # slot
    <3>1. \A i \in Part(t) : work'[i] = work[i]
      BY <2>2, <1>2, <1>5, PartsApart DEF Part
    <3>2. error => error'
      BY <1>1
    <3>3. Left(t)' <=> Left(t)
      BY <2>2
    <3> QED BY <3>1, <3>2, <3>3 DEF WorkInv
  <2> QED BY <2>1, <2>2
<1>9. ASSUME error'
      PROVE  \E t \in 0 .. Size - 1 : Left(t)' /\ \E i \in Part(t) : work'[i] = 0
  <2>1. CASE error
    <3>1. PICK t \in 0 .. Size - 1 : Left(t) /\ \E i \in Part(t) : work[i] = 0
      BY <2>1 DEF WorkInv
    <3>2. t # slot
      BY <3>1
    <3>3. \A i \in Part(t) : work'[i] = work[i]
      BY <3>2, <1>2, <1>5, PartsApart DEF Part
    <3> QED BY <3>1, <3>3
  <2>2. CASE ~error
    <3>0. reached < First(slot + 1)
      BY <2>2, <1>1, <1>9
    <3>1. reached \in Part(slot)
      BY <3>0, <1>1, <1>2 DEF Part, Indices
    <3>2. work'[reached] = 0
      BY <3>1, <1>2, <1>6
    <3>3. Left(slot)'
      OBVIOUS
    <3> QED BY <3>1, <3>2, <3>3
  <2> QED BY <2>1, <2>2
<1>10. outcome' = "none"
  BY DEF WorkInv
<1> QED BY <1>3, <1>7, <1>8, <1>9, <1>10 DEF WorkInv

\* A step after which the same slots have been left.
LEMMA WorkKept ==
  ASSUME WorkInv, UNCHANGED <<work, error, outcome, count>>, InRun' => InRun,
         InRun' => \A t \in 0 .. Size - 1 : Left(t)' <=> Left(t)
  PROVE  WorkInv'
PROOF
<1>1. \A t : Part(t)' = Part(t)
  BY DEF Part, First
<1> QED BY <1>1 DEF WorkInv

\* What has been worked on follows from who has finished.
LEMMA WorkStep == IInv /\ WorkInv /\ [Next]_vars => WorkInv'
PROOF
<1> SUFFICES ASSUME IInv, WorkInv, [Next]_vars PROVE WorkInv'
  OBVIOUS
<1>0. \A t \in 0 .. Size - 1 : t # 0 => t \in Helpers
  BY LoopAssumption DEF LoopAssumption, Helpers
<1> USE DEF IInv, helperVars, taskVars
<1>1. CASE UNCHANGED vars
  BY <1>1, WorkKept DEF vars, Left, InRun
<1>2. CASE SpawnFails \/ Constructed \/ Stop \/ StopNotifies \/ Joined \/ RunEnds
  BY <1>2 DEF SpawnFails, Constructed, Stop, StopNotifies, Joined, RunEnds, WorkInv, InRun
<1>3. CASE CallerWakes \/ RunWaits
  <2>1. UNCHANGED <<work, error, outcome, count>> /\ (InRun' => InRun)
    BY <1>3 DEF CallerWakes, RunWaits, InRun
  <2>2. \A t \in 0 .. Size - 1 : Left(t)' <=> Left(t)
    BY <1>3 DEF CallerWakes, RunWaits, Left
  <2> QED BY <2>1, <2>2, WorkKept
<1>4. CASE RunNotifies
  <2>1. UNCHANGED <<work, error, outcome, count>> /\ (InRun' => InRun)
    BY <1>4 DEF RunNotifies, InRun
  <2>2. \A t \in 0 .. Size - 1 : Left(t)' <=> Left(t)
    BY <1>0, <1>4 DEF RunNotifies, NotifyHelpers, Left
  <2> QED BY <2>1, <2>2, WorkKept
<1>5. CASE RunExecutes
  <2>1. 0 \in 0 .. Size - 1
    BY LoopAssumption DEF LoopAssumption
  <2>2. /\ InRun /\ InRun' /\ ~Left(0) /\ UNCHANGED <<count, outcome>>
        /\ Execute(0)
        /\ \A t \in 0 .. Size - 1 : Left(t)' <=> Left(t) \/ t = 0
    BY <1>5 DEF RunExecutes, InRun, Left
  <2> QED BY <2>1, <2>2, ExecuteKeeps
<1>6. ASSUME NEW n \in 0 .. MaxCount, RunInline(n) PROVE WorkInv'
  BY <1>6 DEF RunInline, WorkInv, InRun
<1>7. ASSUME NEW n \in 0 .. MaxCount, RunBegins(n) PROVE WorkInv'
  <2>1. \A t \in 0 .. Size - 1 : ~Left(t)'
    BY <1>0, <1>7 DEF RunBegins, Left, HelperInv, InRun, TypeOK
  <2>2. \A i \in Indices : work'[i] = 0
    BY <1>7 DEF RunBegins
  <2>3. ~error' /\ outcome' = "none"
    BY <1>7 DEF RunBegins
  <2> QED BY <2>1, <2>2, <2>3 DEF WorkInv, Part
<1>8. ASSUME NEW h \in Helpers,
             \/ Spawn(h) \/ HelperWaits(h) \/ HelperWakes(h) \/ HelperBegins(h)
             \/ HelperEnds(h)
      PROVE  WorkInv'
  <2>1. UNCHANGED <<caller, work, error, outcome, count, epoch>>
    BY <1>8 DEF Spawn, HelperWaits, HelperWakes, HelperBegins, HelperEnds
  <2>2. InRun => \A t \in 0 .. Size - 1 : Left(t)' <=> Left(t)
    BY <1>0, <1>8, <2>1 DEF Spawn, HelperWaits, HelperWakes, HelperBegins,
       HelperEnds, Left, TypeOK, CallerInv, InRun, HelperInv
  <2> QED BY <2>1, <2>2, WorkKept DEF InRun
<1>9. ASSUME NEW h \in Helpers, HelperExecutes(h) PROVE WorkInv'
  <2>1. h \in 0 .. Size - 1 /\ h # 0
    BY LoopAssumption DEF LoopAssumption, Helpers
  <2>2. InRun /\ seen[h] = epoch
    BY <1>9 DEF HelperExecutes, HelperInv
  <2>3. /\ InRun' /\ ~Left(h) /\ UNCHANGED <<count, outcome>> /\ Execute(h)
    BY <1>9, <2>1, <2>2 DEF HelperExecutes, InRun, Left
  <2>4. \A t \in 0 .. Size - 1 : Left(t)' <=> Left(t) \/ t = h
    BY <1>0, <1>9, <2>1, <2>2 DEF HelperExecutes, Left, TypeOK
  <2> QED BY <2>1, <2>2, <2>3, <2>4, ExecuteKeeps
<1>10. ASSUME NEW h \in Helpers, HelperFinishes(h) PROVE WorkInv'
  <2>1. UNCHANGED <<work, error, outcome, count>> /\ InRun /\ seen[h] = epoch
    BY <1>10 DEF HelperFinishes, HelperInv
  <2>2. \A t \in 0 .. Size - 1 : Left(t)' <=> Left(t)
    BY <1>0, <1>10, <2>1 DEF HelperFinishes, NotifyCaller, Left, TypeOK
  <2> QED BY <2>1, <2>2, WorkKept
<1> QED
  BY <1>1, <1>2, <1>3, <1>4, <1>5, <1>6, <1>7, <1>8, <1>9, <1>10
  DEF Next, Caller, Helper

\* At the end of a run every slot has been left.
LEMMA OnceStep == IInv /\ WorkInv /\ ExactlyOnce /\ [Next]_vars => ExactlyOnce'
PROOF
<1> SUFFICES ASSUME IInv, WorkInv, ExactlyOnce, [Next]_vars PROVE ExactlyOnce'
  OBVIOUS
<1>0. WorkInv' /\ IInv'
  BY WorkStep, StepIInv
<1>1. CASE InRun'
  BY <1>0, <1>1 DEF WorkInv, ExactlyOnce
<1> USE DEF IInv, helperVars, taskVars
<1>2. CASE RunEnds
  <2>1. /\ InRun /\ caller = "checking" /\ Ran = Helpers
        /\ UNCHANGED <<count, work, error>>
        /\ outcome' = IF error THEN "threw" ELSE "returned"
    BY <1>2, AllRan DEF RunEnds, InRun
  <2>2. \A t \in 0 .. Size - 1 : Left(t)
    BY <2>1, LoopAssumption DEF Left, Ran, Helpers, LoopAssumption
  <2>3. count \in Nat /\ count <= MaxCount /\ MaxCount \in Nat /\ Size \in Nat
    BY LoopAssumption DEF TypeOK, LoopAssumption
  <2>4. ASSUME ~error, NEW i \in 0 .. count - 1 PROVE work[i] = 1
    <3>1. PICK t \in 0 .. Size - 1 : First(t) <= i /\ i < First(t + 1)
      BY <2>3, FirstCovers
    <3>2. i \in Part(t)
      BY <3>1, <2>3 DEF Part, Indices
    <3> QED BY <3>2, <2>1, <2>2, <2>4 DEF WorkInv
  <2>5. ASSUME error PROVE \E i \in 0 .. count - 1 : work[i] = 0
    <3>1. PICK t \in 0 .. Size - 1 : \E i \in Part(t) : work[i] = 0
      BY <2>1, <2>5 DEF WorkInv
    <3>2. First(t + 1) \in Nat /\ First(t + 1) <= count
      BY <2>3, FirstOrder
    <3>3. Part(t) \subseteq 0 .. count - 1
      BY <2>3, <3>2 DEF Part, Indices
    <3> QED BY <3>1, <3>3
  <2> QED BY <2>1, <2>4, <2>5 DEF WorkInv, ExactlyOnce
<1>3. ASSUME NEW n \in 0 .. MaxCount, RunInline(n) PROVE ExactlyOnce'
  <2>1. count' = n
    BY <1>3 DEF RunInline
  <2>2. PICK reached \in 0 .. n :
          /\ work' = [i \in Indices |-> IF i < reached THEN 1 ELSE 0]
          /\ outcome' = IF reached = n THEN "returned" ELSE "threw"
    BY <1>3 DEF RunInline
  <2>3. 0 .. n - 1 \subseteq Indices /\ n \in Nat /\ MaxCount \in Nat
    BY LoopAssumption DEF Indices, LoopAssumption
  <2>4. \A i \in Indices : work'[i] <= 1
    BY <2>2
  <2>5. CASE reached = n
    BY <2>1, <2>2, <2>3, <2>4, <2>5 DEF ExactlyOnce
  <2>6. CASE reached # n
    <3>1. reached \in 0 .. n - 1 /\ work'[reached] = 0
      BY <2>2, <2>3, <2>6
    <3> QED BY <2>1, <2>2, <2>4, <2>6, <3>1 DEF ExactlyOnce
  <2> QED BY <2>5, <2>6
<1>4. CASE ~InRun' /\ ~RunEnds /\ \A n \in 0 .. MaxCount : ~RunInline(n)
  <2>1. UNCHANGED <<work, outcome, count>>
    BY <1>4 DEF Next, Caller, Helper, vars, SpawnFails, Constructed, Stop, StopNotifies,
       Joined, CallerWakes, RunWaits, RunNotifies, RunExecutes, RunBegins,
       Spawn, HelperWaits, HelperWakes, HelperBegins, HelperEnds, HelperExecutes,
       HelperFinishes, HelperInv, NotifyCaller, InRun
  <2> QED BY <2>1 DEF ExactlyOnce
<1> QED BY <1>1, <1>2, <1>3, <1>4

\* However late the helpers are and wherever f throws, for any number of slots
\* and any range: no index is processed twice in a run, one that returns has
\* processed its range, and one that throws has not.
THEOREM ExactlyOnceAlways == Spec => []ExactlyOnce
PROOF
<1>1. Init => IInv /\ WorkInv /\ ExactlyOnce
  BY InitIInv DEF Init, WorkInv, ExactlyOnce, InRun
<1>2. IInv /\ WorkInv /\ ExactlyOnce /\ [Next]_vars
        => (IInv /\ WorkInv /\ ExactlyOnce)'
  BY StepIInv, WorkStep, OnceStep
<1> QED BY <1>1, <1>2, PTL DEF Spec

-----------------------------------------------------------------------------
(* The pixels of masks.  First, sums over finite sets.                     *)

\* Of the sets with a property, one is such that no smaller one has it.
LEMMA SmallestSet ==
  ASSUME NEW F, F # {}, \A T \in F : IsFiniteSet(T)
  PROVE  \E T \in F : \A x \in T : T \ {x} \notin F
<1> DEFINE Sizes == {Cardinality(T) : T \in F}
<1>1. PICK n \in Sizes : \A m \in Sizes : n <= m
  <2>1. Sizes \subseteq Nat /\ Sizes # {}
    BY FS_CardinalityType
  <2> HIDE DEF Sizes
  <2>2. QED
    BY <2>1, LeastNatural
<1>2. PICK T \in F : n = Cardinality(T)
  OBVIOUS
<1>3. ASSUME NEW x \in T, T \ {x} \in F
      PROVE  FALSE
  <2>1. Cardinality(T \ {x}) = Cardinality(T) - 1 /\ Cardinality(T) \in Nat
    BY FS_RemoveElement, FS_CardinalityType
  <2>2. Cardinality(T \ {x}) \in Sizes
    BY <1>3
  <2>3. QED
    BY <1>1, <1>2, <2>1, <2>2
<1>4. QED
  BY <1>3

\* The element that a sum takes first, and the equation of the sums of the
\* subsets of a set.
Pick(s) == CHOOSE x \in s : TRUE
Rest(s) == s \ {Pick(s)}
SumOf(f, g, s) == IF s = {} THEN 0 ELSE f[Pick(s)] + g[Rest(s)]
Solves(f, g, S) == g = [s \in SUBSET S |-> SumOf(f, g, s)]
Partial(f, S) == CHOOSE g : Solves(f, g, S)

LEMMA SumIs ==
  ASSUME NEW f, NEW S
  PROVE  Sum(f, S) = Partial(f, S)[S]
BY Zenon DEF Sum, MapThenSumSet, MapThenFoldSet, Partial, Solves, SumOf, Pick, Rest

LEMMA PickIs == ASSUME NEW s, s # {} PROVE Pick(s) \in s
BY DEF Pick

LEMMA RestSmaller ==
  ASSUME NEW T, NEW U, U \subseteq T, U # {}
  PROVE  Rest(U) \subseteq T /\ Rest(U) # T /\ Rest(U) \subseteq U
BY PickIs DEF Rest

\* The equation has at most one solution, ...
LEMMA SolvesOnce ==
  ASSUME NEW f, NEW T, IsFiniteSet(T), NEW g, NEW h, NEW U, U \subseteq T,
         Solves(f, g, T), Solves(f, h, U)
  PROVE  g[U] = h[U]
<1> DEFINE F == {s \in SUBSET U : g[s] # h[s]}
<1>1. SUFFICES ASSUME F # {} PROVE FALSE
  OBVIOUS
<1>2. \A s \in F : IsFiniteSet(s)
  BY FS_Subset
<1>3. PICK s \in F : \A x \in s : s \ {x} \notin F
  <2> HIDE DEF F
  <2>1. QED
    BY <1>1, <1>2, SmallestSet
<1>4. g[s] = SumOf(f, g, s) /\ h[s] = SumOf(f, h, s)
  BY <1>3 DEF Solves
<1>5. CASE s = {}
  BY <1>3, <1>4, <1>5 DEF SumOf
<1>6. CASE s # {}
  <2>1. Rest(s) \notin F /\ Rest(s) \in SUBSET U
    BY <1>3, <1>6, PickIs DEF Rest
  <2>2. g[Rest(s)] = h[Rest(s)]
    BY <2>1
  <2>3. g[s] = h[s]
    BY <1>4, <1>6, <2>2 DEF SumOf
  <2>4. QED
    BY <1>3, <2>3
<1>7. QED
  BY <1>5, <1>6

\* ... and has one: what it is for the smaller sets makes up the next one.
LEMMA SolvesExists ==
  ASSUME NEW f, NEW S, IsFiniteSet(S)
  PROVE  \E g : Solves(f, g, S)
<1> DEFINE F == {T \in SUBSET S : ~\E g : Solves(f, g, T)}
<1>1. SUFFICES ASSUME F # {} PROVE FALSE
  OBVIOUS
<1>2. \A T \in F : IsFiniteSet(T)
  BY FS_Subset
<1>3. PICK T \in F : \A x \in T : T \ {x} \notin F
  <2> HIDE DEF F
  <2>1. QED
    BY <1>1, <1>2, SmallestSet
<1>4. IsFiniteSet(T) /\ T \subseteq S
  BY <1>2, <1>3
<1>5. \A x \in T : \E g : Solves(f, g, T \ {x})
  BY <1>3
<1> HIDE DEF F
<1> DEFINE G(x) == Partial(f, T \ {x})
<1>6. \A x \in T : Solves(f, G(x), T \ {x})
  BY <1>5 DEF Partial
<1> DEFINE Value(u) == LET x == CHOOSE x \in T : x \notin u IN G(x)[u]
           g == [s \in SUBSET T |->
                   IF s = T THEN IF T = {} THEN 0 ELSE f[Pick(T)] + G(Pick(T))[Rest(T)]
                   ELSE Value(s)]
<1>7. ASSUME NEW x \in T, NEW y \in T, NEW u \in SUBSET T, x \notin u, y \notin u
      PROVE  G(x)[u] = G(y)[u]
  <2>1. u \subseteq T \ {x} /\ u \subseteq T \ {y}
    BY <1>7
  <2>2. IsFiniteSet(T \ {x}) /\ IsFiniteSet(T \ {y})
    BY <1>4, FS_RemoveElement
  <2> DEFINE h == [s \in SUBSET u |-> G(y)[s]]
  <2>3. Solves(f, h, u)
    <3>1. \A s \in SUBSET u : h[s] = SumOf(f, h, s)
      <4> SUFFICES ASSUME NEW s \in SUBSET u PROVE h[s] = SumOf(f, h, s)
        OBVIOUS
      <4>1. G(y)[s] = SumOf(f, G(y), s)
        BY <1>6, <2>1 DEF Solves
      <4>2. s # {} => Rest(s) \in SUBSET u
        BY PickIs DEF Rest
      <4> HIDE DEF G
      <4>3. QED
        BY <4>1, <4>2 DEF SumOf
    <3>2. h = [s \in SUBSET u |-> h[s]]
      OBVIOUS
    <3> HIDE DEF h
    <3>3. QED
      BY <3>1, <3>2 DEF Solves
  <2>4. h[u] = G(y)[u]
    OBVIOUS
  <2> HIDE DEF h, G
  <2>5. G(x)[u] = h[u]
    BY <1>6, <2>1, <2>2, <2>3, SolvesOnce
  <2>6. QED
    BY <2>4, <2>5
<1>8. \A u \in SUBSET T : \A x \in T : x \notin u => g[u] = G(x)[u]
  <2> SUFFICES ASSUME NEW u \in SUBSET T, NEW x \in T, x \notin u
               PROVE  g[u] = G(x)[u]
    OBVIOUS
  <2> DEFINE y == CHOOSE y \in T : y \notin u
  <2>1. y \in T /\ y \notin u
    OBVIOUS
  <2>2. g[u] = G(y)[u]
    <3>1. u # T
      OBVIOUS
    <3> HIDE DEF G
    <3>2. QED
      BY <3>1
  <2> HIDE DEF g, G, y
  <2>3. QED
    BY <1>7, <2>1, <2>2
<1>9. \A s \in SUBSET T : g[s] = SumOf(f, g, s)
  <2> SUFFICES ASSUME NEW s \in SUBSET T PROVE g[s] = SumOf(f, g, s)
    OBVIOUS
  <2>1. CASE s = T
    <3>1. CASE T = {}
      BY <2>1, <3>1 DEF SumOf
    <3>2. CASE T # {}
      <4>1. Pick(T) \in T /\ Pick(T) \notin Rest(T) /\ Rest(T) \in SUBSET T
        BY <3>2, PickIs DEF Rest
      <4>2. g[s] = f[Pick(T)] + G(Pick(T))[Rest(T)]
        BY <2>1, <3>2
      <4> HIDE DEF g, G
      <4>3. g[Rest(T)] = G(Pick(T))[Rest(T)]
        BY <1>8, <4>1
      <4>4. QED
        BY <2>1, <3>2, <4>2, <4>3 DEF SumOf
    <3>3. QED
      BY <3>1, <3>2
  <2>2. CASE s # T
    <3>1. PICK x \in T : x \notin s
      BY <2>2
    <3> HIDE DEF g, G
    <3>2. g[s] = G(x)[s]
      BY <1>8, <3>1
    <3>3. G(x)[s] = SumOf(f, G(x), s)
      <4> DEFINE h == G(x)
      <4>1. Solves(f, h, T \ {x}) /\ s \in SUBSET (T \ {x})
        BY <1>6, <3>1
      <4> HIDE DEF h
      <4>2. QED
        <5>1. h[s] = SumOf(f, h, s)
          BY <4>1 DEF Solves
        <5>2. QED
          BY <5>1 DEF h
    <3>4. s # {} => Rest(s) \in SUBSET T /\ x \notin Rest(s)
      BY <3>1, PickIs DEF Rest
    <3>5. s # {} => g[Rest(s)] = G(x)[Rest(s)]
      BY <1>8, <3>1, <3>4
    <3>6. QED
      BY <3>2, <3>3, <3>5 DEF SumOf
  <2>3. QED
    BY <2>1, <2>2
<1>10. g = [s \in SUBSET T |-> g[s]]
  OBVIOUS
<1> HIDE DEF g
<1>11. Solves(f, g, T)
  BY <1>9, <1>10 DEF Solves
<1>12. QED
  BY <1>3, <1>11 DEF F

\* So a sum is its first element and the sum of the others.
LEMMA SumFirst ==
  ASSUME NEW f, NEW S, IsFiniteSet(S)
  PROVE  Sum(f, S) = IF S = {} THEN 0 ELSE f[Pick(S)] + Sum(f, Rest(S))
<1>1. Solves(f, Partial(f, S), S)
  BY SolvesExists DEF Partial
<1>2. Sum(f, S) = Partial(f, S)[S]
  BY SumIs
<1>3. Partial(f, S)[S] = SumOf(f, Partial(f, S), S)
  BY <1>1 DEF Solves
<1>4. CASE S = {}
  BY <1>2, <1>3, <1>4 DEF SumOf
<1>5. CASE S # {}
  <2>1. Rest(S) \subseteq S /\ IsFiniteSet(Rest(S))
    BY <1>5, FS_Subset DEF Rest
  <2>2. Solves(f, Partial(f, Rest(S)), Rest(S))
    BY <2>1, SolvesExists DEF Partial
  <2>3. Partial(f, S)[Rest(S)] = Partial(f, Rest(S))[Rest(S)]
    BY <1>1, <2>1, <2>2, SolvesOnce
  <2>4. QED
    BY <1>2, <1>3, <1>5, <2>3, SumIs DEF SumOf
<1>6. QED
  BY <1>4, <1>5

LEMMA SumTyped ==
  ASSUME NEW f, NEW S, IsFiniteSet(S), \A x \in S : f[x] \in Nat
  PROVE  Sum(f, S) \in Nat
<1> DEFINE F == {T \in SUBSET S : Sum(f, T) \notin Nat}
<1>1. SUFFICES ASSUME F # {} PROVE FALSE
  OBVIOUS
<1>2. \A T \in F : IsFiniteSet(T)
  BY FS_Subset
<1>3. PICK T \in F : \A x \in T : T \ {x} \notin F
  <2> HIDE DEF F
  <2>1. QED
    BY <1>1, <1>2, SmallestSet
<1>4. Sum(f, T) = IF T = {} THEN 0 ELSE f[Pick(T)] + Sum(f, Rest(T))
  BY <1>2, <1>3, SumFirst
<1>5. T # {} => f[Pick(T)] \in Nat /\ Sum(f, Rest(T)) \in Nat
  BY <1>3, PickIs DEF Rest
<1>6. QED
  BY <1>3, <1>4, <1>5

\* Any element can be taken first.
LEMMA SumRemove ==
  ASSUME NEW f, NEW S, IsFiniteSet(S), \A x \in S : f[x] \in Nat, NEW e \in S
  PROVE  Sum(f, S) = f[e] + Sum(f, S \ {e})
<1> DEFINE F == {T \in SUBSET S : \E y \in T : Sum(f, T) # f[y] + Sum(f, T \ {y})}
<1>1. SUFFICES ASSUME F # {} PROVE FALSE
  OBVIOUS
<1>2. \A T \in F : IsFiniteSet(T)
  BY FS_Subset
<1>3. PICK T \in F : \A x \in T : T \ {x} \notin F
  <2> HIDE DEF F
  <2>1. QED
    BY <1>1, <1>2, SmallestSet
<1>4. PICK y \in T : Sum(f, T) # f[y] + Sum(f, T \ {y})
  BY <1>3
<1> DEFINE p == Pick(T)
<1>5. p \in T /\ T \subseteq S /\ IsFiniteSet(T)
  BY <1>2, <1>3, <1>4, PickIs
<1>6. Sum(f, T) = f[p] + Sum(f, T \ {p})
  BY <1>4, <1>5, SumFirst DEF Rest
<1> HIDE DEF p
<1>7. y # p
  BY <1>4, <1>6
<1> DEFINE U == (T \ {p}) \ {y}
<1>8. /\ T \ {p} \in SUBSET S /\ T \ {y} \in SUBSET S
      /\ T \ {p} \notin F /\ T \ {y} \notin F
      /\ y \in T \ {p} /\ p \in T \ {y} /\ (T \ {y}) \ {p} = U
  BY <1>3, <1>5, <1>7
<1>9. Sum(f, T \ {p}) = f[y] + Sum(f, U)
  BY <1>8
<1>10. Sum(f, T \ {y}) = f[p] + Sum(f, U)
  BY <1>8
<1>11. f[p] \in Nat /\ f[y] \in Nat
  BY <1>5
<1>12. U \subseteq S /\ IsFiniteSet(U)
  BY <1>5, FS_Subset
<1>13. Sum(f, U) \in Nat
  <2> HIDE DEF U
  <2>1. QED
    BY <1>12, SumTyped
<1>14. QED
  BY <1>4, <1>6, <1>9, <1>10, <1>11, <1>13

LEMMA SumAdd ==
  ASSUME NEW f, NEW S, IsFiniteSet(S), \A x \in S : f[x] \in Nat, NEW e, e \notin S,
         f[e] \in Nat
  PROVE  Sum(f, S \cup {e}) = Sum(f, S) + f[e]
<1> DEFINE T == S \cup {e}
<1>1. IsFiniteSet(T) /\ e \in T /\ T \ {e} = S /\ \A x \in T : f[x] \in Nat
  BY FS_AddElement
<1> HIDE DEF T
<1>2. Sum(f, T) = f[e] + Sum(f, T \ {e})
  BY <1>1, SumRemove
<1>3. Sum(f, S) \in Nat
  BY SumTyped
<1>4. Sum(f, T) = Sum(f, S) + f[e]
  BY <1>1, <1>2, <1>3
<1>5. QED
  BY <1>4 DEF T

\* What costs less in every element costs less in all.
LEMMA SumMonotone ==
  ASSUME NEW f, NEW g, NEW S, IsFiniteSet(S),
         \A x \in S : f[x] \in Nat /\ g[x] \in Nat /\ f[x] <= g[x]
  PROVE  Sum(f, S) <= Sum(g, S)
<1> DEFINE F == {T \in SUBSET S : ~(Sum(f, T) <= Sum(g, T))}
<1>1. SUFFICES ASSUME F # {} PROVE FALSE
  OBVIOUS
<1>2. \A T \in F : IsFiniteSet(T)
  BY FS_Subset
<1>3. PICK T \in F : \A x \in T : T \ {x} \notin F
  <2> HIDE DEF F
  <2>1. QED
    BY <1>1, <1>2, SmallestSet
<1>4. /\ Sum(f, T) = IF T = {} THEN 0 ELSE f[Pick(T)] + Sum(f, Rest(T))
      /\ Sum(g, T) = IF T = {} THEN 0 ELSE g[Pick(T)] + Sum(g, Rest(T))
  BY <1>2, <1>3, SumFirst
<1>5. CASE T = {}
  BY <1>3, <1>4, <1>5
<1>6. CASE T # {}
  <2>1. /\ Pick(T) \in S /\ Rest(T) \in SUBSET S
        /\ Sum(f, Rest(T)) <= Sum(g, Rest(T))
    BY <1>3, <1>6, PickIs DEF Rest
  <2>2. IsFiniteSet(Rest(T)) /\ \A x \in Rest(T) : f[x] \in Nat /\ g[x] \in Nat
    BY <2>1, FS_Subset
  <2>3. Sum(f, Rest(T)) \in Nat /\ Sum(g, Rest(T)) \in Nat
    BY <2>2, SumTyped
  <2>4. f[Pick(T)] \in Nat /\ g[Pick(T)] \in Nat /\ f[Pick(T)] <= g[Pick(T)]
    BY <2>1
  <2>5. QED
    BY <1>3, <1>4, <1>6, <2>1, <2>3, <2>4
<1>7. QED
  BY <1>5, <1>6

LEMMA SumEmpty == ASSUME NEW f PROVE Sum(f, {}) = 0
BY FS_EmptySet, SumFirst

\* The masks whose pixels are kept, and the one that is being drawn.
Kept == {resident[i] : i \in 1 .. Len(resident)}
Drawing == IF job = "drawing" THEN {hand} ELSE {}

PixelsTyped ==
  /\ job \in {"none", "room", "drawing", "batch", "check", "checking"}
  /\ job \in {"room", "drawing"} => hand \in Masks
  /\ filled \subseteq Masks /\ wanted \subseteq Masks /\ pinned \subseteq Masks
  /\ rows = [m \in Masks |-> rows[m]]
  /\ resident \in Seq(Masks)

\* What is kept is complete, is listed once and is accounted for.
StoreInv ==
  /\ \A m \in filled \ Drawing : rows[m] = AllRows(m)
  /\ Kept = filled \ Drawing
  /\ \A i, j \in 1 .. Len(resident) : resident[i] = resident[j] => i = j
  /\ bytes = Sum(Cost, Kept)
  /\ bytes <= Budget \/ Len(resident) <= 1

\* The pinned masks are kept until they have been checked, and there is room for
\* all of them or only one.
PinInv ==
  /\ job = "none" => pinned = {}
  /\ job \in {"batch", "drawing", "check", "checking"} => pinned \subseteq filled
  /\ job = "room" =>
       /\ hand \notin filled /\ pinned \ {hand} \subseteq filled
       /\ \/ pinned \subseteq {hand}
          \/ hand \in pinned /\ Sum(Estimate, pinned) <= Budget

\* The rows of the mask in hand are drawn once there is room for it, or nothing
\* else is kept.
DrawInv ==
  job = "drawing" =>
    /\ hand \in filled
    /\ count = Height[hand]
    /\ bytes + Cost[hand] <= Budget \/ resident = <<>>

PixelInv == PixelsTyped /\ StoreInv /\ PinInv /\ DrawInv

-----------------------------------------------------------------------------
(* The pixels use the loop.                                                *)

LEMMA PixelConstants ==
  /\ IsFiniteSet(Masks) /\ Budget \in Nat
  /\ \A m \in Masks : /\ Height[m] \in 1 .. MaxCount
                      /\ Cost[m] \in Nat /\ Estimate[m] \in Nat
                      /\ Cost[m] <= Estimate[m]
BY PixelAssumption DEF PixelAssumption

\* The variables of the loop change as they do in the loop.
LEMMA PixelStepLoops ==
  ASSUME PixelsTyped, [PixelNext]_<<vars, pixelVars>>
  PROVE  [Next]_vars
<1>1. CASE LoopSteps
  BY <1>1 DEF LoopSteps, Next
<1>2. ASSUME NEW n, n \in 0 .. MaxCount, NEW from, NEW to, Runs(from, n, to)
      PROVE  Next
  BY <1>2 DEF Runs, Next
<1>3. CASE Draws
  <2>1. job = "room" /\ Runs("room", Height[hand], "drawing")
    BY <1>3 DEF Draws, Runs
  <2>2. Height[hand] \in 0 .. MaxCount
    BY <2>1, PixelConstants, LoopAssumption DEF PixelsTyped, LoopAssumption
  <2>3. QED
    BY <1>2, <2>1, <2>2
<1>4. CASE Checks
  <2>1. Cardinality(pinned) \in Nat
    BY PixelConstants, FS_Subset, FS_CardinalityType DEF PixelsTyped
  <2>2. PICK n \in Cardinality(pinned) .. MaxCount : Runs("check", n, "checking")
    BY <1>4 DEF Checks
  <2>3. n \in 0 .. MaxCount
    BY <2>1, <2>2, LoopAssumption DEF LoopAssumption
  <2>4. QED
    BY <1>2, <2>2, <2>3
<1>5. CASE \/ EnsureOne \/ Evicts \/ DrawThrows \/ DrawEnds
           \/ BatchBegins \/ BatchPins \/ BatchFull \/ BatchChecked
  BY <1>5 DEF EnsureOne, Evicts, DrawThrows, DrawEnds, BatchBegins, BatchPins,
              BatchFull, BatchChecked
<1>6. CASE UNCHANGED <<vars, pixelVars>>
  BY <1>6
<1>7. QED
  BY <1>1, <1>3, <1>4, <1>5, <1>6 DEF PixelNext

-----------------------------------------------------------------------------
(* The store.                                                              *)

LEMMA KeptMasks ==
  ASSUME NEW s \in Seq(Masks)
  PROVE  /\ {s[i] : i \in 1 .. Len(s)} \subseteq Masks
         /\ IsFiniteSet({s[i] : i \in 1 .. Len(s)})
<1>1. {s[i] : i \in 1 .. Len(s)} \subseteq Masks
  OBVIOUS
<1>2. QED
  BY <1>1, PixelConstants, FS_Subset

\* What a subset of the masks costs.
LEMMA CostsTyped ==
  ASSUME NEW S, S \subseteq Masks
  PROVE  /\ IsFiniteSet(S)
         /\ Sum(Cost, S) \in Nat /\ Sum(Estimate, S) \in Nat
         /\ Sum(Cost, S) <= Sum(Estimate, S)
<1>1. IsFiniteSet(S)
  BY PixelConstants, FS_Subset
<1>2. \A x \in S : Cost[x] \in Nat /\ Estimate[x] \in Nat /\ Cost[x] <= Estimate[x]
  BY PixelConstants
<1>3. Sum(Cost, S) \in Nat
  BY <1>1, <1>2, SumTyped
<1>4. Sum(Estimate, S) \in Nat
  BY <1>1, <1>2, SumTyped
<1>5. Sum(Cost, S) <= Sum(Estimate, S)
  BY <1>1, <1>2, SumMonotone
<1>6. QED
  BY <1>1, <1>3, <1>4, <1>5

\* A list of different masks without one of them.
LEMMA Removed ==
  ASSUME NEW s \in Seq(Masks), NEW i \in 1 .. Len(s),
         \A j, k \in 1 .. Len(s) : s[j] = s[k] => j = k
  PROVE  LET t == RemoveAt(s, i)
         IN /\ t \in Seq(Masks)
            /\ Len(t) = Len(s) - 1
            /\ \A j, k \in 1 .. Len(t) : t[j] = t[k] => j = k
            /\ {t[j] : j \in 1 .. Len(t)} = {s[j] : j \in 1 .. Len(s)} \ {s[i]}
<1> DEFINE t == RemoveAt(s, i)
<1>0. Len(s) \in Nat /\ i \in 1 .. Len(s)
  OBVIOUS
<1>1. /\ t \in Seq(Masks)
      /\ Len(t) = Len(s) - 1
      /\ \A j \in 1 .. Len(t) : t[j] = IF j < i THEN s[j] ELSE s[j + 1]
  <2> DEFINE u == SubSeq(s, 1, i - 1)
             v == SubSeq(s, i + 1, Len(s))
  <2>1. /\ u \in Seq(Masks) /\ Len(u) = i - 1
        /\ \A j \in 1 .. i - 1 : u[j] = s[j]
    BY <1>0
  <2>2. /\ v \in Seq(Masks) /\ Len(v) = Len(s) - i
        /\ \A j \in 1 .. Len(s) - i : v[j] = s[i + j]
    BY <1>0
  <2>3. t = u \o v
    BY DEF RemoveAt
  <2> HIDE DEF u, v, t
  <2>4. t \in Seq(Masks) /\ Len(t) = Len(s) - 1
    <3>0. u \in Seq(Masks) /\ v \in Seq(Masks)
      BY <2>1, <2>2
    <3>1. u \o v \in Seq(Masks) /\ Len(u \o v) = Len(u) + Len(v)
      BY <3>0
    <3>2. Len(u) + Len(v) = Len(s) - 1
      BY <1>0, <2>1, <2>2
    <3>3. QED
      BY <2>3, <3>1, <3>2
  <2>5. ASSUME NEW j \in 1 .. Len(t)
        PROVE  t[j] = IF j < i THEN s[j] ELSE s[j + 1]
    <3>1. CASE j < i
      <4>1. t[j] = u[j]
        BY <1>0, <2>1, <2>2, <2>3, <2>4, <3>1
      <4>2. QED
        BY <1>0, <2>1, <3>1, <4>1
    <3>2. CASE ~(j < i)
      <4>1. j - (i - 1) \in 1 .. Len(s) - i /\ i + (j - (i - 1)) = j + 1
        BY <1>0, <2>4, <3>2
      <4>2. t[j] = v[j - (i - 1)]
        BY <1>0, <2>1, <2>2, <2>3, <2>4, <3>2, <4>1
      <4>3. v[j - (i - 1)] = s[i + (j - (i - 1))]
        BY <2>2, <4>1
      <4>4. QED
        BY <3>2, <4>1, <4>2, <4>3
    <3>3. QED
      BY <3>1, <3>2
  <2>6. QED
    BY <2>4, <2>5
<1> HIDE DEF t
<1>2. Len(s) \in Nat /\ Len(t) \in Nat
  BY <1>1
<1>3. \A j, k \in 1 .. Len(t) : t[j] = t[k] => j = k
  BY <1>1, <1>2
<1>4. ASSUME NEW j \in 1 .. Len(t)
      PROVE  t[j] \in {s[k] : k \in 1 .. Len(s)} \ {s[i]}
  <2>1. CASE j < i
    BY <1>1, <1>2, <2>1
  <2>2. CASE ~(j < i)
    <3>1. j + 1 \in 1 .. Len(s) /\ j + 1 # i
      BY <1>1, <1>2, <2>2
    <3>2. QED
      BY <1>1, <2>2, <3>1
  <2>3. QED
    BY <2>1, <2>2
<1>5. ASSUME NEW k \in 1 .. Len(s), s[k] # s[i]
      PROVE  s[k] \in {t[j] : j \in 1 .. Len(t)}
  <2>1. CASE k < i
    BY <1>1, <1>2, <2>1
  <2>2. CASE ~(k < i)
    <3>1. k - 1 \in 1 .. Len(t) /\ ~(k - 1 < i) /\ k - 1 + 1 = k
      BY <1>1, <1>2, <1>5, <2>2
    <3>2. QED
      BY <1>1, <3>1
  <2>3. QED
    BY <2>1, <2>2
<1>6. {t[j] : j \in 1 .. Len(t)} = {s[j] : j \in 1 .. Len(s)} \ {s[i]}
  BY <1>4, <1>5
<1>7. QED
  BY <1>1, <1>3, <1>6 DEF t

LEMMA Listed ==
  ASSUME NEW s \in Seq(Masks), NEW m \in Masks,
         \A j, k \in 1 .. Len(s) : s[j] = s[k] => j = k,
         m \notin {s[i] : i \in 1 .. Len(s)}
  PROVE  LET t == Append(s, m)
         IN /\ t \in Seq(Masks)
            /\ Len(t) = Len(s) + 1
            /\ \A j, k \in 1 .. Len(t) : t[j] = t[k] => j = k
            /\ {t[j] : j \in 1 .. Len(t)} = {s[j] : j \in 1 .. Len(s)} \cup {m}
<1> DEFINE t == Append(s, m)
<1>1. /\ t \in Seq(Masks)
      /\ Len(t) = Len(s) + 1
      /\ \A j \in 1 .. Len(t) : t[j] = IF j <= Len(s) THEN s[j] ELSE m
  OBVIOUS
<1> HIDE DEF t
<1>2. Len(s) \in Nat
  OBVIOUS
<1>3. \A j, k \in 1 .. Len(t) : t[j] = t[k] => j = k
  BY <1>1, <1>2
<1>4. \A j \in 1 .. Len(t) : t[j] \in {s[k] : k \in 1 .. Len(s)} \cup {m}
  BY <1>1, <1>2
<1>5. \A k \in 1 .. Len(s) : s[k] \in {t[j] : j \in 1 .. Len(t)}
  BY <1>1, <1>2
<1>6. m \in {t[j] : j \in 1 .. Len(t)}
  <2>1. Len(t) \in 1 .. Len(t) /\ t[Len(t)] = m
    BY <1>1, <1>2
  <2>2. QED
    BY <2>1
<1>7. QED
  BY <1>1, <1>3, <1>4, <1>5, <1>6 DEF t

-----------------------------------------------------------------------------
(* The steps.                                                              *)

LEMMA InitPixelInv == PixelInit => PixelInv
<1> SUFFICES ASSUME PixelInit PROVE PixelInv
  OBVIOUS
<1> USE DEF PixelInit
<1>1. Kept = {} /\ Len(resident) = 0
  BY DEF Kept
<1>2. PixelsTyped
  BY DEF PixelsTyped
<1>3. StoreInv
  BY <1>1, SumEmpty DEF StoreInv, Drawing
<1>4. PinInv /\ DrawInv
  BY DEF PinInv, DrawInv
<1>5. QED
  BY <1>2, <1>3, <1>4 DEF PixelInv

\* The store may stay as it is while nothing is drawn.
LEMMA StoreStays ==
  ASSUME PixelsTyped, StoreInv, UNCHANGED store, Drawing' = Drawing
  PROVE  StoreInv'
BY DEF StoreInv, Kept, store

\* ensure takes a mask, for itself or for a batch.
LEMMA EnsureKeeps ==
  ASSUME PixelInv, NEW m \in Masks, NEW throws, NEW others \in SUBSET Masks,
         NEW pins, job \in {"none", "batch"},
         \/ pins = {}
         \/ pins = pinned \cup {m} /\ ~TooMany(m),
         pinned = {} \/ pins = pinned \cup {m},
         Ensure(m, throws, others, pins)
  PROVE  PixelInv'
<1>1. /\ UNCHANGED store /\ hand' = m
      /\ pins \in SUBSET Masks /\ pinned \subseteq filled
  BY DEF Ensure, PixelInv, PixelsTyped, PinInv
<1>2. job' \in {"none", "batch", "room"}
  BY DEF Ensure, Abandon, Return
<1>3. Drawing' = Drawing
  BY <1>2 DEF Drawing
<1>4. StoreInv'
  BY <1>1, <1>3, StoreStays DEF PixelInv
<1>5. pinned' \in {{}, pins} /\ wanted' \in {{}, others}
  BY DEF Ensure, Abandon
<1>6. PixelsTyped'
  BY <1>1, <1>2, <1>5 DEF PixelInv, PixelsTyped, store
<1>7. PinInv'
  <2>1. CASE throws /\ Abandon
    BY <2>1 DEF PinInv, Abandon
  <2>2. CASE m \in filled /\ pinned' = pins /\ Return
    BY <1>1, <2>2 DEF PinInv, Return, store
  <2>3. CASE m \notin filled /\ pinned' = pins /\ job' = "room"
    <3>1. pins \ {m} \subseteq filled
      BY <1>1
    <3>2. \/ pins \subseteq {m}
          \/ m \in pins /\ Sum(Estimate, pins) <= Budget
      <4>1. CASE pins = {} \/ pinned = {}
        BY <4>1
      <4>2. CASE pins = pinned \cup {m} /\ ~TooMany(m) /\ pinned # {}
        <5>1. ~(Sum(Estimate, pins) > Budget)
          BY <4>2 DEF TooMany
        <5>2. Sum(Estimate, pins) \in Nat
          BY <1>1, CostsTyped
        <5>3. QED
          BY <4>2, <5>1, <5>2, PixelConstants
      <4>3. QED
        BY <4>1, <4>2
    <3>3. QED
      BY <1>1, <2>3, <3>1, <3>2 DEF PinInv, store
  <2>4. QED
    BY <2>1, <2>2, <2>3 DEF Ensure
<1>8. DrawInv'
  BY <1>2 DEF DrawInv
<1>9. QED
  BY <1>4, <1>6, <1>7, <1>8 DEF PixelInv

\* One mask is evicted, and none that is pinned.
LEMMA EvictsKeeps == PixelInv /\ Evicts => PixelInv'
<1> SUFFICES ASSUME PixelInv, Evicts PROVE PixelInv'
  OBVIOUS
<1>1. PICK i \in DOMAIN resident :
        /\ resident[i] \notin pinned
        /\ resident' = RemoveAt(resident, i)
        /\ filled' = filled \ {resident[i]}
        /\ rows' = [rows EXCEPT ![resident[i]] = {}]
        /\ bytes' = bytes - Cost[resident[i]]
  BY DEF Evicts
<1>2. job = "room" /\ UNCHANGED call
  BY DEF Evicts
<1>3. resident \in Seq(Masks) /\ i \in 1 .. Len(resident)
  BY DEF PixelInv, PixelsTyped
<1> DEFINE old == resident[i]
<1>4. old \in Masks /\ old \in Kept
  BY <1>3 DEF Kept
<1>5. /\ \A j, k \in 1 .. Len(resident) : resident[j] = resident[k] => j = k
      /\ bytes = Sum(Cost, Kept)
      /\ Kept = filled
  BY <1>2 DEF PixelInv, StoreInv, Drawing
<1>6. /\ resident' \in Seq(Masks)
      /\ Len(resident') = Len(resident) - 1
      /\ \A j, k \in 1 .. Len(resident') : resident'[j] = resident'[k] => j = k
      /\ Kept' = Kept \ {old}
  <2> DEFINE s == resident
             t == RemoveAt(s, i)
  <2>1. s \in Seq(Masks) /\ i \in 1 .. Len(s)
    BY <1>3
  <2>2. \A j, k \in 1 .. Len(s) : s[j] = s[k] => j = k
    BY <1>5
  <2> HIDE DEF s
  <2>3. /\ t \in Seq(Masks)
        /\ Len(t) = Len(s) - 1
        /\ \A j, k \in 1 .. Len(t) : t[j] = t[k] => j = k
        /\ {t[j] : j \in 1 .. Len(t)} = {s[j] : j \in 1 .. Len(s)} \ {s[i]}
    BY <2>1, <2>2, Removed
  <2>4. resident' = t /\ resident = s
    BY <1>1 DEF s
  <2> HIDE DEF t
  <2>5. Kept = {s[j] : j \in 1 .. Len(s)} /\ old = s[i]
    BY DEF Kept, s
  <2>6. Kept' = {t[j] : j \in 1 .. Len(t)}
    BY <2>4 DEF Kept
  <2> HIDE DEF old
  <2>7. QED
    BY <2>3, <2>4, <2>5, <2>6
<1> HIDE DEF old
<1>7. /\ job' = "room" /\ hand' = hand /\ pinned' = pinned /\ wanted' = wanted
      /\ filled' = filled \ {old} /\ rows' = [rows EXCEPT ![old] = {}]
      /\ old \notin pinned /\ bytes' = bytes - Cost[old]
  BY <1>1, <1>2 DEF call, old
<1>8. PixelsTyped'
  <2>1. rows' = [m \in Masks |-> rows'[m]]
    BY <1>7 DEF PixelInv, PixelsTyped
  <2>2. QED
    BY <1>2, <1>6, <1>7, <2>1 DEF PixelInv, PixelsTyped
<1>9. StoreInv'
  <2>1. Drawing = {} /\ Drawing' = {}
    BY <1>2, <1>7 DEF Drawing
  <2>2. \A m \in filled' : rows'[m] = AllRows(m)
    <3> SUFFICES ASSUME NEW m \in filled' PROVE rows'[m] = AllRows(m)
      OBVIOUS
    <3>1. m \in filled /\ m # old /\ m \in Masks
      BY <1>7 DEF PixelInv, PixelsTyped
    <3>2. rows'[m] = rows[m]
      BY <1>7, <3>1 DEF PixelInv, PixelsTyped
    <3>3. rows[m] = AllRows(m)
      BY <2>1, <3>1 DEF PixelInv, StoreInv
    <3>4. QED
      BY <3>2, <3>3
  <2>3. Kept' = filled'
    BY <1>5, <1>6, <1>7
  <2>4. Kept \subseteq Masks /\ IsFiniteSet(Kept) /\ \A x \in Kept : Cost[x] \in Nat
    BY <1>5, PixelConstants, FS_Subset DEF PixelInv, PixelsTyped
  <2>5. Sum(Cost, Kept) = Cost[old] + Sum(Cost, Kept \ {old})
    BY <1>4, <2>4, SumRemove
  <2>6. Sum(Cost, Kept \ {old}) \in Nat /\ Cost[old] \in Nat
    BY <1>4, <2>4, CostsTyped
  <2>7. bytes' = Sum(Cost, Kept') /\ bytes' <= bytes /\ bytes' \in Nat /\ bytes \in Nat
    BY <1>5, <1>6, <1>7, <2>5, <2>6
  <2>8. bytes' <= Budget \/ Len(resident') <= 1
    BY <1>3, <1>6, <2>7, PixelConstants DEF PixelInv, StoreInv
  <2>9. QED
    BY <1>6, <2>1, <2>2, <2>3, <2>7, <2>8 DEF StoreInv
<1>10. PinInv'
  BY <1>2, <1>7 DEF PixelInv, PinInv
<1>11. DrawInv'
  BY <1>7 DEF DrawInv
<1>12. QED
  BY <1>8, <1>9, <1>10, <1>11 DEF PixelInv

\* When nothing more is evicted there is room, beside what is pinned, or
\* nothing else is kept.
LEMMA DrawsKeeps == PixelInv /\ Draws => PixelInv'
<1> SUFFICES ASSUME PixelInv, Draws PROVE PixelInv'
  OBVIOUS
<1>1. /\ job = "room" /\ job' = "drawing" /\ ~MustEvict
      /\ filled' = filled \cup {hand}
      /\ UNCHANGED <<rows, resident, bytes, hand, cancellable, wanted, pinned>>
      /\ RunInline(Height[hand]) \/ RunBegins(Height[hand])
  BY DEF Draws, Runs
<1>2. count' = Height[hand]
  BY <1>1 DEF RunInline, RunBegins
<1>3. /\ hand \in Masks /\ hand \notin filled /\ filled \subseteq Masks
      /\ pinned \ {hand} \subseteq filled /\ pinned \subseteq Masks
      /\ resident \in Seq(Masks)
      /\ Kept = filled
      /\ bytes = Sum(Cost, Kept)
  BY <1>1 DEF PixelInv, PixelsTyped, PinInv, StoreInv, Drawing
<1>4. PixelsTyped'
  BY <1>1, <1>3 DEF PixelInv, PixelsTyped
<1>5. Kept' = Kept
  BY <1>1 DEF Kept
<1>6. Drawing = {} /\ Drawing' = {hand}
  BY <1>1 DEF Drawing
<1>7. StoreInv'
  BY <1>1, <1>3, <1>5, <1>6 DEF PixelInv, StoreInv
<1>8. PinInv'
  BY <1>1, <1>3 DEF PinInv
<1>9. bytes + Cost[hand] <= Budget \/ resident = <<>>
  <2>1. Sum(Cost, Kept) \in Nat /\ Cost[hand] \in Nat /\ Estimate[hand] \in Nat
        /\ Cost[hand] <= Estimate[hand] /\ Budget \in Nat
    BY <1>3, CostsTyped, PixelConstants
  <2>2. CASE ~(bytes + Estimate[hand] > Budget)
    BY <1>3, <2>1, <2>2
  <2>3. CASE \A i \in DOMAIN resident : resident[i] \in pinned
    <3>1. Kept \subseteq pinned
      BY <1>3, <2>3 DEF Kept
    <3>2. CASE pinned \subseteq {hand}
      <4>1. Kept = {}
        BY <1>3, <3>1, <3>2
      <4>2. ~(1 \in 1 .. Len(resident))
        BY <4>1 DEF Kept
      <4>3. QED
        BY <1>3, <4>2
    <3>3. CASE hand \in pinned /\ Sum(Estimate, pinned) <= Budget
      <4>1. pinned = Kept \cup {hand} /\ hand \notin Kept
        BY <1>3, <3>1, <3>3
      <4>2. IsFiniteSet(Kept) /\ \A x \in Kept : Cost[x] \in Nat
        BY <1>3, PixelConstants, CostsTyped
      <4>3. Sum(Cost, Kept \cup {hand}) = Sum(Cost, Kept) + Cost[hand]
        BY <2>1, <4>1, <4>2, SumAdd
      <4>4. /\ Sum(Cost, pinned) <= Sum(Estimate, pinned)
            /\ Sum(Cost, pinned) \in Nat /\ Sum(Estimate, pinned) \in Nat
        BY <1>3, CostsTyped
      <4>5. QED
        BY <1>3, <2>1, <3>3, <4>1, <4>3, <4>4
    <3>4. QED
      BY <1>1, <3>2, <3>3 DEF PixelInv, PinInv
  <2>4. QED
    BY <1>1, <2>2, <2>3 DEF MustEvict
<1>10. DrawInv'
  BY <1>1, <1>2, <1>9 DEF DrawInv
<1>11. QED
  BY <1>4, <1>7, <1>8, <1>10 DEF PixelInv

LEMMA DrawThrowsKeeps == PixelInv /\ DrawThrows => PixelInv'
<1> SUFFICES ASSUME PixelInv, DrawThrows PROVE PixelInv'
  OBVIOUS
<1>1. /\ job = "drawing" /\ job' = "none" /\ wanted' = {} /\ pinned' = {}
      /\ filled' = filled \ {hand}
      /\ UNCHANGED <<rows, resident, bytes>>
  BY DEF DrawThrows, Abandon
<1>2. Drawing = {hand} /\ Drawing' = {} /\ Kept' = Kept
  BY <1>1 DEF Drawing, Kept
<1>3. filled' \ Drawing' = filled \ Drawing
  BY <1>1, <1>2
<1>4. PixelsTyped'
  BY <1>1 DEF PixelInv, PixelsTyped
<1>5. StoreInv'
  BY <1>1, <1>2, <1>3 DEF PixelInv, StoreInv
<1>6. PinInv' /\ DrawInv'
  BY <1>1 DEF PinInv, DrawInv
<1>7. QED
  BY <1>4, <1>5, <1>6 DEF PixelInv

\* All rows are there when the run has returned.
LEMMA DrawEndsKeeps == PixelInv /\ ExactlyOnce /\ DrawEnds => PixelInv'
<1> SUFFICES ASSUME PixelInv, ExactlyOnce, DrawEnds PROVE PixelInv'
  OBVIOUS
<1>1. /\ job = "drawing" /\ outcome = "returned"
      /\ rows' = [rows EXCEPT ![hand] = {i \in AllRows(hand) : work[i] = 1}]
      /\ resident' = Append(resident, hand) /\ bytes' = bytes + Cost[hand]
      /\ UNCHANGED <<filled, hand, cancellable, wanted, pinned>>
      /\ Return
  BY DEF DrawEnds
<1>2. job' \in {"none", "batch"} /\ (job' = "none" => pinned = {})
  BY <1>1 DEF Return
<1>3. /\ hand \in filled /\ hand \in Masks /\ pinned \subseteq filled
      /\ count = Height[hand] /\ filled \subseteq Masks
      /\ resident \in Seq(Masks)
      /\ Kept = filled \ {hand}
      /\ bytes = Sum(Cost, Kept)
      /\ \A j, k \in 1 .. Len(resident) : resident[j] = resident[k] => j = k
      /\ bytes + Cost[hand] <= Budget \/ resident = <<>>
  BY <1>1 DEF PixelInv, PixelsTyped, PinInv, DrawInv, StoreInv, Drawing
<1>4. {i \in AllRows(hand) : work[i] = 1} = AllRows(hand)
  BY <1>1, <1>3 DEF ExactlyOnce, AllRows
<1>5. /\ resident' \in Seq(Masks)
      /\ Len(resident') = Len(resident) + 1
      /\ \A j, k \in 1 .. Len(resident') : resident'[j] = resident'[k] => j = k
      /\ Kept' = Kept \cup {hand}
  BY <1>1, <1>3, Listed DEF Kept
<1>6. Drawing' = {}
  BY <1>2 DEF Drawing
<1>7. PixelsTyped'
  <2>1. rows' = [m \in Masks |-> rows'[m]]
    BY <1>1 DEF PixelInv, PixelsTyped
  <2>2. QED
    BY <1>1, <1>2, <1>5, <2>1 DEF PixelInv, PixelsTyped
<1>8. \A m \in filled : rows'[m] = AllRows(m)
  <2> SUFFICES ASSUME NEW m \in filled PROVE rows'[m] = AllRows(m)
    OBVIOUS
  <2>1. CASE m = hand
    BY <1>1, <1>3, <1>4, <2>1 DEF PixelInv, PixelsTyped
  <2>2. CASE m # hand
    <3>1. rows'[m] = rows[m]
      BY <1>1, <1>3, <2>2 DEF PixelInv, PixelsTyped
    <3>2. rows[m] = AllRows(m)
      BY <1>1, <2>2 DEF PixelInv, StoreInv, Drawing
    <3>3. QED
      BY <3>1, <3>2
  <2>3. QED
    BY <2>1, <2>2
<1>9. bytes' = Sum(Cost, Kept')
  <2>1. /\ IsFiniteSet(Kept) /\ \A x \in Kept : Cost[x] \in Nat
        /\ hand \notin Kept /\ Cost[hand] \in Nat
    BY <1>3, PixelConstants, FS_Subset
  <2>2. Sum(Cost, Kept \cup {hand}) = Sum(Cost, Kept) + Cost[hand]
    BY <2>1, SumAdd
  <2>3. QED
    BY <1>1, <1>3, <1>5, <2>2
<1>10. bytes' <= Budget \/ Len(resident') <= 1
  BY <1>1, <1>3, <1>5
<1>11. StoreInv'
  BY <1>1, <1>3, <1>5, <1>6, <1>8, <1>9, <1>10 DEF StoreInv
<1>12. PinInv' /\ DrawInv'
  BY <1>1, <1>2, <1>3 DEF PinInv, DrawInv
<1>13. QED
  BY <1>7, <1>11, <1>12 DEF PixelInv

\* What a batch does otherwise changes only what is wanted and pinned.
LEMMA PixelBatchKeeps ==
  PixelInv /\ (BatchBegins \/ BatchFull \/ Checks \/ BatchChecked) => PixelInv'
<1> SUFFICES ASSUME PixelInv, BatchBegins \/ BatchFull \/ Checks \/ BatchChecked
             PROVE  PixelInv'
  OBVIOUS
<1>1. /\ UNCHANGED store
      /\ job \in {"none", "batch", "check", "checking"}
      /\ job' \in {"none", "batch", "check", "checking"}
      /\ pinned' \in {{}, pinned} /\ (job' = "none" => pinned' = {})
      /\ wanted' \subseteq Masks
  BY DEF BatchBegins, BatchFull, Checks, Runs, BatchChecked, Abandon, store,
         PixelInv, PixelsTyped
<1>2. pinned \subseteq filled
  BY <1>1 DEF PixelInv, PinInv
<1>3. PixelsTyped'
  BY <1>1 DEF PixelInv, PixelsTyped, store
<1>4. StoreInv'
  BY <1>1, StoreStays DEF PixelInv, Drawing
<1>5. PinInv' /\ DrawInv'
  BY <1>1, <1>2 DEF PinInv, DrawInv, store
<1>6. QED
  BY <1>3, <1>4, <1>5 DEF PixelInv

\* The steps of the loop change nothing that is stored.
LEMMA LoopStepsKeep ==
  PixelInv /\ (LoopSteps \/ UNCHANGED <<vars, pixelVars>>) => PixelInv'
<1> SUFFICES ASSUME PixelInv, LoopSteps \/ UNCHANGED <<vars, pixelVars>>
             PROVE  PixelInv'
  OBVIOUS
<1>1. UNCHANGED pixelVars
  BY DEF LoopSteps
<1>2. count' = count
  BY DEF LoopSteps, SpawnFails, CallerWakes, Caller, Constructed, RunNotifies,
         RunExecutes, RunWaits, RunEnds, StopNotifies, Joined, Stop, Spawn,
         Helper, HelperWaits, HelperBegins, HelperExecutes, HelperFinishes,
         HelperEnds, HelperWakes, taskVars, vars
<1>3. QED
  BY <1>1, <1>2 DEF PixelInv, PixelsTyped, StoreInv, PinInv, DrawInv, Kept,
                    Drawing, pixelVars, store, call

LEMMA StepPixelInv ==
  PixelInv /\ ExactlyOnce /\ [PixelNext]_<<vars, pixelVars>> => PixelInv'
<1> SUFFICES ASSUME PixelInv, ExactlyOnce, [PixelNext]_<<vars, pixelVars>>
             PROVE  PixelInv'
  OBVIOUS
<1>1. CASE EnsureOne
  <2>1. PICK m \in Masks, throws \in BOOLEAN : Ensure(m, throws, {}, {})
    BY <1>1 DEF EnsureOne
  <2>2. job = "none" /\ pinned = {}
    BY <1>1 DEF EnsureOne, PixelInv, PinInv
  <2>3. QED
    BY <2>1, <2>2, EnsureKeeps
<1>2. CASE BatchPins
  <2>1. PICK m \in wanted, throws \in BOOLEAN :
          /\ ~TooMany(m)
          /\ Ensure(m, throws, wanted \ {m}, pinned \cup {m})
    BY <1>2, Zenon DEF BatchPins
  <2>2. job = "batch" /\ wanted \subseteq Masks
    BY <1>2 DEF BatchPins, PixelInv, PixelsTyped
  <2>3. m \in Masks /\ wanted \ {m} \in SUBSET Masks
    BY <2>1, <2>2
  <2> DEFINE others == wanted \ {m}
             pins == pinned \cup {m}
  <2>4. /\ m \in Masks /\ others \in SUBSET Masks /\ job \in {"none", "batch"}
        /\ pins = pinned \cup {m} /\ ~TooMany(m)
        /\ Ensure(m, throws, others, pins)
    BY <2>1, <2>2, <2>3
  <2> HIDE DEF others, pins
  <2>5. QED
    BY <2>4, EnsureKeeps
<1>3. CASE BatchBegins \/ BatchFull \/ Checks \/ BatchChecked
  BY <1>3, PixelBatchKeeps
<1>4. CASE LoopSteps \/ UNCHANGED <<vars, pixelVars>>
  BY <1>4, LoopStepsKeep
<1>5. CASE Evicts \/ Draws \/ DrawThrows \/ DrawEnds
  BY <1>5, EvictsKeeps, DrawsKeeps, DrawThrowsKeeps, DrawEndsKeeps
<1>6. QED
  BY <1>1, <1>2, <1>3, <1>4, <1>5 DEF PixelNext

LEMMA PixelInvWhole == PixelInv => PixelsWhole
<1> SUFFICES ASSUME PixelInv PROVE PixelsWhole
  OBVIOUS
<1>1. Cardinality(Kept) = Len(resident)
  <2>1. resident \in Seq(Masks) /\ Len(resident) \in Nat
        /\ \A j, k \in 1 .. Len(resident) : resident[j] = resident[k] => j = k
    BY DEF PixelInv, PixelsTyped, StoreInv
  <2> DEFINE I == 1 .. Len(resident)
             f == [i \in I |-> resident[i]]
  <2>2. f \in Bijection(I, Kept)
    BY <2>1 DEF Kept, Bijection, Injection, Surjection, IsInjective
  <2>3. IsFiniteSet(I) /\ Cardinality(I) = Len(resident)
    <3>1. 1 \in Int /\ Len(resident) \in Int
      BY <2>1
    <3>2. /\ IsFiniteSet(I)
          /\ Cardinality(I) = IF 1 > Len(resident) THEN 0 ELSE Len(resident) - 1 + 1
      BY <3>1, FS_Interval, Zenon
    <3> HIDE DEF I
    <3>3. QED
      BY <2>1, <3>2
  <2> HIDE DEF I, f
  <2>4. QED
    BY <2>2, <2>3, FS_Bijection DEF ExistsBijection
<1>2. QED
  BY <1>1 DEF PixelInv, StoreInv, PinInv, PixelsWhole, Kept, Drawing

LEMMA PixelInvAlways ==
  PixelSpec => [](PixelInv /\ IInv /\ WorkInv /\ ExactlyOnce)
<1>1. PixelInit => PixelInv /\ IInv /\ WorkInv /\ ExactlyOnce
  BY InitPixelInv, InitIInv DEF PixelInit, Init, WorkInv, ExactlyOnce, InRun
<1>2. PixelInv /\ [PixelNext]_<<vars, pixelVars>> => [Next]_vars
  BY PixelStepLoops DEF PixelInv
<1>3. /\ PixelInv /\ IInv /\ WorkInv /\ ExactlyOnce
      /\ [PixelNext]_<<vars, pixelVars>>
      => (PixelInv /\ IInv /\ WorkInv /\ ExactlyOnce)'
  BY <1>2, StepPixelInv, StepIInv, WorkStep, OnceStep
<1>4. QED
  BY <1>1, <1>3, PTL DEF PixelSpec

\* The pixels use the loop as ParallelLoop describes it, so that all that is
\* proved of the loop holds while pixels are drawn and checked.
THEOREM PixelsImplement == PixelSpec => Spec
<1>1. PixelInit => Init
  BY DEF PixelInit
<1>2. PixelInv /\ [PixelNext]_<<vars, pixelVars>> => [Next]_vars
  BY PixelStepLoops DEF PixelInv
<1>3. QED
  BY <1>1, <1>2, PixelInvAlways, PTL DEF PixelSpec, Spec

\* For any masks, sizes, budget and slots, and wherever the deadline strikes:
\* kept pixels are complete, a check has all of its masks, and the budget
\* accounts for what is kept.
THEOREM PixelsWholeAlways == PixelSpec => []PixelsWhole
<1>1. PixelInv => PixelsWhole
  BY PixelInvWhole
<1>2. QED
  BY <1>1, PixelInvAlways, PTL

-----------------------------------------------------------------------------
(* The arithmetic of bitmaps.  First, the words of a row and the           *)
(* bits of a pixel, and what is moved over the words of a sheet.           *)

\* A row of pixels, as words.
WordRows(width) == [0 .. WordCount(width) - 1 -> SUBSET Bits]

LEMMA WordFacts ==
  WordBits \in Nat \ {0} /\ Widest \in Nat /\ Grid \in Nat /\ Bits \subseteq Nat
BY RowAssumption DEF RowAssumption, Bits

\* A pixel is given by its word and its bit.
LEMMA PixelBack ==
  ASSUME NEW i \in Nat, NEW b \in Bits
  PROVE  /\ i * WordBits + b \in Nat
         /\ (i * WordBits + b) \div WordBits = i /\ (i * WordBits + b) % WordBits = b
BY WordFacts, DivisionBack DEF Bits

LEMMA PixelOn ==
  ASSUME NEW p \in Nat
  PROVE  /\ p \div WordBits \in Nat /\ p % WordBits \in Bits
         /\ (p \div WordBits) * WordBits + (p % WordBits) = p
<1> DEFINE w == WordBits
           q == p \div w
           u == p % w
<1>1. w \in Nat \ {0}
  BY WordFacts
<1> HIDE DEF w
<1>2. q \in Nat /\ u \in 0 .. w - 1 /\ p = w * q + u
  BY <1>1
<1> HIDE DEF q, u
<1>3. q * w = w * q
  BY <1>1, <1>2
<1>4. q * w + u = p
  BY <1>1, <1>2, <1>3
<1> QED
  <2>1. p \div WordBits = q /\ p % WordBits = u /\ WordBits = w /\ Bits = 0 .. w - 1
    BY DEF q, u, w, Bits
  <2> HIDE DEF w
  <2> QED
    BY <1>2, <1>4, <2>1

\* The words before the last pixel of a row are words of the row.
LEMMA WordCountIs ==
  ASSUME NEW n \in Nat
  PROVE  /\ WordCount(n) \in Nat
         /\ \A i \in Nat : i < WordCount(n) <=> i * WordBits < n
         /\ \A p \in Nat : p < n => p \div WordBits < WordCount(n)
<1> DEFINE w == WordBits
           k == (n + w - 1) \div w
<1>1. w \in Nat \ {0} /\ n + w - 1 \in Nat
  BY WordFacts
<1>2. WordCount(n) = k
  BY DEF WordCount
<1>3. k \in Nat
  BY <1>1, Quotient
<1>4. ASSUME NEW i \in Nat
      PROVE  i < k <=> i * w < n
  <2>1. i + 1 <= k <=> w * (i + 1) <= n + w - 1
    BY <1>1, QuotientAtLeast
  <2> HIDE DEF k, w
  <2>2. w * (i + 1) = i * w + w /\ i * w \in Nat
    BY <1>1
  <2>3. w * (i + 1) <= n + w - 1 <=> i * w < n
    BY <1>1, <2>2
  <2>4. i < k <=> i + 1 <= k
    BY <1>3
  <2> QED
    BY <2>1, <2>3, <2>4
<1>5. ASSUME NEW p \in Nat, p < n
      PROVE  p \div w < k
  <2> DEFINE q == p \div w
             u == p % w
  <2>1. q \in Nat /\ u \in Nat /\ q * w + u = p
    <3>1. w = WordBits /\ q = p \div WordBits /\ u = p % WordBits
      OBVIOUS
    <3> HIDE DEF q, u, w
    <3> QED
      BY <3>1, PixelOn DEF Bits
  <2> HIDE DEF q, u, k, w
  <2>2. q * w < n
    BY <1>1, <1>5, <2>1
  <2> QED
    BY <1>4, <2>1, <2>2 DEF q
<1> QED
  BY <1>2, <1>3, <1>4, <1>5

\* What the words of a row stand for.
LEMMA UnpackedIs ==
  ASSUME NEW r, DOMAIN r \subseteq Nat, \A i \in DOMAIN r : r[i] \subseteq Bits
  PROVE  /\ Unpacked(r) \subseteq Nat
         /\ \A p \in Nat : p \in Unpacked(r) <=>
              p \div WordBits \in DOMAIN r /\ p % WordBits \in r[p \div WordBits]
<1>1. ASSUME NEW p \in Unpacked(r)
      PROVE  /\ p \in Nat /\ p \div WordBits \in DOMAIN r
             /\ p % WordBits \in r[p \div WordBits]
  <2>1. PICK i \in DOMAIN r : p \in {i * WordBits + b : b \in r[i]}
    BY DEF Unpacked
  <2>2. PICK b \in r[i] : p = i * WordBits + b
    BY <2>1
  <2>3. i \in Nat /\ b \in Bits
    OBVIOUS
  <2> QED
    BY <2>2, <2>3, PixelBack
<1>2. ASSUME NEW p \in Nat, p \div WordBits \in DOMAIN r,
             p % WordBits \in r[p \div WordBits]
      PROVE  p \in Unpacked(r)
  <2>1. p = (p \div WordBits) * WordBits + (p % WordBits)
    BY PixelOn
  <2> QED
    <3>1. p \in {(p \div WordBits) * WordBits + b : b \in r[p \div WordBits]}
      BY <1>2, <2>1
    <3> QED
      BY <1>2, <3>1 DEF Unpacked
<1> QED
  BY <1>1, <1>2

LEMMA PackedIs ==
  ASSUME NEW width \in Nat, NEW S \in SUBSET (0 .. width - 1)
  PROVE  /\ Packed(S, width) \in WordRows(width)
         /\ \A i \in 0 .. WordCount(width) - 1, b \in Bits :
              b \in Packed(S, width)[i] <=> i * WordBits + b \in S
BY WordCountIs DEF Packed, WordRows

\* A bit of a word, as a pixel of the row.
LEMMA PackedBit ==
  ASSUME NEW width \in Nat, NEW S \in SUBSET (0 .. width - 1),
         NEW i \in Nat, NEW b \in Bits
  PROVE  (i \in 0 .. WordCount(width) - 1 /\ b \in Packed(S, width)[i])
           <=> i * WordBits + b \in S
<1>1. /\ i * WordBits + b \in Nat /\ (i * WordBits + b) \div WordBits = i
  BY PixelBack
<1>2. WordCount(width) \in Nat
  BY WordCountIs
<1>3. i * WordBits + b \in S => i \in 0 .. WordCount(width) - 1
  <2> DEFINE p == i * WordBits + b
  <2>1. \A a \in S : a < width
    OBVIOUS
  <2>2. p \in Nat /\ p \div WordBits = i
    BY <1>1
  <2> HIDE DEF p
  <2>3. p \in S => i < WordCount(width)
    BY <2>1, <2>2, WordCountIs
  <2>4. p \in S => i \in 0 .. WordCount(width) - 1
    BY <1>2, <2>3
  <2> QED
    BY <2>4 DEF p
<1>4. i \in 0 .. WordCount(width) - 1 =>
        (b \in Packed(S, width)[i] <=> i * WordBits + b \in S)
  BY PackedIs
<1> QED
  BY <1>3, <1>4

\* Bits that are shifted.
LEMMA UpIs ==
  ASSUME NEW word \in SUBSET Bits, NEW s \in Nat, NEW b \in Bits
  PROVE  b \in Up(word, s) <=> s <= b /\ b - s \in word
<1>1. \A a \in word : a \in Nat
  BY WordFacts
<1>2. b \in Nat
  BY WordFacts
<1> QED
  BY <1>1, <1>2 DEF Up

LEMMA DownIs ==
  ASSUME NEW word \in SUBSET Bits, NEW s \in Nat, NEW b \in Bits
  PROVE  b \in Down(word, s) <=> b + s \in word
<1>1. \A a \in word : a \in Nat
  BY WordFacts
<1>2. b \in Nat
  BY WordFacts
<1> QED
  BY <1>1, <1>2 DEF Down

\* A word of a mask that is moved within the words.
LEMMA ShiftedIs ==
  ASSUME NEW width \in Nat, NEW S \in SUBSET (0 .. width - 1),
         NEW s \in Nat, 0 < s, s < WordBits, NEW i \in Nat
  PROVE  /\ ShiftedWord(Packed(S, width), i, s) \subseteq Bits
         /\ \A b \in Bits :
              b \in ShiftedWord(Packed(S, width), i, s) <=> i * WordBits + b - s \in S
<1> DEFINE mask == Packed(S, width)
           n == WordCount(width)
           w == WordBits
<1>1. w \in Nat \ {0} /\ Bits = 0 .. w - 1
  BY WordFacts DEF Bits
<1>2. /\ DOMAIN mask = 0 .. n - 1 /\ n \in Nat
      /\ \A j \in 0 .. n - 1 : mask[j] \in SUBSET Bits
  <2>1. mask \in [0 .. n - 1 -> SUBSET Bits]
    BY PackedIs DEF WordRows
  <2>2. n \in Nat
    BY WordCountIs
  <2> HIDE DEF mask, n
  <2> QED
    BY <2>1, <2>2
<1>3. \A j \in Nat, a \in Bits : (j \in 0 .. n - 1 /\ a \in mask[j]) <=> j * w + a \in S
  BY PackedBit
<1> HIDE DEF mask, n, w
<1>4. ShiftedWord(mask, i, s) \subseteq Bits
  BY DEF ShiftedWord, Up, Down
<1>5. ASSUME NEW b \in Bits
      PROVE  b \in ShiftedWord(mask, i, s) <=> i * w + b - s \in S
  <2>1. b \in Nat /\ b < w /\ w - s \in Nat /\ i * w \in Nat /\ s < w
    BY <1>1 DEF w
  <2>2. i \in 0 .. n - 1 => (b \in Up(mask[i], s) <=> s <= b /\ b - s \in mask[i])
    BY <1>2, UpIs
  <2>3. i - 1 \in 0 .. n - 1 =>
          (b \in Down(mask[i - 1], w - s) <=> b + (w - s) \in mask[i - 1])
    BY <1>2, <2>1, DownIs
  <2>4. b \in ShiftedWord(mask, i, s)
          <=> \/ i \in 0 .. n - 1 /\ b \in Up(mask[i], s)
              \/ i - 1 \in 0 .. n - 1 /\ b \in Down(mask[i - 1], w - s)
    BY <1>2 DEF ShiftedWord, w
  <2>5. CASE s <= b
    <3>1. b - s \in Bits /\ i * w + (b - s) = i * w + b - s
      BY <1>1, <2>1, <2>5
    <3>2. (i \in 0 .. n - 1 /\ b - s \in mask[i]) <=> i * w + b - s \in S
      BY <1>3, <3>1
    <3>3. b + (w - s) \notin Bits
      BY <1>1, <2>1, <2>5
    <3>4. i - 1 \in 0 .. n - 1 => b + (w - s) \notin mask[i - 1]
      BY <1>2, <3>3
    <3> QED
      BY <2>2, <2>3, <2>4, <2>5, <3>2, <3>4
  <2>6. CASE ~(s <= b)
    <3>1. b + (w - s) \in Bits
      BY <1>1, <2>1, <2>6
    <3>2. CASE i = 0
      <4>1. i * w + b - s < 0
        <5>1. i * w = 0
          BY <1>1, <3>2
        <5> QED
          BY <2>1, <2>6, <5>1
      <4>2. \A p \in S : p >= 0
        OBVIOUS
      <4>3. i * w + b - s \notin S
        BY <2>1, <4>1, <4>2
      <4> QED
        BY <2>2, <2>4, <2>6, <3>2, <4>3
    <3>3. CASE i # 0
      <4>1. i - 1 \in Nat /\ (i - 1) * w = i * w - w
        BY <1>1, <3>3
      <4>2. (i - 1) * w + (b + (w - s)) = i * w + b - s
        BY <1>1, <2>1, <4>1
      <4>3. (i - 1 \in 0 .. n - 1 /\ b + (w - s) \in mask[i - 1]) <=> i * w + b - s \in S
        BY <1>3, <3>1, <4>1, <4>2
      <4> QED
        BY <2>2, <2>3, <2>4, <2>6, <4>3
    <3> QED
      BY <3>2, <3>3
  <2> QED
    BY <2>1, <2>5, <2>6
<1> QED
  BY <1>4, <1>5 DEF mask, w

\* The kernels cover the words that the CPU covers.
LEMMA SameRow ==
  ASSUME NEW width \in Nat, NEW S \in SUBSET (0 .. width - 1), NEW x \in Nat
  PROVE  GpuRow(Packed(S, width), width, x) = CpuRow(Packed(S, width), width, x)
<1> DEFINE mask == Packed(S, width)
<1>1. mask = [i \in 0 .. WordCount(width) - 1 |-> mask[i]]
  BY DEF Packed
<1>2. CASE x % WordBits = 0
  <2>1. Needed(width, x) = WordCount(width)
    BY <1>2 DEF Needed
  <2> HIDE DEF mask
  <2>2. GpuRow(mask, width, x) = [i \in 0 .. WordCount(width) - 1 |-> mask[i]]
    BY <1>1, <1>2, <2>1 DEF GpuRow
  <2>3. CpuRow(mask, width, x) = mask
    BY <1>2 DEF CpuRow
  <2> QED
    BY <1>1, <2>2, <2>3 DEF mask
<1>3. CASE x % WordBits # 0
  BY <1>3 DEF GpuRow, CpuRow
<1> QED
  BY <1>2, <1>3

\* What the mask covers of a word.
LEMMA CoveredIs ==
  ASSUME NEW width \in Nat, NEW S \in SUBSET (0 .. width - 1), NEW x \in Nat
  PROVE  LET c == CpuRow(Packed(S, width), width, x)
         IN /\ Needed(width, x) \in Nat
            /\ DOMAIN c = 0 .. Needed(width, x) - 1
            /\ \A i \in DOMAIN c : /\ c[i] \subseteq Bits
                                   /\ \A b \in Bits : b \in c[i] <=>
                                        i * WordBits + b - (x % WordBits) \in S
<1> DEFINE mask == Packed(S, width)
           c == CpuRow(mask, width, x)
           s == x % WordBits
<1>1. s \in Nat /\ s < WordBits /\ WordBits \in Nat \ {0}
  BY WordFacts
<1>2. Needed(width, x) \in Nat
  BY <1>1, WordCountIs DEF Needed
<1>3. CASE s = 0
  <2>1. c = mask /\ Needed(width, x) = WordCount(width)
    BY <1>3 DEF CpuRow, Needed
  <2>2. /\ mask \in WordRows(width)
        /\ \A i \in 0 .. WordCount(width) - 1, b \in Bits :
             b \in mask[i] <=> i * WordBits + b \in S
    BY PackedIs
  <2>3. \A i \in Nat, b \in Bits : i * WordBits + b - s = i * WordBits + b
    <3> TAKE i \in Nat, b \in Bits
    <3>1. b - s = b
      BY <1>3, WordFacts
    <3> QED
      BY <3>1
  <2>4. \A i \in 0 .. WordCount(width) - 1 : i \in Nat
    OBVIOUS
  <2> HIDE DEF mask, c, s
  <2> QED
    BY <1>2, <2>1, <2>2, <2>3, <2>4 DEF c, mask, s, WordRows
<1>4. CASE s # 0
  <2>1. c = [i \in 0 .. Needed(width, x) - 1 |-> ShiftedWord(mask, i, s)]
    BY <1>4 DEF CpuRow
  <2>2. \A i \in 0 .. Needed(width, x) - 1 :
          /\ ShiftedWord(mask, i, s) \subseteq Bits
          /\ \A b \in Bits : b \in ShiftedWord(mask, i, s) <=> i * WordBits + b - s \in S
    <3> HIDE DEF s
    <3>1. s \in Nat /\ 0 < s /\ s < WordBits
      BY <1>1, <1>4
    <3>2. ASSUME NEW i \in Nat
          PROVE  /\ ShiftedWord(mask, i, s) \subseteq Bits
                 /\ \A b \in Bits : b \in ShiftedWord(mask, i, s) <=> i * WordBits + b - s \in S
      BY <3>1, ShiftedIs
    <3>3. \A i \in 0 .. Needed(width, x) - 1 : i \in Nat
      OBVIOUS
    <3> QED
      BY <3>2, <3>3, Zenon
  <2> HIDE DEF mask, c, s
  <2> QED
    BY <1>2, <2>1, <2>2 DEF c, mask, s
<1> QED
  BY <1>3, <1>4

\* A mask at a position.
Moved(S, x) == {x + p : p \in S}

\* A position is a word and a bit.
LEMMA PositionParts ==
  ASSUME NEW x \in Nat
  PROVE  /\ x \div WordBits \in Nat /\ x % WordBits \in Nat /\ x % WordBits < WordBits
         /\ x = (x \div WordBits) * WordBits + (x % WordBits)
         /\ (x \div WordBits) * WordBits \in Nat
<1>1. x \div WordBits \in Nat /\ x % WordBits \in Bits
  BY PixelOn
<1>2. (x \div WordBits) * WordBits + (x % WordBits) = x
  BY PixelOn
<1> DEFINE q == x \div WordBits
           s == x % WordBits
<1>3. WordBits \in Nat \ {0} /\ q \in Nat /\ s \in 0 .. WordBits - 1
  BY <1>1, WordFacts DEF Bits
<1>4. q * WordBits \in Nat
  BY <1>3
<1> HIDE DEF q, s
<1>5. s \in Nat /\ s < WordBits
  BY <1>3
<1> QED
  BY <1>1, <1>2, <1>4, <1>5 DEF q, s

\* The words under a mask have its pixels.
LEMMA CoveredBit ==
  ASSUME NEW width \in Nat, NEW S \in SUBSET (0 .. width - 1), NEW x \in Nat,
         NEW i \in Nat, NEW b \in Bits
  PROVE  LET c == CpuRow(Packed(S, width), width, x)
         IN (i \in DOMAIN c /\ b \in c[i])
              <=> ((x \div WordBits) + i) * WordBits + b \in Moved(S, x)
<1> DEFINE c == CpuRow(Packed(S, width), width, x)
           q == x \div WordBits
           s == x % WordBits
           w == WordBits
           p == i * w + (b - s)
<1>1. /\ q \in Nat /\ s \in Nat /\ s < w /\ x = q * w + s /\ q * w \in Nat
      /\ w \in Nat \ {0} /\ b \in Nat /\ b < w
  BY PositionParts, WordFacts DEF Bits
<1>2. /\ Needed(width, x) \in Nat /\ DOMAIN c = 0 .. Needed(width, x) - 1
      /\ i \in DOMAIN c => (b \in c[i] <=> p \in S)
  BY CoveredIs
<1>3. Needed(width, x) = WordCount(width + s)
  BY DEF Needed
<1>4. width + s \in Nat
  BY <1>1
<1>5. i < WordCount(width + s) <=> i * w < width + s
  <2> HIDE DEF s
  <2> QED
    BY <1>4, WordCountIs
<1> HIDE DEF c, q, s, w
<1>6. i * w \in Nat /\ (q + i) * w = q * w + i * w
  BY <1>1
<1>7. p \in S => i \in DOMAIN c
  <2>1. p \in S => p <= width - 1
    <3>1. \A a \in S : a <= width - 1
      OBVIOUS
    <3> QED
      BY <3>1
  <2>2. p \in S => i * w < width + s
    BY <1>1, <1>6, <2>1
  <2> QED
    BY <1>2, <1>3, <1>4, <1>5, <2>2
<1>8. p \in S <=> (q + i) * w + b \in Moved(S, x)
  <2>1. (q + i) * w + b = x + p
    BY <1>1, <1>6
  <2> HIDE DEF p
  <2>2. \A a \in S : a \in Nat
    OBVIOUS
  <2>3. p \in Int
    BY <1>1, <1>6 DEF p
  <2>4. \A a \in S : x + a = x + p => a = p
    BY <2>2, <2>3
  <2> QED
    BY <2>1, <2>4 DEF Moved
<1> QED
  BY <1>2, <1>7, <1>8 DEF c, q, w

LEMMA UnderBit ==
  ASSUME NEW width \in Nat, NEW S \in SUBSET (0 .. width - 1), NEW x \in Nat,
         NEW j \in Nat, NEW b \in Bits
  PROVE  b \in Under(CpuRow(Packed(S, width), width, x), x, j)
           <=> j * WordBits + b \in Moved(S, x)
<1> DEFINE c == CpuRow(Packed(S, width), width, x)
           q == x \div WordBits
           s == x % WordBits
           w == WordBits
<1>1. /\ q \in Nat /\ s \in Nat /\ s < w /\ x = q * w + s /\ q * w \in Nat
      /\ w \in Nat \ {0} /\ b \in Nat /\ b < w
  BY PositionParts, WordFacts DEF Bits
<1>2. DOMAIN c \subseteq Nat
  <2>1. Needed(width, x) \in Nat /\ DOMAIN c = 0 .. Needed(width, x) - 1
    BY CoveredIs
  <2> HIDE DEF c
  <2> QED
    BY <2>1
<1>3. ASSUME NEW i \in Nat
      PROVE  (i \in DOMAIN c /\ b \in c[i]) <=> (q + i) * w + b \in Moved(S, x)
  BY CoveredBit
<1> HIDE DEF c, q, s, w
<1>4. b \in Under(c, x, j) <=> j - q \in DOMAIN c /\ b \in c[j - q]
  BY DEF Under, q
<1>5. CASE q <= j
  <2>1. j - q \in Nat /\ q + (j - q) = j
    BY <1>1, <1>5
  <2> QED
    BY <1>3, <1>4, <2>1 DEF c, w
<1>6. CASE ~(q <= j)
  <2>1. j - q \notin DOMAIN c
    BY <1>1, <1>2, <1>6
  <2>2. (j + 1) * w <= q * w /\ (j + 1) * w = j * w + w /\ j * w \in Nat
    BY <1>1, <1>6
  <2>3. j * w + b < x
    BY <1>1, <2>2
  <2>4. \A p \in Moved(S, x) : p >= x
    BY DEF Moved
  <2>5. j * w + b \notin Moved(S, x)
    BY <1>1, <2>2, <2>3, <2>4
  <2> QED
    BY <1>4, <2>1, <2>5 DEF c, w
<1> QED
  BY <1>1, <1>5, <1>6

\* A mask that is within the sheet is within its words.
LEMMA WordsWithin ==
  ASSUME NEW width \in Nat, NEW x \in Nat, NEW sheet \in Nat, x + width <= sheet
  PROVE  (x \div WordBits) + Needed(width, x) <= WordCount(sheet)
<1> DEFINE q == x \div WordBits
           s == x % WordBits
           w == WordBits
           k == WordCount(sheet)
           n == Needed(width, x)
<1>1. /\ q \in Nat /\ s \in Nat /\ s < w /\ x = q * w + s /\ q * w \in Nat
      /\ w \in Nat \ {0}
  BY PositionParts, WordFacts
<1>2. n = WordCount(width + s)
  BY DEF Needed
<1> HIDE DEF q, s, n
<1>3. n \in Nat /\ \A i \in Nat : i < n => i * w < width + s
  BY <1>1, <1>2, WordCountIs
<1>4. k \in Nat /\ \A i \in Nat : i < k <=> i * w < sheet
  BY WordCountIs
<1> HIDE DEF k, w
<1>5. CASE n = 0
  <2>1. ~(k < q)
    <3>1. k < q => (k + 1) * w <= q * w
      BY <1>1, <1>4
    <3>2. (k + 1) * w = k * w + w /\ k * w \in Nat
      BY <1>1, <1>4
    <3>3. ~(k * w < sheet)
      BY <1>4
    <3> QED
      BY <1>1, <3>1, <3>2, <3>3
  <2> QED
    BY <1>1, <1>4, <1>5, <2>1 DEF k, n, q
<1>6. CASE n # 0
  <2> DEFINE i == n - 1
  <2>1. i \in Nat /\ i < n /\ n = i + 1
    BY <1>3, <1>6
  <2> HIDE DEF i
  <2>2. i * w < width + s /\ i * w \in Nat
    BY <1>1, <1>3, <2>1
  <2>3. (q + i) * w = q * w + i * w
    BY <1>1, <2>1
  <2>4. (q + i) * w < sheet
    BY <1>1, <2>2, <2>3
  <2>5. q + i < k
    BY <1>1, <1>4, <2>1, <2>4
  <2>6. q + n <= k
    BY <1>1, <1>4, <2>1, <2>5
  <2> QED
    BY <2>6 DEF k, n, q
<1> QED
  BY <1>5, <1>6

\* Collisions of words are collisions of pixels.
LEMMA CollidesIs ==
  ASSUME NEW width \in Nat, NEW S \in SUBSET (0 .. width - 1), NEW x \in Nat,
         NEW sheet \in Nat, x + width <= sheet,
         NEW O \in SUBSET (0 .. sheet - 1), NEW M \in SUBSET (0 .. sheet - 1)
  PROVE  ~Collides(Packed(O, sheet), Packed(M, sheet), CpuRow(Packed(S, width), width, x), x)
           <=> Moved(S, x) \cap O = {} /\ Moved(S, x) \subseteq M
<1> DEFINE c == CpuRow(Packed(S, width), width, x)
           q == x \div WordBits
           w == WordBits
           k == WordCount(sheet)
           PO == Packed(O, sheet)
           PM == Packed(M, sheet)
           P == Moved(S, x)
<1>1. q \in Nat /\ w \in Nat \ {0} /\ k \in Nat /\ q + Needed(width, x) <= k
  BY PositionParts, WordFacts, WordsWithin, WordCountIs
<1>2. /\ Needed(width, x) \in Nat /\ DOMAIN c = 0 .. Needed(width, x) - 1
      /\ \A i \in DOMAIN c : c[i] \subseteq Bits
  BY CoveredIs
<1>3. \A i \in DOMAIN c : i \in Nat /\ q + i \in 0 .. k - 1
  <2> HIDE DEF c, q, k
  <2> QED
    BY <1>1, <1>2
<1>4. ASSUME NEW i \in DOMAIN c, NEW b \in c[i]
      PROVE  /\ b \in Bits /\ q + i \in Nat
             /\ (q + i) * w + b \in P
             /\ b \in PO[q + i] <=> (q + i) * w + b \in O
             /\ b \in PM[q + i] <=> (q + i) * w + b \in M
  <2>1. b \in Bits /\ i \in Nat /\ q + i \in Nat /\ q + i \in 0 .. k - 1
    BY <1>1, <1>2, <1>3
  <2>2. (q + i) * w + b \in P
    BY <2>1, CoveredBit
  <2> DEFINE j == q + i
  <2> HIDE DEF j
  <2>3. j \in Nat /\ j \in 0 .. k - 1
    BY <2>1 DEF j
  <2>4. b \in PO[j] <=> j * w + b \in O
    BY <2>1, <2>3, PackedBit
  <2>5. b \in PM[j] <=> j * w + b \in M
    BY <2>1, <2>3, PackedBit
  <2> QED
    BY <2>1, <2>2, <2>4, <2>5 DEF j
<1>5. ASSUME NEW p \in P
      PROVE  \E i \in DOMAIN c : \E b \in c[i] : p = (q + i) * w + b
  <2>1. p \in Nat
    BY DEF Moved
  <2> DEFINE j == p \div WordBits
             b == p % WordBits
  <2>2. j \in Nat /\ b \in Bits /\ j * w + b = p
    BY <2>1, PixelOn
  <2> HIDE DEF j, b
  <2>3. b \in Under(c, x, j)
    BY <2>2, UnderBit
  <2> HIDE DEF c
  <2>4. j - q \in DOMAIN c /\ b \in c[j - q]
    BY <2>3 DEF Under, q
  <2>5. q + (j - q) = j
    BY <1>1, <2>2
  <2> QED
    BY <2>2, <2>4, <2>5
<1>6. Collides(PO, PM, c, x) <=>
        \E i \in DOMAIN c : \E b \in c[i] : b \in PO[q + i] \/ b \notin PM[q + i]
  <2> HIDE DEF c, PO, PM
  <2> QED
    BY DEF Collides, q
<1> HIDE DEF c, q, w, PO, PM, P, k
<1>7. ASSUME Collides(PO, PM, c, x)
      PROVE  ~(P \cap O = {} /\ P \subseteq M)
  <2>1. PICK i \in DOMAIN c : \E b \in c[i] : b \in PO[q + i] \/ b \notin PM[q + i]
    BY <1>6, <1>7
  <2>2. PICK b \in c[i] : b \in PO[q + i] \/ b \notin PM[q + i]
    BY <2>1
  <2> DEFINE p == (q + i) * w + b
  <2>3. p \in P /\ (b \in PO[q + i] <=> p \in O) /\ (b \in PM[q + i] <=> p \in M)
    BY <1>4
  <2> HIDE DEF p
  <2> QED
    BY <2>2, <2>3
<1>8. ASSUME ~Collides(PO, PM, c, x), NEW p \in P
      PROVE  p \notin O /\ p \in M
  <2>1. PICK i \in DOMAIN c : \E b \in c[i] : p = (q + i) * w + b
    BY <1>5
  <2>2. PICK b \in c[i] : p = (q + i) * w + b
    BY <2>1
  <2>3. b \notin PO[q + i] /\ b \in PM[q + i]
    BY <1>6, <1>8
  <2>4. (b \in PO[q + i] <=> p \in O) /\ (b \in PM[q + i] <=> p \in M)
    BY <1>4, <2>2
  <2> QED
    BY <2>3, <2>4
<1> QED
  BY <1>7, <1>8 DEF c, PO, PM, P

\* Commits and toggles of words are those of pixels.
LEMMA ChangedWords ==
  ASSUME NEW width \in Nat, NEW S \in SUBSET (0 .. width - 1), NEW x \in Nat,
         NEW sheet \in Nat, x + width <= sheet,
         NEW O \in SUBSET (0 .. sheet - 1)
  PROVE  LET c == CpuRow(Packed(S, width), width, x)
         IN /\ Unpacked(CommittedRow(Packed(O, sheet), c, x)) = O \cup Moved(S, x)
            /\ Unpacked(ToggledRow(Packed(O, sheet), c, x)) = SymDiff(O, Moved(S, x))
<1> DEFINE c == CpuRow(Packed(S, width), width, x)
           P == Moved(S, x)
           PO == Packed(O, sheet)
           k == WordCount(sheet)
           A == CommittedRow(PO, c, x)
           B == ToggledRow(PO, c, x)
<1>1. k \in Nat /\ \A p \in Nat : p < sheet => p \div WordBits < k
  BY WordCountIs
<1>2. PO \in [0 .. k - 1 -> SUBSET Bits]
  BY PackedIs DEF WordRows
<1>3. \A j \in Nat, b \in Bits : (j \in 0 .. k - 1 /\ b \in PO[j]) <=> j * WordBits + b \in O
  BY PackedBit
<1>4. \A j \in Nat, b \in Bits : b \in Under(c, x, j) <=> j * WordBits + b \in P
  BY UnderBit
<1>5. DOMAIN c = 0 .. Needed(width, x) - 1 /\ \A i \in DOMAIN c : c[i] \subseteq Bits
  BY CoveredIs
<1>6. \A p \in P : p \in Nat /\ p < sheet
  BY DEF Moved
<1>7. \A p \in O : p \in Nat /\ p < sheet
  OBVIOUS
<1> HIDE DEF c, P, PO, k
<1>8. \A j \in Nat : Under(c, x, j) \subseteq Bits
  BY <1>5 DEF Under
<1>9. /\ A = [j \in 0 .. k - 1 |-> PO[j] \cup Under(c, x, j)]
      /\ B = [j \in 0 .. k - 1 |-> SymDiff(PO[j], Under(c, x, j))]
  BY <1>2 DEF CommittedRow, ToggledRow
<1> HIDE DEF A, B
<1>10. \A j \in 0 .. k - 1 : j \in Nat /\ PO[j] \subseteq Bits
  BY <1>2
<1>11. /\ DOMAIN A = 0 .. k - 1 /\ \A j \in 0 .. k - 1 : A[j] \subseteq Bits
       /\ DOMAIN B = 0 .. k - 1 /\ \A j \in 0 .. k - 1 : B[j] \subseteq Bits
  BY <1>8, <1>9, <1>10 DEF SymDiff
<1>12. 0 .. k - 1 \subseteq Nat
  BY <1>1
<1>13. \A p : p \in O \cup P => p \in Nat /\ p \div WordBits \in 0 .. k - 1
  <2> TAKE p
  <2> HAVE p \in O \cup P
  <2>1. p \in Nat /\ p < sheet
    BY <1>6, <1>7
  <2>2. p \div WordBits \in Nat /\ p \div WordBits < k
    BY <1>1, <2>1, PixelOn
  <2> QED
    BY <1>1, <2>1, <2>2
<1>14. ASSUME NEW p \in Nat, p \div WordBits \in 0 .. k - 1
       PROVE  /\ p % WordBits \in PO[p \div WordBits] <=> p \in O
              /\ p % WordBits \in Under(c, x, p \div WordBits) <=> p \in P
  <2> DEFINE j == p \div WordBits
             b == p % WordBits
  <2>1. j \in Nat /\ b \in Bits /\ j * WordBits + b = p /\ j \in 0 .. k - 1
    BY <1>14, PixelOn
  <2> HIDE DEF j, b
  <2>2. (b \in PO[j] <=> p \in O) /\ (b \in Under(c, x, j) <=> p \in P)
    BY <1>3, <1>4, <2>1
  <2> QED
    BY <2>2 DEF j, b
<1>15. Unpacked(A) = O \cup P
  <2>1. /\ Unpacked(A) \subseteq Nat
        /\ \A p \in Nat : p \in Unpacked(A) <=>
             p \div WordBits \in 0 .. k - 1 /\ p % WordBits \in A[p \div WordBits]
    BY <1>11, <1>12, UnpackedIs
  <2>2. \A p \in Nat : p \div WordBits \in 0 .. k - 1 =>
          (p % WordBits \in A[p \div WordBits] <=> p \in O \cup P)
    <3> TAKE p \in Nat
    <3> HAVE p \div WordBits \in 0 .. k - 1
    <3>1. A[p \div WordBits] = PO[p \div WordBits] \cup Under(c, x, p \div WordBits)
      BY <1>9
    <3> QED
      BY <1>14, <3>1
  <2> QED
    BY <1>13, <2>1, <2>2
<1>16. Unpacked(B) = SymDiff(O, P)
  <2>1. /\ Unpacked(B) \subseteq Nat
        /\ \A p \in Nat : p \in Unpacked(B) <=>
             p \div WordBits \in 0 .. k - 1 /\ p % WordBits \in B[p \div WordBits]
    BY <1>11, <1>12, UnpackedIs
  <2>2. \A p \in Nat : p \div WordBits \in 0 .. k - 1 =>
          (p % WordBits \in B[p \div WordBits] <=> p \in SymDiff(O, P))
    <3> TAKE p \in Nat
    <3> HAVE p \div WordBits \in 0 .. k - 1
    <3>1. B[p \div WordBits] = SymDiff(PO[p \div WordBits], Under(c, x, p \div WordBits))
      BY <1>9
    <3> QED
      BY <1>14, <3>1 DEF SymDiff
  <2>3. SymDiff(O, P) \subseteq O \cup P
    BY DEF SymDiff
  <2> QED
    BY <1>13, <2>1, <2>2, <2>3
<1> QED
  BY <1>15, <1>16 DEF A, B, c, P, PO

\* CPU and device find the collisions of pixels and draw the same pixels, for
\* masks and sheets of any width and words of any size.
LEMMA RowsAgreeAll ==
  ASSUME NEW width \in 1 .. Widest
  PROVE  RowsAgree(width)
<1> SUFFICES ASSUME NEW sheet \in width .. Widest, NEW x \in 0 .. sheet,
                    NEW S \in SUBSET (0 .. width - 1), NEW O \in SUBSET (0 .. sheet - 1)
             PROVE  LET mask == Packed(S, width)
                        taken == Packed(O, sheet)
                        shifted == {x + p : p \in S}
                    IN /\ \A M \in SUBSET (0 .. sheet - 1) :
                            LET fit == x + width <= sheet /\ shifted \cap O = {} /\ shifted \subseteq M
                            IN /\ CpuFits(taken, Packed(M, sheet), mask, width, x, sheet) = fit
                               /\ GpuFits(taken, Packed(M, sheet), mask, width, x, sheet) = fit
                       /\ x + width <= sheet =>
                            /\ Unpacked(CommittedRow(taken, CpuRow(mask, width, x), x)) = O \cup shifted
                            /\ Unpacked(ToggledRow(taken, GpuRow(mask, width, x), x)) =
                                 SymDiff(O, shifted)
  BY DEF RowsAgree
<1> DEFINE mask == Packed(S, width)
           taken == Packed(O, sheet)
           c == CpuRow(mask, width, x)
<1>1. width \in Nat /\ sheet \in Nat /\ x \in Nat /\ width <= sheet
  BY WordFacts
<1>2. GpuRow(mask, width, x) = c
  BY <1>1, SameRow
<1>3. x + width <= sheet <=> x <= sheet - width
  BY <1>1
<1>4. ASSUME NEW M \in SUBSET (0 .. sheet - 1)
      PROVE  /\ CpuFits(taken, Packed(M, sheet), mask, width, x, sheet)
                  = (x + width <= sheet /\ Moved(S, x) \cap O = {} /\ Moved(S, x) \subseteq M)
             /\ GpuFits(taken, Packed(M, sheet), mask, width, x, sheet)
                  = (x + width <= sheet /\ Moved(S, x) \cap O = {} /\ Moved(S, x) \subseteq M)
  <2>1. x + width <= sheet =>
          (~Collides(taken, Packed(M, sheet), c, x)
             <=> Moved(S, x) \cap O = {} /\ Moved(S, x) \subseteq M)
    BY <1>1, CollidesIs
  <2>2. x + width <= sheet => x \div WordBits + Needed(width, x) <= WordCount(sheet)
    BY <1>1, WordsWithin
  <2> HIDE DEF mask, taken, c
  <2>3. CpuFits(taken, Packed(M, sheet), mask, width, x, sheet)
          <=> (x + width <= sheet /\ Moved(S, x) \cap O = {} /\ Moved(S, x) \subseteq M)
    BY <2>1, <2>2 DEF CpuFits, c
  <2>4. GpuFits(taken, Packed(M, sheet), mask, width, x, sheet)
          <=> (x + width <= sheet /\ Moved(S, x) \cap O = {} /\ Moved(S, x) \subseteq M)
    BY <1>1, <1>2, <1>3, <2>1 DEF GpuFits
  <2>5. /\ CpuFits(taken, Packed(M, sheet), mask, width, x, sheet) \in BOOLEAN
        /\ GpuFits(taken, Packed(M, sheet), mask, width, x, sheet) \in BOOLEAN
    BY DEF CpuFits, GpuFits
  <2> QED
    BY <2>3, <2>4, <2>5
<1>5. ASSUME x + width <= sheet
      PROVE  /\ Unpacked(CommittedRow(taken, c, x)) = O \cup Moved(S, x)
             /\ Unpacked(ToggledRow(taken, c, x)) = SymDiff(O, Moved(S, x))
  BY <1>1, <1>5, ChangedWords
<1> QED
  BY <1>2, <1>4, <1>5 DEF Moved

-----------------------------------------------------------------------------
(* Rows are drawn: loops over their spans, and the spans in words.         *)

\* What holds at first and is kept from one index to the next holds of all.
LEMMA IndexInduction ==
  ASSUME NEW n \in Nat, NEW G, 0 \in G, \A i \in 1 .. n : i - 1 \in G => i \in G
  PROVE  \A i \in 0 .. n : i \in G
<1> DEFINE Bad == {i \in 0 .. n : i \notin G}
<1>1. SUFFICES ASSUME Bad # {} PROVE FALSE
  OBVIOUS
<1>2. Bad \in SUBSET Nat
  OBVIOUS
<1>3. PICK i \in Bad : \A k \in Bad : i <= k
  BY <1>1, <1>2, LeastNatural
<1>4. i # 0 /\ i \in 1 .. n
  BY <1>3
<1>5. i - 1 \notin Bad /\ i - 1 \in 0 .. n
  BY <1>3, <1>4
<1> QED
  BY <1>3, <1>4, <1>5

\* A loop has a sequence of states.
Iterated(D, a, n, g) ==
  \E f \in [0 .. n -> D] : f[0] = a /\ \A i \in 1 .. n : f[i] = g[i][f[i - 1]]

LEMMA IterateExists ==
  ASSUME NEW D, NEW a \in D, NEW n \in Nat, NEW g \in [1 .. n -> [D -> D]]
  PROVE  Iterated(D, a, n, g)
<1> DEFINE Has(m) == \E f \in [0 .. m -> D] :
                       f[0] = a /\ \A i \in 1 .. m : f[i] = g[i][f[i - 1]]
           G == {m \in 0 .. n : Has(m)}
<1>1. Has(0)
  <2> DEFINE f == [i \in 0 .. 0 |-> a]
  <2>1. f \in [0 .. 0 -> D] /\ f[0] = a /\ \A i \in 1 .. 0 : f[i] = g[i][f[i - 1]]
    OBVIOUS
  <2> QED
    BY <2>1
<1>2. ASSUME NEW m \in 1 .. n, Has(m - 1)
      PROVE  Has(m)
  <2>1. PICK f \in [0 .. m - 1 -> D] :
          f[0] = a /\ \A i \in 1 .. m - 1 : f[i] = g[i][f[i - 1]]
    BY <1>2
  <2> DEFINE h == [i \in 0 .. m |-> IF i = m THEN g[m][f[m - 1]] ELSE f[i]]
  <2>2. m - 1 \in 0 .. m - 1 /\ g[m][f[m - 1]] \in D
    BY <2>1
  <2>3. \A i \in 0 .. m : i = m \/ i \in 0 .. m - 1
    OBVIOUS
  <2>4. h \in [0 .. m -> D]
    BY <2>1, <2>2, <2>3
  <2>5. h[0] = a
    BY <2>1
  <2>6. ASSUME NEW i \in 1 .. m PROVE h[i] = g[i][h[i - 1]]
    <3>1. i \in 0 .. m /\ i - 1 \in 0 .. m /\ i - 1 # m
      OBVIOUS
    <3>2. h[i - 1] = f[i - 1]
      BY <3>1
    <3>3. CASE i = m
      BY <3>1, <3>2, <3>3
    <3>4. CASE i # m
      <4>1. i \in 1 .. m - 1
        BY <3>4
      <4> QED
        BY <2>1, <3>1, <3>2, <3>4, <4>1
    <3> QED
      BY <3>3, <3>4
  <2> HIDE DEF h
  <2> QED
    BY <2>4, <2>5, <2>6
<1> HIDE DEF Has
<1>3. \A m \in 0 .. n : m \in G
  <2>1. 0 \in G
    BY <1>1
  <2>2. \A m \in 1 .. n : m - 1 \in G => m \in G
    BY <1>2
  <2> HIDE DEF G
  <2> QED
    BY <2>1, <2>2, IndexInduction
<1>4. Has(n)
  BY <1>3
<1> QED
  BY <1>4 DEF Has, Iterated

\* The bits of a span in a word.
LEMMA SpanWordIs ==
  ASSUME NEW a \in Nat, NEW z \in Nat, a < z,
         NEW i \in (a \div WordBits) .. ((z - 1) \div WordBits), NEW b \in Bits
  PROVE  b \in SpanWord(a, z, i) <=> a <= i * WordBits + b /\ i * WordBits + b < z
<1> DEFINE w == WordBits
           q == a \div w
           s == a % w
           k == (z - 1) \div w
           offset == IF i = q THEN s ELSE 0
           n == Min({z - i * w - offset, w - offset})
<1>1. /\ w \in Nat \ {0} /\ q \in Nat /\ s \in Nat /\ s < w /\ a = q * w + s
      /\ q * w \in Nat
  BY PositionParts, WordFacts
<1>2. z - 1 \in Nat
  OBVIOUS
<1>3. k \in Nat /\ k * w \in Nat /\ k * w <= z - 1
  <2>1. /\ k \in Nat /\ k * w \in Nat
        /\ z - 1 = k * w + ((z - 1) % w) /\ (z - 1) % w \in Nat
    BY <1>2, PositionParts
  <2> HIDE DEF k, w
  <2> QED
    BY <2>1
<1>4. q <= i /\ i <= k /\ i \in Nat
  BY <1>1, <1>3
<1>5. SpanWord(a, z, i) = Up(Down(Bits, w - n), offset)
  BY DEF SpanWord
<1>6. Bits = 0 .. w - 1
  BY DEF Bits
<1> HIDE DEF q, s, k, w
<1>7. i * w \in Nat /\ i * w <= k * w
  BY <1>1, <1>3, <1>4
<1>8. offset \in Nat /\ offset < w /\ offset + i * w < z
  BY <1>1, <1>2, <1>3, <1>7
<1>9. a <= i * w + b <=> offset <= b
  <2>1. b \in Nat
    BY WordFacts
  <2>2. CASE i = q
    BY <1>1, <2>1, <2>2
  <2>3. CASE i # q
    <3>1. (q + 1) * w <= i * w /\ (q + 1) * w = q * w + w
      BY <1>1, <1>4, <2>3
    <3> QED
      BY <1>1, <1>7, <2>1, <2>3, <3>1
  <2> QED
    BY <2>2, <2>3
<1> HIDE DEF offset
<1>10. z - i * w - offset \in Nat /\ w - offset \in Nat
  BY <1>1, <1>7, <1>8
<1>11. n = IF z - i * w - offset <= w - offset THEN z - i * w - offset ELSE w - offset
  BY <1>10, MinOfTwo
<1>12. n \in Nat /\ w - n \in Nat
  BY <1>1, <1>7, <1>8, <1>10, <1>11
<1> HIDE DEF n
<1>13. Down(Bits, w - n) \in SUBSET Bits
  BY DEF Down
<1>14. b \in Nat /\ b < w
  BY <1>1, <1>6
<1>15. b \in Up(Down(Bits, w - n), offset) <=> offset <= b /\ b - offset \in Down(Bits, w - n)
  BY <1>8, <1>13, UpIs
<1>16. ASSUME offset <= b
       PROVE  b - offset \in Down(Bits, w - n) <=> b - offset < n
  <2>1. b - offset \in Bits
    BY <1>1, <1>6, <1>8, <1>14, <1>16
  <2>2. b - offset \in Down(Bits, w - n) <=> (b - offset) + (w - n) \in Bits
    BY <1>12, <2>1, DownIs
  <2> QED
    BY <1>1, <1>6, <1>8, <1>12, <1>14, <1>16, <2>2
<1>17. offset <= b => (b - offset < n <=> i * w + b < z)
  BY <1>1, <1>7, <1>8, <1>10, <1>11, <1>14
<1> QED
  BY <1>5, <1>9, <1>15, <1>16, <1>17 DEF w

LEMMA QuotientOrder ==
  ASSUME NEW b \in Nat \ {0}, NEW m \in Nat, NEW n \in Nat, m <= n
  PROVE  m \div b <= n \div b
<1>1. m \div b \in Nat /\ b * (m \div b) <= m
  BY Quotient
<1>2. b * (m \div b) <= n
  <2> DEFINE q == m \div b
  <2>1. b * q \in Nat
    BY <1>1
  <2> HIDE DEF q
  <2> QED
    BY <1>1, <2>1 DEF q
<1> QED
  BY <1>1, <1>2, QuotientAtLeast

\* Pixels are drawn or cleared.
Painted(S, T, material) == IF material THEN S \cup T ELSE S \ T

\* A span that is drawn or cleared.
LEMMA FillIs ==
  ASSUME NEW width \in Nat, NEW r \in WordRows(width),
         NEW a \in 0 .. width, NEW z \in 0 .. width, NEW material \in BOOLEAN
  PROVE  /\ Fill(r, <<a, z>>, material) \in WordRows(width)
         /\ Unpacked(Fill(r, <<a, z>>, material)) =
              Painted(Unpacked(r), a .. z - 1, material)
<1> DEFINE k == WordCount(width)
           firstWord == a \div WordBits
           lastWord == (z - 1) \div WordBits
           On(i) == a < z /\ i \in firstWord .. lastWord
           f == Fill(r, <<a, z>>, material)
<1>1. a \in Nat /\ z \in Nat /\ k \in Nat /\ 0 .. k - 1 \subseteq Nat
  BY WordCountIs
<1>2. r \in [0 .. k - 1 -> SUBSET Bits]
  BY DEF WordRows
<1>3. f = [i \in 0 .. k - 1 |->
             IF On(i) THEN IF material THEN r[i] \cup SpanWord(a, z, i)
                           ELSE r[i] \ SpanWord(a, z, i)
             ELSE r[i]]
  BY <1>2 DEF Fill
<1>4. \A i \in Nat : SpanWord(a, z, i) \subseteq Bits
  BY DEF SpanWord, Up
<1> HIDE DEF f, k
<1>5. f \in [0 .. k - 1 -> SUBSET Bits]
  <2> HIDE DEF On
  <2> QED
    BY <1>1, <1>2, <1>3, <1>4
<1>6. ASSUME NEW i \in Nat, NEW b \in Bits
      PROVE  On(i) => (b \in SpanWord(a, z, i) <=> i * WordBits + b \in a .. z - 1)
  <2>1. i * WordBits + b \in Nat
    BY PixelBack
  <2>2. On(i) => (b \in SpanWord(a, z, i) <=> a <= i * WordBits + b /\ i * WordBits + b < z)
    BY <1>1, SpanWordIs
  <2> DEFINE p == i * WordBits + b
  <2> HIDE DEF p, On
  <2>3. a <= p /\ p < z <=> p \in a .. z - 1
    BY <1>1, <2>1 DEF p
  <2> QED
    BY <2>2, <2>3 DEF p
<1>7. ASSUME NEW p \in a .. z - 1
      PROVE  On(p \div WordBits) /\ p \div WordBits \in 0 .. k - 1 /\ p \in Nat
  <2>1. p \in Nat /\ a <= p /\ p <= z - 1 /\ a < z /\ z - 1 \in Nat /\ p < width
    BY <1>1
  <2>2. /\ a \div WordBits <= p \div WordBits /\ p \div WordBits <= (z - 1) \div WordBits
        /\ p \div WordBits \in Nat /\ a \div WordBits \in Nat /\ (z - 1) \div WordBits \in Nat
    BY <1>1, <2>1, WordFacts, QuotientOrder, Quotient
  <2>3. p \div WordBits < k
    BY <2>1, WordCountIs DEF k
  <2> QED
    BY <1>1, <2>1, <2>2, <2>3
<1> HIDE DEF On
<1>8. ASSUME NEW p \in Nat
      PROVE  p \in Unpacked(f) <=>
               IF material THEN p \in Unpacked(r) \cup (a .. z - 1)
               ELSE p \in Unpacked(r) \ (a .. z - 1)
  <2> DEFINE i == p \div WordBits
             b == p % WordBits
  <2>1. i \in Nat /\ b \in Bits /\ i * WordBits + b = p
    BY PixelOn
  <2>2. /\ p \in Unpacked(f) <=> i \in 0 .. k - 1 /\ b \in f[i]
        /\ p \in Unpacked(r) <=> i \in 0 .. k - 1 /\ b \in r[i]
    <3>1. /\ DOMAIN f = 0 .. k - 1 /\ \A j \in 0 .. k - 1 : f[j] \subseteq Bits
          /\ DOMAIN r = 0 .. k - 1 /\ \A j \in 0 .. k - 1 : r[j] \subseteq Bits
      BY <1>2, <1>5
    <3> QED
      BY <1>1, <3>1, UnpackedIs
  <2>3. p \in a .. z - 1 => On(i) /\ i \in 0 .. k - 1
    BY <1>7
  <2> HIDE DEF i, b
  <2>4. On(i) => (b \in SpanWord(a, z, i) <=> p \in a .. z - 1)
    BY <1>6, <2>1
  <2>5. CASE i \in 0 .. k - 1
    BY <1>3, <2>2, <2>3, <2>4, <2>5
  <2>6. CASE i \notin 0 .. k - 1
    BY <2>2, <2>3, <2>6
  <2> QED
    BY <2>5, <2>6
<1>9. Unpacked(f) \subseteq Nat /\ Unpacked(r) \subseteq Nat
  <2>1. /\ DOMAIN f = 0 .. k - 1 /\ \A j \in 0 .. k - 1 : f[j] \subseteq Bits
        /\ DOMAIN r = 0 .. k - 1 /\ \A j \in 0 .. k - 1 : r[j] \subseteq Bits
    BY <1>2, <1>5
  <2> QED
    BY <1>1, <2>1, UnpackedIs
<1>10. \A p \in a .. z - 1 : p \in Nat
  BY <1>1
<1>11. Unpacked(f) = IF material THEN Unpacked(r) \cup (a .. z - 1)
                      ELSE Unpacked(r) \ (a .. z - 1)
  <2>1. CASE material
    <3>1. \A p \in Nat : p \in Unpacked(f) <=> p \in Unpacked(r) \cup (a .. z - 1)
      BY <1>8, <2>1
    <3>2. Unpacked(r) \cup (a .. z - 1) \subseteq Nat
      BY <1>9, <1>10
    <3>3. Unpacked(f) = Unpacked(r) \cup (a .. z - 1)
      BY <1>9, <3>1, <3>2
    <3> QED
      BY <2>1, <3>3
  <2>2. CASE ~material
    <3>1. \A p \in Nat : p \in Unpacked(f) <=> p \in Unpacked(r) \ (a .. z - 1)
      BY <1>8, <2>2
    <3>2. Unpacked(f) = Unpacked(r) \ (a .. z - 1)
      BY <1>9, <3>1
    <3> QED
      BY <2>2, <3>2
  <2> QED
    BY <2>1, <2>2
<1> QED
  BY <1>5, <1>11 DEF f, k, WordRows, Painted

\* Spans are drawn one after the other.
DrawnInTurn(width, r, gaps, material, n) ==
  \E f \in [0 .. n -> WordRows(width)] :
    /\ f[0] = r /\ FillAll(r, gaps, material) = f[n]
    /\ \A i \in 1 .. n : f[i] = Fill(f[i - 1], gaps[i], material)

LEMMA FillAllIs ==
  ASSUME NEW width \in Nat, NEW r \in WordRows(width), NEW material \in BOOLEAN,
         NEW n \in Nat, NEW gaps, Len(gaps) = n,
         \A i \in 1 .. n : \E a \in 0 .. width, z \in 0 .. width : gaps[i] = <<a, z>>
  PROVE  DrawnInTurn(width, r, gaps, material, n)
<1> DEFINE D == WordRows(width)
           g == [i \in 1 .. n |-> [d \in D |-> Fill(d, gaps[i], material)]]
           Is(f) == f = [i \in 0 .. n |-> IF i = 0 THEN r
                                          ELSE Fill(f[i - 1], gaps[i], material)]
           h == CHOOSE f : Is(f)
<1>1. \A i \in 1 .. n, d \in D : Fill(d, gaps[i], material) \in D
  <2> TAKE i \in 1 .. n, d \in D
  <2>1. PICK a \in 0 .. width, z \in 0 .. width : gaps[i] = <<a, z>>
    OBVIOUS
  <2> QED
    BY <2>1, FillIs
<1>2. FillAll(r, gaps, material) = h[n]
  BY DEF FillAll
<1> HIDE DEF D
<1>3. n \in Nat /\ r \in D
  BY DEF D
<1>4. /\ g \in [1 .. n -> [D -> D]]
      /\ \A i \in 1 .. n, d \in D : g[i][d] = Fill(d, gaps[i], material)
  BY <1>1
<1> HIDE DEF g
<1>5. PICK f \in [0 .. n -> D] : f[0] = r /\ \A i \in 1 .. n : f[i] = g[i][f[i - 1]]
  <2>1. Iterated(D, r, n, g)
    BY <1>3, <1>4, IterateExists
  <2> QED
    BY <2>1 DEF Iterated
<1>6. Is(f)
  <2>1. \A i \in 0 .. n : i # 0 => i \in 1 .. n /\ i - 1 \in 0 .. n
    BY <1>3
  <2>2. \A i \in 0 .. n : f[i] = IF i = 0 THEN r ELSE Fill(f[i - 1], gaps[i], material)
    BY <1>4, <1>5, <2>1
  <2> QED
    BY <1>5, <2>2
<1>7. Is(h)
  <2> HIDE DEF Is
  <2> QED
    BY <1>6
<1> HIDE DEF h
<1>8. h[0] = r /\ \A i \in 1 .. n : h[i] = Fill(h[i - 1], gaps[i], material)
  <2>1. \A i \in 0 .. n : h[i] = IF i = 0 THEN r ELSE Fill(h[i - 1], gaps[i], material)
    BY <1>7
  <2>2. 0 \in 0 .. n /\ \A i \in 1 .. n : i \in 0 .. n /\ i # 0
    BY <1>3
  <2> QED
    BY <2>1, <2>2
<1>9. h \in [0 .. n -> D]
  <2> DEFINE G == {i \in 0 .. n : h[i] \in D}
  <2>1. 0 \in G
    BY <1>3, <1>8
  <2>2. \A i \in 1 .. n : i - 1 \in G => i \in G
    BY <1>1, <1>3, <1>8
  <2>3. \A i \in 0 .. n : i \in G
    <3> HIDE DEF G
    <3> QED
      BY <1>3, <2>1, <2>2, IndexInduction
  <2> QED
    BY <1>7, <2>3
<1> QED
  BY <1>2, <1>8, <1>9 DEF D, DrawnInTurn

LEMMA LeastOfTwo ==
  ASSUME NEW a \in Int, NEW b \in Int
  PROVE  Min({a, b}) = IF a <= b THEN a ELSE b
<1>1. CASE a <= b
  BY <1>1 DEF Min
<1>2. CASE ~(a <= b)
  BY <1>2 DEF Min
<1> QED
  BY <1>1, <1>2

LEMMA GreatestOfTwo ==
  ASSUME NEW a \in Int, NEW b \in Int
  PROVE  Max({a, b}) = IF a >= b THEN a ELSE b
<1>1. CASE a >= b
  BY <1>1 DEF Max
<1>2. CASE ~(a >= b)
  BY <1>2 DEF Max
<1> QED
  BY <1>1, <1>2

\* The pixel of a crossing is the first whose centre is not before it.
LEMMA PixelOfIs ==
  ASSUME NEW width \in Nat, NEW c \in Int
  PROVE  /\ PixelOf(c, width) \in 0 .. width
         /\ \A p \in 0 .. width - 1 : PixelOf(c, width) <= p <=> c <= 2 * p + 1
<1> DEFINE h == c \div 2
<1>1. h \in Int /\ 2 * h <= c /\ c < 2 * h + 2
  OBVIOUS
<1>2. PixelOf(c, width) = Max({0, Min({width, h})})
  BY DEF PixelOf
<1> HIDE DEF h
<1>3. Min({width, h}) = IF width <= h THEN width ELSE h
  BY <1>1, LeastOfTwo
<1>4. Min({width, h}) \in Int
  BY <1>1, <1>3
<1>5. PixelOf(c, width) = IF 0 >= Min({width, h}) THEN 0 ELSE Min({width, h})
  BY <1>2, <1>4, GreatestOfTwo
<1> DEFINE k == PixelOf(c, width)
<1>6. k = IF h <= 0 THEN 0 ELSE IF width <= h THEN width ELSE h
  BY <1>1, <1>3, <1>5
<1> HIDE DEF k
<1>7. k \in 0 .. width
  BY <1>1, <1>6
<1>8. ASSUME NEW p \in 0 .. width - 1 PROVE k <= p <=> c <= 2 * p + 1
  <2>1. k <= p <=> h <= p
    BY <1>1, <1>6
  <2> QED
    BY <1>1, <2>1
<1> QED
  BY <1>7, <1>8 DEF k

\* An odd number of crossings is beyond a place that is in a span.
LEMMA CrossingsBeyond ==
  ASSUME NEW n \in {2, 4}, NEW c \in [1 .. n -> Int],
         \A i \in 1 .. n - 1 : c[i] <= c[i + 1], NEW t \in Int
  PROVE  Cardinality({i \in DOMAIN c : c[i] > t}) % 2 = 1
           <=> \E i \in 1 .. n \div 2 : c[2 * i - 1] <= t /\ t < c[2 * i]
<1> DEFINE B == {i \in DOMAIN c : c[i] > t}
<1>1. ASSUME NEW k \in 1 .. n + 1, B = k .. n PROVE Cardinality(B) = n - k + 1
  <2>1. k \in Int /\ n \in Int /\ k <= n + 1
    OBVIOUS
  <2>2. Cardinality(k .. n) = IF k > n THEN 0 ELSE n - k + 1
    BY <2>1, FS_Interval
  <2> HIDE DEF B
  <2> QED
    BY <1>1, <2>1, <2>2
<1>2. CASE n = 2
  <2>1. c[1] \in Int /\ c[2] \in Int /\ c[1] <= c[2]
    BY <1>2
  <2>2. B = {i \in {1, 2} : c[i] > t}
    BY <1>2
  <2>3. (\E i \in 1 .. n \div 2 : c[2 * i - 1] <= t /\ t < c[2 * i]) <=> c[1] <= t /\ t < c[2]
    BY <1>2
  <2> HIDE DEF B
  <2>4. CASE c[1] > t
    <3>1. B = 1 .. 2
      BY <2>1, <2>2, <2>4
    <3> QED
      BY <1>1, <1>2, <2>1, <2>3, <2>4, <3>1 DEF B
  <2>5. CASE c[1] <= t /\ c[2] > t
    <3>1. B = 2 .. 2
      BY <2>1, <2>2, <2>5
    <3> QED
      BY <1>1, <1>2, <2>1, <2>3, <2>5, <3>1 DEF B
  <2>6. CASE c[2] <= t
    <3>1. B = 3 .. 2
      BY <2>1, <2>2, <2>6
    <3> QED
      BY <1>1, <1>2, <2>1, <2>3, <2>6, <3>1 DEF B
  <2> QED
    BY <2>1, <2>4, <2>5, <2>6
<1>3. CASE n = 4
  <2>1. /\ c[1] \in Int /\ c[2] \in Int /\ c[3] \in Int /\ c[4] \in Int
        /\ c[1] <= c[2] /\ c[2] <= c[3] /\ c[3] <= c[4]
    <3>1. {1, 2, 3} \subseteq 1 .. n - 1 /\ {1, 2, 3, 4} \subseteq 1 .. n
      BY <1>3
    <3> QED
      BY <3>1
  <2>2. B = {i \in {1, 2, 3, 4} : c[i] > t}
    BY <1>3
  <2>3. (\E i \in 1 .. n \div 2 : c[2 * i - 1] <= t /\ t < c[2 * i])
          <=> (c[1] <= t /\ t < c[2]) \/ (c[3] <= t /\ t < c[4])
    <3>1. 1 .. n \div 2 = {1, 2}
      BY <1>3
    <3>2. 2 * 1 - 1 = 1 /\ 2 * 1 = 2 /\ 2 * 2 - 1 = 3 /\ 2 * 2 = 4
      OBVIOUS
    <3> QED
      BY <3>1, <3>2
  <2> HIDE DEF B
  <2>4. CASE c[1] > t
    <3>1. B = 1 .. 4
      BY <2>1, <2>2, <2>4
    <3> QED
      BY <1>1, <1>3, <2>1, <2>3, <2>4, <3>1 DEF B
  <2>5. CASE c[1] <= t /\ c[2] > t
    <3>1. B = 2 .. 4
      BY <2>1, <2>2, <2>5
    <3> QED
      BY <1>1, <1>3, <2>1, <2>3, <2>5, <3>1 DEF B
  <2>6. CASE c[2] <= t /\ c[3] > t
    <3>1. B = 3 .. 4
      BY <2>1, <2>2, <2>6
    <3> QED
      BY <1>1, <1>3, <2>1, <2>3, <2>6, <3>1 DEF B
  <2>7. CASE c[3] <= t /\ c[4] > t
    <3>1. B = 4 .. 4
      BY <2>1, <2>2, <2>7
    <3> QED
      BY <1>1, <1>3, <2>1, <2>3, <2>7, <3>1 DEF B
  <2>8. CASE c[4] <= t
    <3>1. B = 5 .. 4
      BY <2>1, <2>2, <2>8
    <3> QED
      BY <1>1, <1>3, <2>1, <2>3, <2>8, <3>1 DEF B
  <2> QED
    BY <2>1, <2>4, <2>5, <2>6, <2>7, <2>8
<1> QED
  BY <1>2, <1>3

\* The spans of a contour.
LEMMA GapsAre ==
  ASSUME NEW width \in Nat, NEW n \in {2, 4}, NEW c \in [1 .. n -> Int]
  PROVE  /\ Len(Gaps(c, width)) = n \div 2
         /\ \A i \in 1 .. n \div 2 :
              Gaps(c, width)[i] = <<PixelOf(c[2 * i - 1], width), PixelOf(c[2 * i], width)>>
<1>1. Len(c) = n
  OBVIOUS
<1>2. Gaps(c, width) = [i \in 1 .. n \div 2 |->
        <<PixelOf(c[2 * i - 1], width), PixelOf(c[2 * i], width)>>]
  BY <1>1 DEF Gaps
<1>3. n \div 2 \in Nat
  OBVIOUS
<1> QED
  BY <1>2, <1>3

\* The pixels whose centres have an odd number of crossings behind them.
Enclosed(c, width) ==
  {p \in 0 .. width - 1 : Cardinality({i \in DOMAIN c : c[i] > 2 * p + 1}) % 2 = 1}

\* A contour that is drawn or cleared.
LEMMA ContourIs ==
  ASSUME NEW width \in Nat, NEW r \in WordRows(width), NEW material \in BOOLEAN,
         NEW n \in {2, 4}, NEW c \in [1 .. n -> Int],
         \A i \in 1 .. n - 1 : c[i] <= c[i + 1]
  PROVE  /\ FillAll(r, Gaps(c, width), material) \in WordRows(width)
         /\ Unpacked(FillAll(r, Gaps(c, width), material)) =
              Painted(Unpacked(r), Enclosed(c, width), material)
<1> DEFINE gaps == Gaps(c, width)
           A(i) == PixelOf(c[2 * i - 1], width)
           Z(i) == PixelOf(c[2 * i], width)
           m == n \div 2
           inside == Enclosed(c, width)
<1>1. m \in {1, 2} /\ Len(gaps) = m /\ \A i \in 1 .. m : gaps[i] = <<A(i), Z(i)>>
  <2>1. m \in {1, 2}
    OBVIOUS
  <2>2. Len(gaps) = m /\ \A i \in 1 .. m : gaps[i] = <<A(i), Z(i)>>
    BY GapsAre
  <2> QED
    BY <2>1, <2>2
<1>2. ASSUME NEW i \in 1 .. m
      PROVE  /\ A(i) \in 0 .. width /\ Z(i) \in 0 .. width
             /\ \A p \in 0 .. width - 1 :
                  p \in A(i) .. Z(i) - 1 <=> c[2 * i - 1] <= 2 * p + 1 /\ 2 * p + 1 < c[2 * i]
  <2>1. 2 * i - 1 \in 1 .. n /\ 2 * i \in 1 .. n
    OBVIOUS
  <2>2. c[2 * i - 1] \in Int /\ c[2 * i] \in Int
    BY <2>1
  <2>3. /\ A(i) \in 0 .. width /\ Z(i) \in 0 .. width
        /\ \A p \in 0 .. width - 1 : /\ A(i) <= p <=> c[2 * i - 1] <= 2 * p + 1
                                     /\ Z(i) <= p <=> c[2 * i] <= 2 * p + 1
    BY <2>2, PixelOfIs
  <2> DEFINE lo == c[2 * i - 1]
             hi == c[2 * i]
             a == A(i)
             z == Z(i)
  <2>4. /\ lo \in Int /\ hi \in Int /\ a \in 0 .. width /\ z \in 0 .. width
        /\ \A p \in 0 .. width - 1 : (a <= p <=> lo <= 2 * p + 1) /\ (z <= p <=> hi <= 2 * p + 1)
    BY <2>2, <2>3
  <2> HIDE DEF A, Z, lo, hi, a, z
  <2>5. \A p \in 0 .. width - 1 : p \in a .. z - 1 <=> lo <= 2 * p + 1 /\ 2 * p + 1 < hi
    BY <2>4
  <2> QED
    BY <2>4, <2>5 DEF lo, hi, a, z
<1> HIDE DEF gaps, A, Z, m
<1>3. PICK f \in [0 .. m -> WordRows(width)] :
        /\ f[0] = r /\ FillAll(r, gaps, material) = f[m]
        /\ \A i \in 1 .. m : f[i] = Fill(f[i - 1], gaps[i], material)
  <2>1. \A i \in 1 .. m : \E a \in 0 .. width, z \in 0 .. width : gaps[i] = <<a, z>>
    BY <1>1, <1>2
  <2>2. DrawnInTurn(width, r, gaps, material, m)
    BY <1>1, <2>1, FillAllIs
  <2> QED
    BY <2>2 DEF DrawnInTurn
<1>4. ASSUME NEW i \in 1 .. m
      PROVE  Unpacked(f[i]) = IF material THEN Unpacked(f[i - 1]) \cup (A(i) .. Z(i) - 1)
                              ELSE Unpacked(f[i - 1]) \ (A(i) .. Z(i) - 1)
  <2>1. i - 1 \in 0 .. m
    BY <1>1
  <2>2. f[i - 1] \in WordRows(width) /\ f[i] = Fill(f[i - 1], <<A(i), Z(i)>>, material)
    BY <1>1, <1>3, <2>1
  <2> DEFINE d == f[i - 1]
             a == A(i)
             z == Z(i)
  <2>3. d \in WordRows(width) /\ a \in 0 .. width /\ z \in 0 .. width
    BY <1>2, <2>2
  <2> HIDE DEF d, a, z
  <2>4. Unpacked(Fill(d, <<a, z>>, material)) =
          Painted(Unpacked(d), a .. z - 1, material)
    BY <2>3, FillIs
  <2> QED
    BY <2>2, <2>4 DEF d, a, z, Painted
<1>5. inside \subseteq 0 .. width - 1
      /\ \A p \in 0 .. width - 1 : p \in inside <=> \E i \in 1 .. m : p \in A(i) .. Z(i) - 1
  <2>1. ASSUME NEW p \in 0 .. width - 1
        PROVE  p \in inside <=> \E i \in 1 .. m : c[2 * i - 1] <= 2 * p + 1 /\ 2 * p + 1 < c[2 * i]
    <3>1. 2 * p + 1 \in Int
      OBVIOUS
    <3>2. p \in inside <=> Cardinality({i \in DOMAIN c : c[i] > 2 * p + 1}) % 2 = 1
      BY DEF Enclosed
    <3> QED
      BY <3>1, <3>2, CrossingsBeyond DEF m
  <2>2. inside \subseteq 0 .. width - 1
    BY DEF Enclosed
  <2> HIDE DEF inside
  <2> QED
    BY <1>2, <2>1, <2>2
<1> HIDE DEF inside
<1>8. \A i \in 1 .. m : A(i) .. Z(i) - 1 \subseteq 0 .. width - 1
  <2> TAKE i \in 1 .. m
  <2>1. A(i) \in 0 .. width /\ Z(i) \in 0 .. width
    BY <1>2
  <2> QED
    BY <2>1
<1>6. FillAll(r, gaps, material) \in WordRows(width)
  BY <1>1, <1>3
<1>7. Unpacked(FillAll(r, gaps, material)) =
        Painted(Unpacked(r), inside, material)
  <2> USE DEF Painted
  <2>1. CASE m = 1
    <3>1. inside = A(1) .. Z(1) - 1
      <4>1. \A p : p \in 0 .. width - 1 => (p \in inside <=> p \in A(1) .. Z(1) - 1)
        BY <1>5, <2>1
      <4>2. A(1) .. Z(1) - 1 \subseteq 0 .. width - 1
        BY <1>8, <2>1
      <4> QED
        BY <1>5, <4>1, <4>2
    <3>2. Unpacked(f[1]) = IF material THEN Unpacked(f[0]) \cup (A(1) .. Z(1) - 1)
                           ELSE Unpacked(f[0]) \ (A(1) .. Z(1) - 1)
      BY <1>4, <2>1
    <3> QED
      BY <1>3, <2>1, <3>1, <3>2
  <2>2. CASE m = 2
    <3>1. inside = (A(1) .. Z(1) - 1) \cup (A(2) .. Z(2) - 1)
      <4>1. \A p : p \in 0 .. width - 1 =>
              (p \in inside <=> p \in A(1) .. Z(1) - 1 \/ p \in A(2) .. Z(2) - 1)
        BY <1>5, <2>2
      <4>2. A(1) .. Z(1) - 1 \subseteq 0 .. width - 1 /\ A(2) .. Z(2) - 1 \subseteq 0 .. width - 1
        BY <1>8, <2>2
      <4> QED
        BY <1>5, <4>1, <4>2
    <3>2. Unpacked(f[1]) = IF material THEN Unpacked(f[0]) \cup (A(1) .. Z(1) - 1)
                           ELSE Unpacked(f[0]) \ (A(1) .. Z(1) - 1)
      BY <1>4, <2>2
    <3>3. Unpacked(f[2]) = IF material THEN Unpacked(f[1]) \cup (A(2) .. Z(2) - 1)
                           ELSE Unpacked(f[1]) \ (A(2) .. Z(2) - 1)
      BY <1>4, <2>2
    <3> QED
      BY <1>3, <2>2, <3>1, <3>2, <3>3
  <2> QED
    BY <1>1, <2>1, <2>2
<1> QED
  BY <1>6, <1>7 DEF gaps, inside

LEMMA NothingDrawn ==
  ASSUME NEW width \in Nat
  PROVE  Packed({}, width) \in WordRows(width) /\ Unpacked(Packed({}, width)) = {}
<1>1. Packed({}, width) \in WordRows(width)
  BY PackedIs
<1>2. \A i \in DOMAIN Packed({}, width) : Packed({}, width)[i] = {}
  BY DEF Packed
<1> QED
  BY <1>1, <1>2 DEF Unpacked

\* Rows of any width are drawn exactly, for an outline that the scan line
\* crosses twice or four times and a hole that it crosses twice.
LEMMA RowDrawnAll ==
  ASSUME NEW width \in 1 .. Widest
  PROVE  RowDrawn(width)
<1> DEFINE Sorted(n) == {c \in [1 .. n -> -1 .. 2 * Widest + 1] :
                          \A i \in 1 .. n - 1 : c[i] <= c[i + 1]}
           Inside(c, p) == Cardinality({i \in DOMAIN c : c[i] > 2 * p + 1}) % 2 = 1
<1>1. width \in Nat /\ -1 .. 2 * Widest + 1 \subseteq Int
  BY WordFacts
<1>2. SUFFICES ASSUME NEW outline \in Sorted(2) \cup Sorted(4), NEW hole \in Sorted(2)
               PROVE  Unpacked(DrawRow(outline, hole, width)) =
                        {p \in 0 .. width - 1 : Inside(outline, p) /\ ~Inside(hole, p)}
  BY DEF RowDrawn
<1>3. PICK n \in {2, 4} : /\ outline \in [1 .. n -> Int]
                          /\ \A i \in 1 .. n - 1 : outline[i] <= outline[i + 1]
  BY <1>1, <1>2
<1>4. hole \in [1 .. 2 -> Int] /\ \A i \in 1 .. 2 - 1 : hole[i] <= hole[i + 1]
  BY <1>1, <1>2
<1> DEFINE e == Packed({}, width)
           f == FillAll(e, Gaps(outline, width), TRUE)
           g == FillAll(f, Gaps(hole, width), FALSE)
           I(c) == Enclosed(c, width)
<1>5. e \in WordRows(width) /\ Unpacked(e) = {}
  BY <1>1, NothingDrawn
<1> HIDE DEF e
<1>6. f \in WordRows(width) /\ Unpacked(f) = Unpacked(e) \cup I(outline)
  <2>1. /\ f \in WordRows(width)
        /\ Unpacked(f) = Painted(Unpacked(e), Enclosed(outline, width), TRUE)
    BY <1>1, <1>3, <1>5, ContourIs
  <2> QED
    BY <2>1 DEF Painted
<1> HIDE DEF f
<1>7. Unpacked(g) = Unpacked(f) \ I(hole)
  <2>1. Unpacked(g) = Painted(Unpacked(f), Enclosed(hole, width), FALSE)
    BY <1>1, <1>4, <1>6, ContourIs
  <2> QED
    BY <2>1 DEF Painted
<1>8. DrawRow(outline, hole, width) = g
  BY DEF DrawRow, g, f, e
<1>9. \A c : I(c) = {p \in 0 .. width - 1 : Inside(c, p)}
  BY DEF Enclosed
<1> HIDE DEF g, Inside, I
<1> QED
  BY <1>5, <1>6, <1>7, <1>8, <1>9

-----------------------------------------------------------------------------
(* The largest rectangle: the stack of columns while they are pushed and   *)
(* end, the heights from row to row, and the stripe.                       *)

LEMMA SmallerArea ==
  ASSUME NEW a \in Nat, NEW b \in Nat, NEW c \in Nat, NEW d \in Nat, a <= b, c <= d
  PROVE  a * c \in Nat /\ b * d \in Nat /\ a * c <= b * d
<1>1. a * c \in Nat /\ b * d \in Nat /\ b * c \in Nat
  OBVIOUS
<1>2. PICK u \in Nat : b = a + u
  <2>1. b - a \in Nat /\ b = a + (b - a)
    OBVIOUS
  <2> QED
    BY <2>1
<1>3. PICK v \in Nat : d = c + v
  <2>1. d - c \in Nat /\ d = c + (d - c)
    OBVIOUS
  <2> QED
    BY <2>1
<1>4. b * c = a * c + u * c /\ u * c \in Nat
  BY <1>2
<1>5. b * d = b * c + b * v /\ b * v \in Nat
  BY <1>3
<1> DEFINE ac == a * c
           bc == b * c
           bd == b * d
           uc == u * c
           bv == b * v
<1>6. ac \in Nat /\ bc \in Nat /\ bd \in Nat /\ uc \in Nat /\ bv \in Nat
      /\ bc = ac + uc /\ bd = bc + bv
  BY <1>1, <1>4, <1>5
<1> HIDE DEF ac, bc, bd, uc, bv
<1>7. ac <= bd
  BY <1>6
<1> QED
  BY <1>1, <1>7 DEF ac, bd

\* A loop whose i-th state is in I[i].
IteratedWithin(D, I, a, n, g) ==
  \E f \in [0 .. n -> D] :
    /\ f[0] = a
    /\ \A i \in 1 .. n : f[i] = g[i][f[i - 1]]
    /\ \A i \in 0 .. n : f[i] \in I[i]

LEMMA IterateWithin ==
  ASSUME NEW D, NEW n \in Nat, NEW I \in [0 .. n -> SUBSET D], NEW a \in I[0], NEW g,
         \A i \in 1 .. n : \A d \in I[i - 1] : g[i][d] \in I[i]
  PROVE  IteratedWithin(D, I, a, n, g)
<1> DEFINE k == [i \in 1 .. n |-> [d \in D |-> IF g[i][d] \in D THEN g[i][d] ELSE a]]
<1>1. a \in D
  OBVIOUS
<1>2. k \in [1 .. n -> [D -> D]]
  BY <1>1
<1>3. \A i \in 1 .. n, d \in D : g[i][d] \in D => k[i][d] = g[i][d]
  OBVIOUS
<1> HIDE DEF k
<1>4. PICK f \in [0 .. n -> D] : f[0] = a /\ \A i \in 1 .. n : f[i] = k[i][f[i - 1]]
  <2>1. Iterated(D, a, n, k)
    BY <1>1, <1>2, IterateExists
  <2> QED
    BY <2>1 DEF Iterated
<1>5. ASSUME NEW i \in 1 .. n, f[i - 1] \in I[i - 1]
      PROVE  f[i] = g[i][f[i - 1]] /\ f[i] \in I[i]
  <2>1. i - 1 \in 0 .. n /\ i \in 0 .. n
    OBVIOUS
  <2>2. g[i][f[i - 1]] \in I[i]
    BY <1>5
  <2>3. g[i][f[i - 1]] \in D /\ f[i - 1] \in D
    BY <2>1, <2>2
  <2>4. f[i] = k[i][f[i - 1]]
    BY <1>4
  <2> QED
    BY <1>3, <2>2, <2>3, <2>4
<1>6. \A i \in 0 .. n : f[i] \in I[i]
  <2> DEFINE G == {i \in 0 .. n : f[i] \in I[i]}
  <2>1. 0 \in G
    BY <1>4
  <2>2. \A i \in 1 .. n : i - 1 \in G => i \in G
    BY <1>5
  <2> HIDE DEF G
  <2>3. \A i \in 0 .. n : i \in G
    BY <2>1, <2>2, IndexInduction
  <2> QED
    BY <2>3 DEF G
<1>7. \A i \in 1 .. n : f[i] = g[i][f[i - 1]]
  <2> TAKE i \in 1 .. n
  <2>1. i - 1 \in 0 .. n
    OBVIOUS
  <2> QED
    BY <1>5, <1>6, <2>1
<1> QED
  BY <1>4, <1>6, <1>7 DEF IteratedWithin

LEMMA FrontIs ==
  ASSUME NEW S, NEW s \in Seq(S), s # <<>>
  PROVE  /\ Len(s) \in Nat \ {0} /\ Last(s) = s[Len(s)] /\ Last(s) \in S
         /\ Front(s) \in Seq(S) /\ Len(Front(s)) = Len(s) - 1
         /\ \A a \in 1 .. Len(s) - 1 : Front(s)[a] = s[a]
<1>1. Len(s) \in Nat \ {0} /\ Last(s) = s[Len(s)] /\ Last(s) \in S
  BY DEF Last
<1> DEFINE n == Len(s) - 1
<1>2. Front(s) = SubSeq(s, 1, n)
  BY DEF Front
<1>3. n \in Nat /\ 1 \in Int /\ n \in Int /\ \A i \in 1 .. n : s[i] \in S
  BY <1>1
<1> HIDE DEF n
<1>4. /\ SubSeq(s, 1, n) \in Seq(S)
      /\ Len(SubSeq(s, 1, n)) = IF 1 <= n THEN n - 1 + 1 ELSE 0
      /\ \A i \in 1 .. n - 1 + 1 : SubSeq(s, 1, n)[i] = s[1 + i - 1]
  BY <1>3, SubSeqProperties
<1>5. (IF 1 <= n THEN n - 1 + 1 ELSE 0) = n /\ n - 1 + 1 = n /\ \A i \in 1 .. n : 1 + i - 1 = i
  BY <1>3
<1>6. Len(Front(s)) = n /\ Front(s) \in Seq(S) /\ \A i \in 1 .. n : Front(s)[i] = s[i]
  BY <1>2, <1>4, <1>5
<1> QED
  BY <1>1, <1>6 DEF n

-----------------------------------------------------------------------------

Rects == [x : Nat, y : Nat, width : Nat, height : Nat]
BoxOf(r) == (r.x .. r.x + r.width - 1) \X (r.y .. r.y + r.height - 1)

GoodCore(mask, core, least) ==
  core \in Rects /\ BoxOf(core) \subseteq mask /\ least <= AreaOf(core)

HeightAt(heights, x) == IF x \in DOMAIN heights THEN heights[x] ELSE 0

\* The heights are those of filled columns whose last row is y.
Standing(mask, heights, width, y) ==
  /\ heights \in [0 .. width - 1 -> 0 .. y + 1]
  /\ \A x \in 0 .. width - 1 : \A z \in y - heights[x] + 1 .. y : <<x, z>> \in mask

\* The columns l .. q reach the height.
Reaching(heights, l, q, height) == \A z \in l .. q : HeightAt(heights, z) >= height

\* The columns that a column of the stack stands for begin behind the one
\* below it, and those behind the last one begin at the base.
LeftOf(piled, a) == IF a = 1 THEN 0 ELSE piled[a - 1] + 1
Base(piled) == LeftOf(piled, Len(piled) + 1)

\* The columns of the stack rise, and are the lowest of those they stand for.
Rising(heights, piled, x) ==
  /\ piled \in Seq(0 .. x - 1)
  /\ \A a \in 1 .. Len(piled), b \in 1 .. Len(piled) : a < b =>
       /\ piled[a] < piled[b]
       /\ HeightAt(heights, piled[a]) <= HeightAt(heights, piled[b])
  /\ \A a \in 1 .. Len(piled) :
       Reaching(heights, LeftOf(piled, a), piled[a], HeightAt(heights, piled[a]))

\* While columns end at x: what is no longer on the stack is higher than x,
\* and what ends there has been measured.
Popping(mask, heights, s, x, least) ==
  /\ s \in [stack : Seq(0 .. x - 1), core : Rects]
  /\ Rising(heights, s.stack, x) /\ GoodCore(mask, s.core, least)
  /\ \A z \in Base(s.stack) .. x - 1 :
       /\ HeightAt(heights, z) > HeightAt(heights, x)
       /\ \A a \in 1 .. Len(s.stack) : HeightAt(heights, z) >= HeightAt(heights, s.stack[a])
  /\ \A l \in Base(s.stack) .. x - 1, k \in Nat :
       k > HeightAt(heights, x) /\ Reaching(heights, l, x - 1, k)
         => (x - l) * k <= AreaOf(s.core)

\* Nothing on the stack ends at x any more.
Popped(heights, piled, x) ==
  piled = <<>> \/ HeightAt(heights, Last(piled)) <= HeightAt(heights, x)

\* The columns that have ended before x have been measured.
Pushed(mask, heights, s, x, least) ==
  /\ s \in [stack : Seq(0 .. x - 1), core : Rects]
  /\ Rising(heights, s.stack, x) /\ GoodCore(mask, s.core, least)
  /\ Base(s.stack) = x
  /\ \A l \in Nat, q \in Nat, k \in Nat :
       q + 1 < x /\ l <= q /\ k > HeightAt(heights, q + 1) /\ Reaching(heights, l, q, k)
         => (q - l + 1) * k <= AreaOf(s.core)

LEMMA HeightIs ==
  ASSUME NEW mask, NEW width \in Nat, NEW y \in Nat, NEW heights,
         Standing(mask, heights, width, y)
  PROVE  /\ \A x : HeightAt(heights, x) \in 0 .. y + 1 /\ HeightAt(heights, x) \in Nat
         /\ \A x : HeightAt(heights, x) > 0 =>
              x \in 0 .. width - 1 /\ HeightAt(heights, x) = heights[x]
         /\ \A x \in 0 .. width - 1 :
              \A z \in y - HeightAt(heights, x) + 1 .. y : <<x, z>> \in mask
         /\ HeightAt(heights, width) = 0
BY DEF Standing, HeightAt

LEMMA AreaNat ==
  ASSUME NEW r \in Rects
  PROVE  AreaOf(r) \in Nat /\ AreaOf(r) = r.width * r.height
BY DEF Rects, AreaOf

\* A rectangle below the tops of columns is filled.
LEMMA BelowTops ==
  ASSUME NEW mask, NEW width \in Nat, NEW y \in Nat, NEW heights,
         Standing(mask, heights, width, y),
         NEW x \in 0 .. width, NEW left \in 0 .. x - 1, NEW height \in Nat \ {0},
         Reaching(heights, left, x - 1, height)
  PROVE  LET found == [x |-> left, y |-> y - height + 1, width |-> x - left, height |-> height]
         IN found \in Rects /\ BoxOf(found) \subseteq mask
<1> DEFINE found == [x |-> left, y |-> y - height + 1, width |-> x - left, height |-> height]
<1>1. x \in Nat /\ left \in Nat /\ left < x /\ x <= width
  OBVIOUS
<1>2. \A z \in left .. x - 1 : HeightAt(heights, z) >= height
  BY DEF Reaching
<1>3. HeightAt(heights, left) \in 0 .. y + 1 /\ HeightAt(heights, left) >= height
  <2>1. left \in left .. x - 1
    BY <1>1
  <2>2. \A c : HeightAt(heights, c) \in 0 .. y + 1
    BY HeightIs
  <2> QED
    BY <1>2, <2>1, <2>2
<1>4. y - height + 1 \in Nat
  BY <1>3
<1>5. found \in Rects
  BY <1>1, <1>4 DEF Rects
<1>6. ASSUME NEW c \in left .. x - 1, NEW z \in y - height + 1 .. y
      PROVE  <<c, z>> \in mask
  <2>1. c \in 0 .. width - 1 /\ HeightAt(heights, c) \in Nat /\ HeightAt(heights, c) >= height
    <3>1. \A v : HeightAt(heights, v) \in Nat
      BY HeightIs
    <3> QED
      BY <1>1, <1>2, <3>1
  <2>2. z \in y - HeightAt(heights, c) + 1 .. y
    BY <1>4, <2>1
  <2>3. \A v \in 0 .. width - 1 : \A w \in y - HeightAt(heights, v) + 1 .. y : <<v, w>> \in mask
    BY HeightIs
  <2> QED
    BY <2>1, <2>2, <2>3
<1>7. BoxOf(found) = (left .. x - 1) \X (y - height + 1 .. y)
  <2>1. left + (x - left) - 1 = x - 1 /\ (y - height + 1) + height - 1 = y
    BY <1>1
  <2> QED
    BY <2>1 DEF BoxOf
<1> QED
  BY <1>5, <1>6, <1>7

\* The base behind a stack that has lost its last column.
TopTaken(heights, st, x) ==
  /\ Len(st) \in Nat \ {0} /\ st[Len(st)] \in 0 .. x - 1
  /\ Base(st) = st[Len(st)] + 1
  /\ Base(Front(st)) = LeftOf(st, Len(st)) /\ Base(Front(st)) \in 0 .. st[Len(st)]
  /\ Front(st) = <<>> => Base(Front(st)) = 0
  /\ Front(st) # <<>> => Base(Front(st)) = Last(Front(st)) + 1
  /\ Rising(heights, Front(st), x) /\ Len(Front(st)) = Len(st) - 1
  /\ \A a \in 1 .. Len(st) - 1 : Front(st)[a] = st[a]

LEMMA FrontOfStack ==
  ASSUME NEW heights, NEW x \in Nat, NEW st, Rising(heights, st, x), st # <<>>
  PROVE  TopTaken(heights, st, x)
<1> DEFINE n == Len(st)
           rest == Front(st)
<1>1. /\ st \in Seq(0 .. x - 1)
      /\ \A a \in 1 .. n, b \in 1 .. n : a < b =>
           /\ st[a] < st[b]
           /\ HeightAt(heights, st[a]) <= HeightAt(heights, st[b])
      /\ \A a \in 1 .. n : Reaching(heights, LeftOf(st, a), st[a], HeightAt(heights, st[a]))
  BY DEF Rising
<1>2. /\ n \in Nat \ {0} /\ rest \in Seq(0 .. x - 1) /\ Len(rest) = n - 1
      /\ \A a \in 1 .. n - 1 : rest[a] = st[a]
  BY <1>1, FrontIs
<1>3. \A a \in 1 .. n : st[a] \in 0 .. x - 1
  BY <1>1, LenProperties
<1>4. rest = <<>> <=> n = 1
  <2>1. rest # <<>> => Len(rest) \in Nat \ {0}
    BY <1>2, EmptySeq
  <2>2. rest = <<>> => Len(rest) = 0
    OBVIOUS
  <2> HIDE DEF rest, n
  <2> QED
    BY <1>2, <2>1, <2>2
<1> HIDE DEF n, rest
<1>5. Base(st) = st[n] + 1
  <2>1. n + 1 # 1 /\ n + 1 - 1 = n
    BY <1>2
  <2> QED
    BY <2>1 DEF Base, LeftOf, n
<1>6. Base(rest) = LeftOf(rest, n) /\ LeftOf(rest, n) = LeftOf(st, n)
  <2>1. Len(rest) + 1 = n /\ (n # 1 => n - 1 \in 1 .. n - 1)
    BY <1>2
  <2>2. Base(rest) = LeftOf(rest, n)
    BY <2>1 DEF Base
  <2> QED
    BY <1>2, <2>1, <2>2 DEF LeftOf
<1>7. LeftOf(st, n) \in 0 .. st[n]
  <2>1. CASE n = 1
    BY <1>2, <1>3, <2>1 DEF LeftOf
  <2>2. CASE n # 1
    <3>1. n - 1 \in 1 .. n /\ n \in 1 .. n /\ n - 1 < n
      BY <1>2, <2>2
    <3>2. st[n - 1] < st[n] /\ st[n - 1] \in 0 .. x - 1 /\ st[n] \in 0 .. x - 1
      BY <1>1, <1>3, <3>1
    <3> QED
      BY <2>2, <3>2 DEF LeftOf
  <2> QED
    BY <2>1, <2>2
<1>8. Base(rest) = IF rest = <<>> THEN 0 ELSE Last(rest) + 1
  <2>1. CASE n = 1
    BY <1>4, <1>6, <2>1 DEF LeftOf
  <2>2. CASE n # 1
    <3>1. n - 1 \in 1 .. n - 1
      BY <1>2, <2>2
    <3>2. Last(rest) = st[n - 1]
      BY <1>2, <3>1 DEF Last
    <3> QED
      BY <1>4, <1>6, <2>2, <3>2 DEF LeftOf
  <2> QED
    BY <2>1, <2>2
<1>9. Rising(heights, rest, x)
  <2>1. \A a \in 1 .. n - 1 : a \in 1 .. n /\ rest[a] = st[a]
    BY <1>2
  <2>2. \A a \in 1 .. n - 1, b \in 1 .. n - 1 : a < b =>
           /\ rest[a] < rest[b]
           /\ HeightAt(heights, rest[a]) <= HeightAt(heights, rest[b])
    BY <1>1, <2>1
  <2>3. \A a \in 1 .. n - 1 : LeftOf(rest, a) = LeftOf(st, a)
    <3>1. \A a \in 1 .. n - 1 : a # 1 => a - 1 \in 1 .. n - 1
      BY <1>2
    <3> QED
      BY <2>1, <3>1 DEF LeftOf
  <2>4. \A a \in 1 .. n - 1 :
          Reaching(heights, LeftOf(rest, a), rest[a], HeightAt(heights, rest[a]))
    BY <1>1, <2>1, <2>3
  <2> QED
    BY <1>2, <2>2, <2>4 DEF Rising
<1>10. st[n] \in 0 .. x - 1
  <2>1. n \in 1 .. n
    BY <1>2
  <2> QED
    BY <1>3, <2>1
<1> QED
  BY <1>2, <1>5, <1>6, <1>7, <1>8, <1>9, <1>10 DEF n, rest, TopTaken

\* A column that ends is measured, or none ends.
LEMMA PopStep ==
  ASSUME NEW mask, NEW width \in Nat, NEW y \in Nat, NEW heights,
         Standing(mask, heights, width, y), NEW x \in 0 .. width, NEW least \in Nat,
         NEW s, Popping(mask, heights, s, x, least)
  PROVE  LET t == PopColumn(s, heights, x, y, HeightAt(heights, x))
         IN /\ Popping(mask, heights, t, x, least)
            /\ Popped(heights, s.stack, x) => t = s
            /\ ~Popped(heights, s.stack, x) => Len(t.stack) = Len(s.stack) - 1
<1> DEFINE H(z) == HeightAt(heights, z)
           h == H(x)
           t == PopColumn(s, heights, x, y, h)
           st == s.stack
           n == Len(st)
           rest == Front(st)
           core == s.core
<1>1. /\ s \in [stack : Seq(0 .. x - 1), core : Rects]
      /\ Rising(heights, st, x) /\ GoodCore(mask, core, least)
      /\ \A z \in Base(st) .. x - 1 : H(z) > h /\ \A a \in 1 .. n : H(z) >= H(st[a])
      /\ \A l \in Base(st) .. x - 1, k \in Nat :
           k > h /\ Reaching(heights, l, x - 1, k) => (x - l) * k <= AreaOf(core)
  BY DEF Popping
<1>2. x \in Nat /\ \A z : H(z) \in Nat
  <2>1. \A z : HeightAt(heights, z) \in Nat
    BY HeightIs
  <2> QED
    BY <2>1
<1>3. st \in Seq(0 .. x - 1) /\ core \in Rects
  BY <1>1
<1>4. st # <<>> => heights[Last(st)] = H(Last(st))
  <2>1. st # <<>> => Last(st) \in 0 .. x - 1
    BY <1>3, FrontIs
  <2>2. 0 .. x - 1 \subseteq DOMAIN heights
    BY DEF Standing
  <2> QED
    BY <2>1, <2>2 DEF HeightAt
<1>5. CASE st = <<>> \/ H(Last(st)) <= h
  <2>1. t = s
    BY <1>4, <1>5 DEF PopColumn
  <2>2. Popped(heights, st, x)
    BY <1>5 DEF Popped
  <2> QED
    BY <2>1, <2>2
<1>6. CASE st # <<>> /\ ~(H(Last(st)) <= h)
  <2> DEFINE g == H(st[n])
             left == Base(rest)
             found == [x |-> left, y |-> y - g + 1, width |-> x - left, height |-> g]
             next == IF AreaOf(found) > AreaOf(core) THEN found ELSE core
  <2>1. /\ n \in Nat \ {0} /\ st[n] \in 0 .. x - 1 /\ Base(st) = st[n] + 1
        /\ left = LeftOf(st, n) /\ left \in 0 .. st[n]
        /\ rest = <<>> => left = 0
        /\ rest # <<>> => left = Last(rest) + 1
        /\ Rising(heights, rest, x) /\ Len(rest) = n - 1
        /\ \A a \in 1 .. n - 1 : rest[a] = st[a]
    <3>1. Rising(heights, st, x) /\ st # <<>>
      BY <1>1, <1>6
    <3> HIDE DEF st, H, h, t, core
    <3>2. TopTaken(heights, st, x)
      BY <1>2, <3>1, FrontOfStack
    <3> QED
      BY <3>2 DEF TopTaken
  <2>2. Last(st) = st[n]
    BY DEF Last
  <2>3. t = [stack |-> rest, core |-> next]
    <3>1. heights[Last(st)] = g /\ ~(st = <<>> \/ heights[Last(st)] <= h)
      BY <1>4, <1>6, <2>2
    <3> QED
      BY <2>1, <3>1 DEF PopColumn
  <2>4. g \in Nat /\ g > h /\ h \in Nat /\ g # 0
    BY <1>2, <1>6, <2>2
  <2> HIDE DEF t, g, rest, n, H, h
  <2>5. Reaching(heights, left, x - 1, g)
    <3>1. n \in 1 .. n
      BY <2>1
    <3>2. \A z \in left .. st[n] : H(z) >= g
      BY <1>1, <2>1, <3>1 DEF Rising, Reaching, g, H, n
    <3>3. \A z \in Base(st) .. x - 1 : H(z) >= g
      BY <1>1, <3>1 DEF g
    <3>4. \A z \in left .. x - 1 : z \in left .. st[n] \/ z \in Base(st) .. x - 1
      BY <1>2, <2>1
    <3> QED
      BY <3>2, <3>3, <3>4 DEF Reaching, H
  <2>6. left \in 0 .. x - 1
    BY <1>2, <2>1
  <2> HIDE DEF left
  <2>7. found \in Rects /\ BoxOf(found) \subseteq mask
    <3>1. g \in Nat \ {0}
      BY <2>4
    <3> QED
      BY <2>5, <2>6, <3>1, BelowTops
  <2>8. AreaOf(found) = (x - left) * g
    BY DEF AreaOf
  <2> HIDE DEF found
  <2>9. AreaOf(found) \in Nat /\ AreaOf(core) \in Nat
    BY <1>3, <2>7, AreaNat
  <2>10. /\ next \in Rects /\ BoxOf(next) \subseteq mask /\ AreaOf(next) \in Nat
         /\ AreaOf(next) >= AreaOf(core) /\ AreaOf(next) >= AreaOf(found)
    BY <1>1, <2>7, <2>9 DEF GoodCore
  <2> HIDE DEF next
  <2>11. GoodCore(mask, next, least)
    BY <1>1, <2>9, <2>10 DEF GoodCore
  <2>12. \A z \in left .. x - 1 : H(z) > h /\ \A a \in 1 .. Len(rest) : H(z) >= H(rest[a])
    <3>1. \A z \in left .. x - 1 : H(z) >= g
      BY <2>5 DEF Reaching, H
    <3>2. \A a \in 1 .. n - 1 : a \in 1 .. n /\ n \in 1 .. n /\ a < n
      BY <2>1
    <3>3. \A a \in 1 .. n - 1 : H(rest[a]) <= g
      BY <1>1, <2>1, <3>2 DEF Rising, g, H, n
    <3>4. \A a \in 1 .. Len(rest) : a \in 1 .. n - 1
      BY <2>1
    <3> QED
      BY <1>2, <2>4, <3>1, <3>3, <3>4 DEF h
  <2>13. ASSUME NEW l \in left .. x - 1, NEW k \in Nat,
                k > h, Reaching(heights, l, x - 1, k)
         PROVE  (x - l) * k <= AreaOf(next)
    <3>1. l \in Nat /\ l <= x - 1 /\ left <= l /\ left \in Nat
      BY <1>2, <2>6
    <3>2. CASE l \in Base(st) .. x - 1
      <4>1. (x - l) * k <= AreaOf(core)
        BY <1>1, <2>13, <3>2
      <4>2. (x - l) * k \in Nat
        <5>1. x - l \in Nat
          BY <1>2, <3>1
        <5> QED
          BY <5>1
      <4> DEFINE p == (x - l) * k
      <4> HIDE DEF p
      <4>3. p <= AreaOf(next)
        BY <2>9, <2>10, <4>1, <4>2 DEF p
      <4> QED
        BY <4>3 DEF p
    <3>3. CASE l \notin Base(st) .. x - 1
      <4>1. st[n] \in l .. x - 1
        BY <1>2, <2>1, <3>1, <3>3
      <4>2. k <= g
        BY <2>13, <4>1 DEF Reaching, g, H
      <4>3. x - l \in Nat /\ x - left \in Nat /\ x - l <= x - left
        BY <1>2, <3>1
      <4>4. (x - l) * k \in Nat /\ (x - left) * g \in Nat /\ (x - l) * k <= (x - left) * g
        BY <2>4, <4>2, <4>3, SmallerArea
      <4> DEFINE p == (x - l) * k
      <4> HIDE DEF p
      <4>5. p \in Nat /\ p <= AreaOf(found)
        BY <2>8, <4>4 DEF p
      <4>6. p <= AreaOf(next)
        BY <2>9, <2>10, <4>5
      <4> QED
        BY <4>6 DEF p
    <3> QED
      BY <3>2, <3>3
  <2>14. rest \in Seq(0 .. x - 1)
    BY <2>1 DEF Rising
  <2>15. Popping(mask, heights, t, x, least)
    <3>1. t.stack = rest /\ t.core = next /\ t \in [stack : Seq(0 .. x - 1), core : Rects]
      BY <2>3, <2>10, <2>14
    <3>2. left = Base(rest)
      BY DEF left
    <3> QED
      BY <2>1, <2>11, <2>12, <2>13, <3>1, <3>2 DEF Popping, H, h
  <2>16. Len(t.stack) = n - 1
    BY <2>1, <2>3
  <2> QED
    BY <1>6, <2>15, <2>16 DEF t, n, h, H, Popped
<1> QED
  BY <1>5, <1>6

\* All columns that are higher than the one at x have ended.
PoppedAll(mask, heights, s, x, y, least) ==
  \E t : /\ Popping(mask, heights, t, x, least) /\ Popped(heights, t.stack, x)
         /\ PushColumn(s, heights, x, y) = [t EXCEPT !.stack = Append(@, x)]

LEMMA PopsAll ==
  ASSUME NEW mask, NEW width \in Nat, NEW y \in Nat, NEW heights,
         Standing(mask, heights, width, y), NEW x \in 0 .. width, NEW least \in Nat,
         NEW s, Popping(mask, heights, s, x, least)
  PROVE  PoppedAll(mask, heights, s, x, y, least)
<1> DEFINE h == HeightAt(heights, x)
           n == Len(s.stack)
           D == [stack : Seq(0 .. x - 1), core : Rects]
           Ended(t) == PopColumn(t, heights, x, y, h)
           P(t) == Popping(mask, heights, t, x, least)
           E(t) == Popped(heights, t.stack, x)
           InTurn(t, i) == P(t) /\ (E(t) \/ Len(t.stack) <= n - i)
           I == [i \in 0 .. n |-> {t \in D : InTurn(t, i)}]
           g == [i \in 1 .. n |-> [t \in D |-> Ended(t)]]
           Is(f) == f = [i \in 0 .. n |-> IF i = 0 THEN s ELSE Ended(f[i - 1])]
           p == CHOOSE f : Is(f)
<1>1. PushColumn(s, heights, x, y) = [p[n] EXCEPT !.stack = Append(@, x)]
  BY DEF PushColumn, HeightAt
<1>2. \A t : P(t) => t \in D /\ Len(t.stack) \in Nat
  BY DEF Popping
<1>3. P(s) /\ n \in Nat
  BY <1>2
<1>4. ASSUME NEW t, P(t)
      PROVE  /\ P(Ended(t))
             /\ E(t) => Ended(t) = t
             /\ ~E(t) => Len(Ended(t).stack) = Len(t.stack) - 1
  BY <1>4, PopStep
<1> HIDE DEF p, D, P, E, Ended, n
<1>5. ASSUME NEW i \in 1 .. n, NEW t, InTurn(t, i - 1)
      PROVE  InTurn(Ended(t), i)
  <2>1. CASE E(t)
    BY <1>4, <1>5, <2>1
  <2>2. CASE ~E(t)
    <3>1. Len(t.stack) <= n - (i - 1) /\ Len(t.stack) \in Nat
      BY <1>2, <1>5, <2>2
    <3>2. P(Ended(t)) /\ Len(Ended(t).stack) = Len(t.stack) - 1
      BY <1>4, <1>5, <2>2
    <3> QED
      BY <1>3, <3>1, <3>2
  <2> QED
    BY <2>1, <2>2
<1>6. InTurn(s, 0)
  BY <1>3 DEF n
<1>7. PICK f \in [0 .. n -> D] :
        /\ f[0] = s /\ \A i \in 1 .. n : f[i] = g[i][f[i - 1]]
        /\ \A i \in 0 .. n : f[i] \in I[i]
  <2>1. I \in [0 .. n -> SUBSET D] /\ s \in I[0]
    BY <1>2, <1>3, <1>6
  <2>2. \A i \in 1 .. n : \A d \in I[i - 1] : g[i][d] \in I[i]
    <3> TAKE i \in 1 .. n
    <3>1. i - 1 \in 0 .. n /\ i \in 0 .. n
      BY <1>3
    <3> TAKE d \in I[i - 1]
    <3>2. d \in D /\ InTurn(d, i - 1)
      BY <3>1
    <3>3. InTurn(Ended(d), i) /\ g[i][d] = Ended(d)
      BY <1>5, <3>2
    <3>4. Ended(d) \in D
      BY <1>2, <3>3
    <3> QED
      BY <3>1, <3>3, <3>4
  <2> HIDE DEF I, g
  <2>3. IteratedWithin(D, I, s, n, g)
    BY <1>3, <2>1, <2>2, IterateWithin
  <2> QED
    BY <2>3 DEF IteratedWithin
<1>8. Is(f)
  <2>1. \A i \in 0 .. n : i # 0 => i \in 1 .. n /\ i - 1 \in 0 .. n
    BY <1>3
  <2>2. \A i \in 0 .. n : f[i] = IF i = 0 THEN s ELSE Ended(f[i - 1])
    BY <1>7, <2>1
  <2> QED
    BY <1>7, <2>2
<1>9. Is(p)
  <2> HIDE DEF Is
  <2> QED
    BY <1>8 DEF p
<1>10. p[0] = s /\ \A i \in 1 .. n : p[i] = Ended(p[i - 1])
  <2>1. \A i \in 0 .. n : p[i] = IF i = 0 THEN s ELSE Ended(p[i - 1])
    BY <1>9
  <2>2. 0 \in 0 .. n /\ \A i \in 1 .. n : i \in 0 .. n /\ i # 0
    BY <1>3
  <2> QED
    BY <2>1, <2>2
<1>11. \A i \in 0 .. n : InTurn(p[i], i)
  <2> DEFINE G == {i \in 0 .. n : InTurn(p[i], i)}
  <2> HIDE DEF InTurn
  <2>1. 0 \in G
    BY <1>3, <1>6, <1>10
  <2>2. \A i \in 1 .. n : i - 1 \in G => i \in G
    BY <1>3, <1>5, <1>10
  <2> HIDE DEF G
  <2>3. \A i \in 0 .. n : i \in G
    BY <1>3, <2>1, <2>2, IndexInduction
  <2> QED
    BY <2>3 DEF G
<1>12. P(p[n]) /\ E(p[n])
  <2>1. P(p[n]) /\ (E(p[n]) \/ Len(p[n].stack) <= 0)
    BY <1>3, <1>11
  <2> DEFINE st == p[n].stack
  <2>2. st \in Seq(0 .. x - 1) /\ Len(st) \in Nat
    BY <1>2, <2>1 DEF D
  <2> HIDE DEF st
  <2>3. Len(st) <= 0 => st = <<>>
    BY <2>2
  <2>4. st = <<>> => E(p[n])
    BY DEF E, Popped, st
  <2> QED
    BY <2>1, <2>3, <2>4 DEF st
<1> QED
  BY <1>1, <1>12 DEF PoppedAll, P, E

\* A column is pushed.
LEMMA PushStep ==
  ASSUME NEW mask, NEW width \in Nat, NEW y \in Nat, NEW heights,
         Standing(mask, heights, width, y), NEW x \in 0 .. width, NEW least \in Nat,
         NEW s, Pushed(mask, heights, s, x, least)
  PROVE  Pushed(mask, heights, PushColumn(s, heights, x, y), x + 1, least)
<1> DEFINE H(z) == HeightAt(heights, z)
           h == H(x)
<1>1. /\ s \in [stack : Seq(0 .. x - 1), core : Rects]
      /\ Rising(heights, s.stack, x) /\ GoodCore(mask, s.core, least)
      /\ Base(s.stack) = x
      /\ \A l \in Nat, q \in Nat, k \in Nat :
           q + 1 < x /\ l <= q /\ k > H(q + 1) /\ Reaching(heights, l, q, k)
             => (q - l + 1) * k <= AreaOf(s.core)
  BY DEF Pushed
<1>2. x \in Nat /\ \A z : H(z) \in Nat
  <2>1. \A z : HeightAt(heights, z) \in Nat
    BY HeightIs
  <2> QED
    BY <2>1
<1>3. AreaOf(s.core) \in Nat /\ least <= AreaOf(s.core)
  BY <1>1, AreaNat DEF GoodCore
<1>4. PICK t : /\ Popping(mask, heights, t, x, AreaOf(s.core)) /\ Popped(heights, t.stack, x)
               /\ PushColumn(s, heights, x, y) = [t EXCEPT !.stack = Append(@, x)]
  <2>1. GoodCore(mask, s.core, AreaOf(s.core))
    BY <1>1, <1>3 DEF GoodCore
  <2>2. Base(s.stack) .. x - 1 = {}
    BY <1>1, <1>2
  <2>3. Popping(mask, heights, s, x, AreaOf(s.core))
    BY <1>1, <2>1, <2>2 DEF Popping
  <2>4. PoppedAll(mask, heights, s, x, y, AreaOf(s.core))
    BY <1>3, <2>3, PopsAll
  <2> QED
    BY <2>4 DEF PoppedAll
<1> DEFINE st == t.stack
           m == Len(st)
           new == Append(st, x)
           u == PushColumn(s, heights, x, y)
<1>5. /\ t \in [stack : Seq(0 .. x - 1), core : Rects]
      /\ Rising(heights, st, x) /\ GoodCore(mask, t.core, AreaOf(s.core))
      /\ \A z \in Base(st) .. x - 1 : H(z) > h
      /\ \A l \in Base(st) .. x - 1, k \in Nat :
           k > h /\ Reaching(heights, l, x - 1, k) => (x - l) * k <= AreaOf(t.core)
  BY <1>4 DEF Popping
<1>6. st \in Seq(0 .. x - 1) /\ m \in Nat /\ \A a \in 1 .. m : st[a] \in 0 .. x - 1
  BY <1>5, LenProperties
<1>7. u.stack = new /\ u.core = t.core
  BY <1>4, <1>5
<1>8. /\ new \in Seq(0 .. (x + 1) - 1) /\ Len(new) = m + 1 /\ new[m + 1] = x
      /\ \A a \in 1 .. m : new[a] = st[a]
  <2>1. x \in 0 .. (x + 1) - 1 /\ 0 .. x - 1 \subseteq 0 .. (x + 1) - 1
    BY <1>2
  <2> DEFINE S == 0 .. (x + 1) - 1
  <2>2. st \in Seq(S)
    BY <1>6, <2>1
  <2> HIDE DEF S, st
  <2>3. /\ Append(st, x) \in Seq(S) /\ Len(Append(st, x)) = Len(st) + 1
        /\ \A a \in 1 .. Len(st) : Append(st, x)[a] = st[a]
        /\ Append(st, x)[Len(st) + 1] = x
    BY <2>1, <2>2, AppendProperties DEF S
  <2> QED
    BY <2>3 DEF S
<1>9. st # <<>> => /\ m # 0 /\ Last(st) = st[m] /\ H(st[m]) <= h /\ Base(st) = st[m] + 1
  <2> HIDE DEF st, H
  <2>1. ASSUME st # <<>> PROVE /\ m # 0 /\ Last(st) = st[m] /\ Base(st) = st[m] + 1
    <3>1. TopTaken(heights, st, x)
      BY <1>2, <1>5, <2>1, FrontOfStack
    <3> QED
      BY <3>1 DEF TopTaken, Last
  <2>2. st # <<>> => H(Last(st)) <= h
    BY <1>4 DEF Popped, st, H
  <2> QED
    BY <2>1, <2>2
<1>10. st = <<>> => m = 0 /\ Base(st) = 0
  BY DEF Base, LeftOf
<1> HIDE DEF st, m, new, u, H, h
<1>11. Base(st) = LeftOf(new, m + 1) /\ Base(new) = x + 1
  <2>1. CASE st = <<>>
    BY <1>8, <1>10, <2>1 DEF Base, LeftOf
  <2>2. CASE st # <<>>
    <3>1. m \in 1 .. m /\ m + 1 # 1 /\ m + 1 - 1 = m /\ m + 2 # 1 /\ m + 2 - 1 = m + 1
      BY <1>6, <1>9, <2>2
    <3>2. LeftOf(new, m + 1) = st[m] + 1
      BY <1>8, <3>1 DEF LeftOf
    <3>3. Base(new) = LeftOf(new, m + 2)
      BY <1>6, <1>8 DEF Base
    <3>4. LeftOf(new, m + 2) = x + 1
      BY <1>8, <3>1 DEF LeftOf
    <3> QED
      BY <1>9, <2>2, <3>2, <3>3, <3>4
  <2> QED
    BY <2>1, <2>2
<1>12. \A a \in 1 .. m : st[a] < x /\ H(st[a]) <= h
  <2> TAKE a \in 1 .. m
  <2>1. st # <<>>
    BY <1>6, <1>10
  <2>2. m \in 1 .. m
    BY <1>6
  <2>3. a = m \/ a < m
    BY <1>6
  <2>4. H(st[a]) <= H(st[m])
    <3>1. CASE a = m
      BY <1>2, <3>1
    <3>2. CASE a < m
      BY <1>5, <2>2, <3>2 DEF Rising, H, m
    <3> QED
      BY <2>3, <3>1, <3>2
  <2>5. st[a] \in 0 .. x - 1
    BY <1>6
  <2>6. H(st[a]) \in Nat /\ H(st[m]) \in Nat /\ h \in Nat
    BY <1>2 DEF h
  <2> QED
    BY <1>2, <1>9, <2>1, <2>4, <2>5, <2>6
<1>13. Rising(heights, new, x + 1)
  <2>1. \A a \in 1 .. m + 1 : a \in 1 .. m \/ a = m + 1
    BY <1>6
  <2>2. ASSUME NEW a \in 1 .. m + 1, NEW b \in 1 .. m + 1, a < b
        PROVE  new[a] < new[b] /\ H(new[a]) <= H(new[b])
    <3>1. a \in 1 .. m
      BY <1>6, <2>2
    <3>2. CASE b \in 1 .. m
      BY <1>5, <1>8, <2>2, <3>1, <3>2 DEF Rising, H, m
    <3>3. CASE b = m + 1
      BY <1>8, <1>12, <3>1, <3>3 DEF h
    <3> QED
      BY <2>1, <3>2, <3>3
  <2>3. ASSUME NEW a \in 1 .. m + 1
        PROVE  Reaching(heights, LeftOf(new, a), new[a], H(new[a]))
    <3>1. CASE a \in 1 .. m
      <4>1. a # 1 => a - 1 \in 1 .. m
        BY <1>6, <3>1
      <4>2. LeftOf(new, a) = LeftOf(st, a) /\ new[a] = st[a]
        BY <1>8, <3>1, <4>1 DEF LeftOf
      <4> QED
        BY <1>5, <3>1, <4>2 DEF Rising, H, m
    <3>2. CASE a = m + 1
      <4>1. LeftOf(new, a) = Base(st) /\ new[a] = x
        BY <1>8, <1>11, <3>2
      <4>2. \A z \in Base(st) .. x : z \in Base(st) .. x - 1 \/ z = x
        <5>1. Base(st) \in Int
          <6>1. st # <<>> => st[m] \in Int
            <7>1. st # <<>> => m \in 1 .. m
              BY <1>6, <1>9
            <7> QED
              BY <1>6, <7>1
          <6> QED
            BY <1>9, <1>10, <6>1
        <5> QED
          BY <1>2, <5>1
      <4>3. \A z \in Base(st) .. x : H(z) >= h
        <5>1. \A z : H(z) \in Nat /\ (z = x => H(z) = h)
          BY <1>2 DEF h
        <5>2. h \in Nat
          BY <1>2 DEF h
        <5> QED
          BY <1>5, <4>2, <5>1, <5>2
      <4> QED
        BY <4>1, <4>3 DEF Reaching, H, h
    <3> QED
      BY <2>1, <3>1, <3>2
  <2> QED
    BY <1>8, <2>2, <2>3 DEF Rising, H
<1>14. t.core \in Rects /\ AreaOf(t.core) \in Nat /\ AreaOf(s.core) <= AreaOf(t.core)
       /\ GoodCore(mask, t.core, least)
  <2>1. t.core \in Rects
    BY <1>5
  <2>2. AreaOf(t.core) \in Nat
    BY <2>1, AreaNat
  <2> QED
    BY <1>3, <1>5, <2>1, <2>2 DEF GoodCore
<1>15. ASSUME NEW l \in Nat, NEW q \in Nat, NEW k \in Nat,
              q + 1 < x + 1, l <= q, k > H(q + 1), Reaching(heights, l, q, k)
       PROVE  (q - l + 1) * k <= AreaOf(t.core)
  <2>1. (q - l + 1) * k \in Nat
    <3>1. q - l + 1 \in Nat
      BY <1>15
    <3> QED
      BY <3>1
  <2>2. CASE q + 1 < x
    <3>1. (q - l + 1) * k <= AreaOf(s.core)
      BY <1>1, <1>15, <2>2 DEF H
    <3> DEFINE area == (q - l + 1) * k
    <3> HIDE DEF area
    <3>2. area <= AreaOf(t.core)
      BY <1>3, <1>14, <2>1, <3>1 DEF area
    <3> QED
      BY <3>2 DEF area
  <2>3. CASE q + 1 = x
    <3>1. q = x - 1 /\ k > h /\ q - l + 1 = x - l
      BY <1>15, <2>3 DEF h
    <3>2. l \in Base(st) .. x - 1
      <4>1. CASE st = <<>>
        BY <1>10, <1>15, <3>1, <4>1
      <4>2. CASE st # <<>>
        <5>1. m \in 1 .. m
          BY <1>6, <1>9, <4>2
        <5>2. st[m] \in 0 .. x - 1 /\ H(st[m]) <= h
          BY <1>6, <1>12, <5>1
        <5>3. st[m] \notin l .. q
          <6>1. st[m] \in l .. q => H(st[m]) >= k
            BY <1>15 DEF Reaching, H
          <6>2. H(st[m]) \in Nat /\ h \in Nat
            BY <1>2 DEF h
          <6> QED
            BY <3>1, <5>2, <6>1, <6>2
        <5>4. st[m] < l
          BY <1>15, <3>1, <5>2, <5>3
        <5> QED
          BY <1>9, <1>15, <3>1, <4>2, <5>2, <5>4
      <4> QED
        BY <4>1, <4>2
    <3> QED
      BY <1>5, <1>15, <3>1, <3>2
  <2> QED
    BY <1>2, <1>15, <2>2, <2>3
<1>16. u \in [stack : Seq(0 .. (x + 1) - 1), core : Rects]
  BY <1>4, <1>5, <1>8 DEF u, new, st
<1> QED
  BY <1>7, <1>11, <1>13, <1>14, <1>15, <1>16 DEF Pushed, u, H

\* A run of columns ends at a lower one, or at the end of the row.
LEMMA RunsEnd ==
  ASSUME NEW mask, NEW width \in Nat, NEW y \in Nat, NEW heights,
         Standing(mask, heights, width, y), NEW least, NEW s,
         Pushed(mask, heights, s, width + 1, least),
         NEW l \in 0 .. width - 1, NEW q \in l .. width - 1, NEW k \in Nat \ {0},
         Reaching(heights, l, q, k)
  PROVE  (q - l + 1) * k <= AreaOf(s.core)
<1> DEFINE H(z) == HeightAt(heights, z)
           S == {e \in Nat : e >= q /\ e <= width - 1 /\ H(e + 1) < k}
<1>1. \A z : H(z) \in Nat
  <2>1. \A z : HeightAt(heights, z) \in Nat
    BY HeightIs
  <2> QED
    BY <2>1
<1>2. width - 1 \in S
  <2>1. HeightAt(heights, width) = 0
    BY DEF Standing, HeightAt
  <2>2. width - 1 \in Nat /\ width - 1 + 1 = width /\ width - 1 >= q
    OBVIOUS
  <2> QED
    BY <2>1, <2>2
<1>3. PICK e \in S : \A v \in S : e <= v
  BY <1>2, LeastNatural
<1>4. e \in Nat /\ e >= q /\ e <= width - 1 /\ H(e + 1) < k
  BY <1>3
<1>5. Reaching(heights, l, e, k)
  <2>1. ASSUME NEW z \in l .. e PROVE H(z) >= k
    <3>1. CASE z <= q
      BY <3>1 DEF Reaching
    <3>2. CASE ~(z <= q)
      <4>1. z - 1 \in Nat /\ z - 1 >= q /\ z - 1 <= width - 1 /\ z - 1 < e /\ z - 1 + 1 = z
        BY <1>4, <3>2
      <4>2. z - 1 \notin S
        BY <1>3, <1>4, <4>1
      <4>3. ~(H(z) < k)
        <5> HIDE DEF H
        <5> QED
          BY <4>1, <4>2
      <4> QED
        BY <1>1, <4>3
    <3> QED
      BY <1>4, <3>1, <3>2
  <2> QED
    BY <2>1 DEF Reaching
<1>6. l \in Nat /\ q \in Nat /\ k \in Nat
  OBVIOUS
<1>7. (e - l + 1) * k <= AreaOf(s.core)
  <2>1. e + 1 < width + 1 /\ l <= e /\ k > H(e + 1)
    BY <1>1, <1>4
  <2> QED
    BY <1>4, <1>5, <1>6, <2>1 DEF Pushed
<1>8. AreaOf(s.core) \in Nat
  <2>1. s.core \in Rects
    BY DEF Pushed
  <2> QED
    BY <2>1, AreaNat
<1>9. /\ (q - l + 1) * k \in Nat /\ (e - l + 1) * k \in Nat
      /\ (q - l + 1) * k <= (e - l + 1) * k
  <2>1. q - l + 1 \in Nat /\ e - l + 1 \in Nat /\ q - l + 1 <= e - l + 1 /\ k <= k
    BY <1>4, <1>6
  <2> QED
    BY <1>6, <2>1, SmallerArea
<1> DEFINE a == (q - l + 1) * k
           b == (e - l + 1) * k
<1> HIDE DEF a, b
<1>10. a <= AreaOf(s.core)
  BY <1>7, <1>8, <1>9 DEF a, b
<1> QED
  BY <1>10 DEF a

\* The core after a row: no rectangle that ends in the row is larger.
Scanned(mask, heights, width, core, found) ==
  /\ GoodCore(mask, found, AreaOf(core))
  /\ \A l \in 0 .. width - 1 : \A q \in l .. width - 1 : \A k \in Nat \ {0} :
       Reaching(heights, l, q, k) => (q - l + 1) * k <= AreaOf(found)

LEMMA RowScanned ==
  ASSUME NEW mask, NEW width \in Nat, NEW y \in Nat, NEW heights,
         Standing(mask, heights, width, y), NEW core, GoodCore(mask, core, AreaOf(core))
  PROVE  Scanned(mask, heights, width, core, ScanRow(core, heights, width, y))
<1> DEFINE n == width + 1
           least == AreaOf(core)
           D == [stack : Seq(0 .. width), core : Rects]
           a == [stack |-> <<>>, core |-> core]
           Push(s, i) == PushColumn(s, heights, i - 1, y)
           P(s, i) == Pushed(mask, heights, s, i, least)
           I == [i \in 0 .. n |-> {s \in D : P(s, i)}]
           g == [i \in 1 .. n |-> [s \in D |-> Push(s, i)]]
           Is(f) == f = [i \in 0 .. n |-> IF i = 0 THEN a ELSE Push(f[i - 1], i)]
           p == CHOOSE f : Is(f)
<1>1. ScanRow(core, heights, width, y) = p[n].core
  BY DEF ScanRow
<1>2. least \in Nat /\ core \in Rects /\ n \in Nat
  BY AreaNat DEF GoodCore
<1>3. P(a, 0) /\ a \in D
  <2>1. a.stack = <<>> /\ a.core = core /\ a \in [stack : Seq(0 .. 0 - 1), core : Rects] /\ a \in D
    BY <1>2
  <2>2. Base(<<>>) = 0 /\ Len(<<>>) = 0
    BY DEF Base, LeftOf
  <2>3. Rising(heights, <<>>, 0)
    BY DEF Rising
  <2>4. \A q \in Nat : ~(q + 1 < 0)
    OBVIOUS
  <2> QED
    BY <2>1, <2>2, <2>3, <2>4 DEF Pushed
<1>4. ASSUME NEW i \in 1 .. n, NEW s, P(s, i - 1)
      PROVE  P(Push(s, i), i) /\ Push(s, i) \in D
  <2>1. i - 1 \in 0 .. width /\ (i - 1) + 1 = i
    OBVIOUS
  <2>2. Pushed(mask, heights, PushColumn(s, heights, i - 1, y), (i - 1) + 1, least)
    BY <1>2, <1>4, <2>1, PushStep
  <2>3. P(Push(s, i), i)
    BY <2>1, <2>2
  <2>4. Push(s, i) \in [stack : Seq(0 .. i - 1), core : Rects]
    BY <2>3 DEF Pushed
  <2>5. 0 .. i - 1 \subseteq 0 .. width
    OBVIOUS
  <2>6. Seq(0 .. i - 1) \subseteq Seq(0 .. width)
    BY <2>5
  <2> HIDE DEF Push
  <2> QED
    BY <2>3, <2>4, <2>6
<1> HIDE DEF p, D, P, Push, n, a, least
<1>5. PICK f \in [0 .. n -> D] :
        /\ f[0] = a /\ \A i \in 1 .. n : f[i] = g[i][f[i - 1]]
        /\ \A i \in 0 .. n : f[i] \in I[i]
  <2>1. I \in [0 .. n -> SUBSET D] /\ a \in I[0]
    BY <1>2, <1>3
  <2>2. \A i \in 1 .. n : \A d \in I[i - 1] : g[i][d] \in I[i]
    <3> TAKE i \in 1 .. n
    <3>1. i - 1 \in 0 .. n /\ i \in 0 .. n
      BY <1>2
    <3> TAKE d \in I[i - 1]
    <3>2. d \in D /\ P(d, i - 1)
      BY <3>1
    <3>3. P(Push(d, i), i) /\ Push(d, i) \in D /\ g[i][d] = Push(d, i)
      BY <1>4, <3>2
    <3> QED
      BY <3>1, <3>3
  <2> HIDE DEF I, g
  <2>3. IteratedWithin(D, I, a, n, g)
    BY <1>2, <2>1, <2>2, IterateWithin
  <2> QED
    BY <2>3 DEF IteratedWithin
<1>6. Is(f)
  <2>1. \A i \in 0 .. n : i # 0 => i \in 1 .. n /\ i - 1 \in 0 .. n
    BY <1>2
  <2>2. \A i \in 0 .. n : f[i] = IF i = 0 THEN a ELSE Push(f[i - 1], i)
    BY <1>5, <2>1
  <2> QED
    BY <1>5, <2>2
<1>7. Is(p)
  <2> HIDE DEF Is
  <2> QED
    BY <1>6 DEF p
<1>8. p[0] = a /\ \A i \in 1 .. n : p[i] = Push(p[i - 1], i)
  <2>1. \A i \in 0 .. n : p[i] = IF i = 0 THEN a ELSE Push(p[i - 1], i)
    BY <1>7
  <2>2. 0 \in 0 .. n /\ \A i \in 1 .. n : i \in 0 .. n /\ i # 0
    BY <1>2
  <2> QED
    BY <2>1, <2>2
<1>9. P(p[n], n)
  <2> DEFINE G == {i \in 0 .. n : P(p[i], i)}
  <2>1. 0 \in G
    BY <1>2, <1>3, <1>8
  <2>2. \A i \in 1 .. n : i - 1 \in G => i \in G
    BY <1>2, <1>4, <1>8
  <2> HIDE DEF G
  <2>3. \A i \in 0 .. n : i \in G
    BY <1>2, <2>1, <2>2, IndexInduction
  <2> QED
    BY <1>2, <2>3 DEF G
<1>10. Pushed(mask, heights, p[n], width + 1, AreaOf(core))
  BY <1>9 DEF P, n, least
<1>11. GoodCore(mask, p[n].core, AreaOf(core))
  BY <1>10 DEF Pushed
<1>12. \A l \in 0 .. width - 1 : \A q \in l .. width - 1 : \A k \in Nat \ {0} :
         Reaching(heights, l, q, k) => (q - l + 1) * k <= AreaOf(p[n].core)
  BY <1>10, RunsEnd
<1> QED
  BY <1>1, <1>11, <1>12 DEF Scanned

-----------------------------------------------------------------------------

\* The heights count all that is filled since y0.
Tall(mask, heights, width, y0, y) ==
  \A x \in 0 .. width - 1, k \in 0 .. y - y0 + 1 :
    (\A z \in y - k + 1 .. y : <<x, z>> \in mask) => heights[x] >= k

LEMMA Raised ==
  ASSUME NEW mask, NEW width \in Nat, NEW y0 \in Nat, NEW y \in Int, y + 1 >= y0,
         NEW heights, Standing(mask, heights, width, y), Tall(mask, heights, width, y0, y)
  PROVE  /\ Standing(mask, Raise(heights, mask, y + 1), width, y + 1)
         /\ Tall(mask, Raise(heights, mask, y + 1), width, y0, y + 1)
<1> DEFINE new == Raise(heights, mask, y + 1)
<1>1. /\ heights \in [0 .. width - 1 -> 0 .. y + 1]
      /\ \A x \in 0 .. width - 1 : heights[x] \in 0 .. y + 1
  BY DEF Standing
<1>2. new = [x \in 0 .. width - 1 |-> IF <<x, y + 1>> \in mask THEN heights[x] + 1 ELSE 0]
  BY <1>1 DEF Raise
<1> HIDE DEF new
<1>3. y + 1 \in Nat
  OBVIOUS
<1>4. \A x \in 0 .. width - 1 :
        new[x] = IF <<x, y + 1>> \in mask THEN heights[x] + 1 ELSE 0
  BY <1>2
<1>5. \A x \in 0 .. width - 1 : new[x] \in 0 .. (y + 1) + 1
  <2> TAKE x \in 0 .. width - 1
  <2> DEFINE e == heights[x]
  <2>1. e \in 0 .. y + 1
    BY <1>1
  <2>2. new[x] = e + 1 \/ new[x] = 0
    BY <1>4
  <2> HIDE DEF e
  <2> QED
    BY <1>3, <2>1, <2>2
<1>6. new \in [0 .. width - 1 -> 0 .. (y + 1) + 1]
  BY <1>2, <1>5
<1>7. ASSUME NEW x \in 0 .. width - 1, NEW z \in (y + 1) - new[x] + 1 .. y + 1
      PROVE  <<x, z>> \in mask
  <2>1. heights[x] \in 0 .. y + 1 /\ \A v \in y - heights[x] + 1 .. y : <<x, v>> \in mask
    BY <1>1 DEF Standing
  <2>2. CASE <<x, y + 1>> \in mask
    <3>1. new[x] = heights[x] + 1
      BY <1>4, <2>2
    <3>2. z = y + 1 \/ z \in y - heights[x] + 1 .. y
      BY <1>3, <2>1, <3>1
    <3> QED
      BY <2>1, <2>2, <3>2
  <2>3. CASE <<x, y + 1>> \notin mask
    <3>1. new[x] = 0
      BY <1>4, <2>3
    <3> QED
      BY <1>3, <3>1
  <2> QED
    BY <2>2, <2>3
<1>8. ASSUME NEW x \in 0 .. width - 1, NEW k \in 0 .. (y + 1) - y0 + 1,
             \A z \in (y + 1) - k + 1 .. y + 1 : <<x, z>> \in mask
      PROVE  new[x] >= k
  <2>1. new[x] \in 0 .. (y + 1) + 1 /\ heights[x] \in 0 .. y + 1
    BY <1>1, <1>5
  <2>2. CASE k = 0
    BY <2>1, <2>2
  <2>3. CASE k # 0
    <3>1. y + 1 \in (y + 1) - k + 1 .. y + 1
      BY <2>3
    <3>2. new[x] = heights[x] + 1
      BY <1>4, <1>8, <3>1
    <3>3. k - 1 \in 0 .. y - y0 + 1
      BY <2>3
    <3>4. \A z \in y - (k - 1) + 1 .. y : <<x, z>> \in mask
      <4>1. \A z \in y - (k - 1) + 1 .. y : z \in (y + 1) - k + 1 .. y + 1
        OBVIOUS
      <4> QED
        BY <1>8, <4>1
    <3>5. heights[x] >= k - 1
      BY <3>3, <3>4 DEF Tall
    <3> QED
      BY <2>1, <3>2, <3>5
  <2> QED
    BY <2>2, <2>3
<1> QED
  BY <1>6, <1>7, <1>8 DEF Standing, Tall, new

\* What has been measured in the rows below y0 + i.
Histogrammed(mask, s, width, y0, i, least) ==
  /\ s \in [heights : [0 .. width - 1 -> Nat], core : Rects]
  /\ Standing(mask, s.heights, width, y0 + i - 1)
  /\ Tall(mask, s.heights, width, y0, y0 + i - 1)
  /\ GoodCore(mask, s.core, least)
  /\ \A r \in Rects :
       /\ BoxOf(r) \subseteq mask /\ r.width # 0 /\ r.height # 0
       /\ y0 <= r.y /\ r.y + r.height <= y0 + i
       => AreaOf(r) <= AreaOf(s.core)

\* A row is measured.
LEMMA RowStep ==
  ASSUME NEW width \in Nat, NEW mask \in SUBSET ((0 .. width - 1) \X Nat), NEW y0 \in Nat,
         NEW i \in Nat \ {0}, NEW least \in Nat,
         NEW s, Histogrammed(mask, s, width, y0, i - 1, least)
  PROVE  LET up == Raise(s.heights, mask, y0 + i - 1)
         IN Histogrammed(mask,
              [heights |-> up, core |-> ScanRow(s.core, up, width, y0 + i - 1)],
              width, y0, i, least)
<1> DEFINE y == y0 + i - 1
           up == Raise(s.heights, mask, y)
           core == s.core
           found == ScanRow(core, up, width, y)
           t == [heights |-> up, core |-> found]
<1>1. /\ core \in Rects /\ GoodCore(mask, core, least)
      /\ Standing(mask, s.heights, width, y0 + (i - 1) - 1)
      /\ Tall(mask, s.heights, width, y0, y0 + (i - 1) - 1)
      /\ \A r \in Rects :
           /\ BoxOf(r) \subseteq mask /\ r.width # 0 /\ r.height # 0
           /\ y0 <= r.y /\ r.y + r.height <= y0 + (i - 1)
           => AreaOf(r) <= AreaOf(core)
  BY DEF Histogrammed
<1>2. y0 + (i - 1) - 1 \in Int /\ (y0 + (i - 1) - 1) + 1 = y /\ y >= y0 /\ y \in Nat
  OBVIOUS
<1>3. Standing(mask, up, width, y) /\ Tall(mask, up, width, y0, y)
  <2> DEFINE v == y0 + (i - 1) - 1
  <2>1. v \in Int /\ v + 1 = y /\ v + 1 >= y0
    BY <1>2
  <2> HIDE DEF v
  <2>2. /\ Standing(mask, Raise(s.heights, mask, v + 1), width, v + 1)
        /\ Tall(mask, Raise(s.heights, mask, v + 1), width, y0, v + 1)
    BY <1>1, <2>1, Raised DEF v
  <2> QED
    BY <2>1, <2>2
<1>4. AreaOf(core) \in Nat /\ GoodCore(mask, core, AreaOf(core))
  BY <1>1, AreaNat DEF GoodCore
<1> HIDE DEF up, y, core
<1>5. Scanned(mask, up, width, core, found)
  BY <1>2, <1>3, <1>4, RowScanned
<1> HIDE DEF found
<1>6. found \in Rects /\ AreaOf(found) \in Nat /\ AreaOf(core) <= AreaOf(found)
      /\ GoodCore(mask, found, least)
  <2>1. GoodCore(mask, found, AreaOf(core))
    BY <1>5 DEF Scanned
  <2>2. found \in Rects
    BY <2>1 DEF GoodCore
  <2>3. AreaOf(found) \in Nat
    BY <2>2, AreaNat
  <2> QED
    BY <1>1, <1>4, <2>1, <2>2, <2>3 DEF GoodCore
<1>7. ASSUME NEW r \in Rects, BoxOf(r) \subseteq mask, r.width # 0, r.height # 0,
             y0 <= r.y, r.y + r.height <= y0 + i
      PROVE  AreaOf(r) <= AreaOf(found)
  <2> DEFINE a == r.x
             b == r.y
             w == r.width
             k == r.height
  <2>1. a \in Nat /\ b \in Nat /\ w \in Nat \ {0} /\ k \in Nat \ {0} /\ AreaOf(r) = w * k
        /\ AreaOf(r) \in Nat
    BY <1>7, AreaNat DEF Rects
  <2>2. \A c \in a .. a + w - 1, z \in b .. b + k - 1 : <<c, z>> \in mask
    BY <1>7 DEF BoxOf
  <2>3. y0 <= b /\ b + k <= y0 + i
    BY <1>7
  <2> HIDE DEF a, b, w, k
  <2>4. CASE b + k <= y0 + (i - 1)
    <3>1. AreaOf(r) <= AreaOf(core)
      BY <1>1, <1>7, <2>3, <2>4 DEF b, k
    <3> QED
      BY <1>4, <1>6, <2>1, <3>1
  <2>5. CASE b + k = y0 + i
    <3>1. b = y - k + 1 /\ b + k - 1 = y /\ k \in 0 .. y - y0 + 1
      BY <2>1, <2>3, <2>5 DEF y
    <3>2. a \in 0 .. width - 1 /\ a + w - 1 \in a .. width - 1
      <4>1. b \in b .. b + k - 1 /\ a \in a .. a + w - 1 /\ a + w - 1 \in a .. a + w - 1
        BY <2>1
      <4>2. <<a, b>> \in mask /\ <<a + w - 1, b>> \in mask
        BY <2>2, <4>1
      <4>3. a \in 0 .. width - 1 /\ a + w - 1 \in 0 .. width - 1
        BY <4>2
      <4> QED
        BY <2>1, <4>3
    <3>3. \A c \in a .. a + w - 1 : HeightAt(up, c) >= k
      <4> TAKE c \in a .. a + w - 1
      <4>1. c \in 0 .. width - 1
        BY <2>1, <3>2
      <4>2. \A z \in y - k + 1 .. y : <<c, z>> \in mask
        BY <2>2, <3>1
      <4>3. up[c] >= k
        BY <1>3, <3>1, <4>1, <4>2 DEF Tall
      <4>4. c \in DOMAIN up
        BY <1>3, <4>1 DEF Standing
      <4> QED
        BY <4>3, <4>4 DEF HeightAt
    <3>4. Reaching(up, a, a + w - 1, k)
      BY <3>3 DEF Reaching
    <3> DEFINE q == a + w - 1
    <3>5. q - a + 1 = w
      BY <2>1
    <3>6. Reaching(up, a, q, k) /\ q \in a .. width - 1
      BY <3>2, <3>4
    <3> HIDE DEF q
    <3>7. (q - a + 1) * k <= AreaOf(found)
      BY <1>5, <2>1, <3>2, <3>6 DEF Scanned
    <3> QED
      BY <2>1, <3>5, <3>7
  <2> QED
    BY <2>1, <2>3, <2>4, <2>5
<1>8. up \in [0 .. width - 1 -> Nat]
  <2>1. up \in [0 .. width - 1 -> 0 .. y + 1]
    BY <1>3 DEF Standing
  <2>2. 0 .. y + 1 \subseteq Nat
    BY <1>2
  <2> QED
    BY <2>1, <2>2
<1>9. t.heights = up /\ t.core = found /\ t \in [heights : [0 .. width - 1 -> Nat], core : Rects]
  BY <1>6, <1>8
<1>10. Histogrammed(mask, t, width, y0, i, least)
  <2> HIDE DEF t
  <2> QED
    BY <1>3, <1>6, <1>7, <1>9 DEF Histogrammed, y
<1> QED
  BY <1>10 DEF t, found, core, up, y

\* All rows are measured.
Measured(mask, width, y0, y1, core, found) ==
  /\ GoodCore(mask, found, AreaOf(core))
  /\ \A r \in Rects :
       /\ BoxOf(r) \subseteq mask /\ r.width # 0 /\ r.height # 0
       /\ y0 <= r.y /\ r.y + r.height <= y1 + 1
       => AreaOf(r) <= AreaOf(found)

LEMMA HistogramIs ==
  ASSUME NEW width \in Nat, NEW mask \in SUBSET ((0 .. width - 1) \X Nat),
         NEW y0 \in Nat, NEW y1 \in Nat, y0 <= y1,
         NEW core, GoodCore(mask, core, AreaOf(core))
  PROVE  Measured(mask, width, y0, y1, core, Histogram(mask, core, width, y0, y1))
<1> DEFINE n == y1 - y0 + 1
           least == AreaOf(core)
           D == [heights : [0 .. width - 1 -> Nat], core : Rects]
           a == [heights |-> [x \in 0 .. width - 1 |-> 0], core |-> core]
           Above(s, i) == Raise(s.heights, mask, y0 + i - 1)
           NextRow(s, i) == [heights |-> Above(s, i), core |-> ScanRow(s.core, Above(s, i), width, y0 + i - 1)]
           P(s, i) == Histogrammed(mask, s, width, y0, i, least)
           I == [i \in 0 .. n |-> {s \in D : P(s, i)}]
           g == [i \in 1 .. n |-> [s \in D |-> NextRow(s, i)]]
           Is(f) == f = [i \in 0 .. n |-> IF i = 0 THEN a ELSE NextRow(f[i - 1], i)]
           p == CHOOSE f : Is(f)
<1>1. Histogram(mask, core, width, y0, y1) = p[n].core
  BY DEF Histogram
<1>2. least \in Nat /\ core \in Rects /\ n \in Nat
  BY AreaNat DEF GoodCore
<1>3. P(a, 0) /\ a \in D
  <2>1. /\ a.heights = [x \in 0 .. width - 1 |-> 0] /\ a.core = core
        /\ a \in D
    BY <1>2
  <2>2. y0 + 0 - 1 = y0 - 1 /\ (y0 - 1) + 1 = y0 /\ 0 \in 0 .. y0
    OBVIOUS
  <2>3. Standing(mask, a.heights, width, y0 - 1)
    <3>1. \A x \in 0 .. width - 1 : a.heights[x] = 0
      BY <2>1
    <3>2. y0 - 1 - 0 + 1 .. y0 - 1 = {}
      OBVIOUS
    <3>3. a.heights \in [0 .. width - 1 -> 0 .. (y0 - 1) + 1]
      BY <2>1, <2>2
    <3> HIDE DEF a
    <3> QED
      BY <3>1, <3>2, <3>3 DEF Standing
  <2>4. Tall(mask, a.heights, width, y0, y0 - 1)
    <3>1. \A k \in 0 .. (y0 - 1) - y0 + 1 : k = 0
      OBVIOUS
    <3>2. \A x \in 0 .. width - 1 : a.heights[x] = 0
      BY <2>1
    <3> HIDE DEF a
    <3> QED
      BY <3>1, <3>2 DEF Tall
  <2>5. ASSUME NEW r \in Rects, r.height # 0, y0 <= r.y, r.y + r.height <= y0 + 0
        PROVE  FALSE
    <3>1. r.y \in Nat /\ r.height \in Nat
      BY DEF Rects
    <3> QED
      BY <2>5, <3>1
  <2> HIDE DEF a
  <2> QED
    BY <2>1, <2>2, <2>3, <2>4, <2>5 DEF Histogrammed
<1>4. ASSUME NEW i \in 1 .. n, NEW s, P(s, i - 1)
      PROVE  P(NextRow(s, i), i) /\ NextRow(s, i) \in D
  <2>1. i \in Nat \ {0}
    OBVIOUS
  <2> HIDE DEF least
  <2>2. P(NextRow(s, i), i)
    BY <1>2, <1>4, <2>1, RowStep
  <2> HIDE DEF NextRow
  <2> QED
    BY <2>2 DEF Histogrammed
<1> HIDE DEF p, D, P, NextRow, n, a, least
<1>5. PICK f \in [0 .. n -> D] :
        /\ f[0] = a /\ \A i \in 1 .. n : f[i] = g[i][f[i - 1]]
        /\ \A i \in 0 .. n : f[i] \in I[i]
  <2>1. I \in [0 .. n -> SUBSET D] /\ a \in I[0]
    BY <1>2, <1>3
  <2>2. \A i \in 1 .. n : \A d \in I[i - 1] : g[i][d] \in I[i]
    <3> TAKE i \in 1 .. n
    <3>1. i - 1 \in 0 .. n /\ i \in 0 .. n
      BY <1>2
    <3> TAKE d \in I[i - 1]
    <3>2. d \in D /\ P(d, i - 1)
      BY <3>1
    <3>3. P(NextRow(d, i), i) /\ NextRow(d, i) \in D /\ g[i][d] = NextRow(d, i)
      BY <1>4, <3>2
    <3> QED
      BY <3>1, <3>3
  <2> HIDE DEF I, g
  <2>3. IteratedWithin(D, I, a, n, g)
    BY <1>2, <2>1, <2>2, IterateWithin
  <2> QED
    BY <2>3 DEF IteratedWithin
<1>6. Is(f)
  <2>1. \A i \in 0 .. n : i # 0 => i \in 1 .. n /\ i - 1 \in 0 .. n
    BY <1>2
  <2>2. \A i \in 0 .. n : f[i] = IF i = 0 THEN a ELSE NextRow(f[i - 1], i)
    BY <1>5, <2>1
  <2> QED
    BY <1>5, <2>2
<1>7. Is(p)
  <2> HIDE DEF Is
  <2> QED
    BY <1>6 DEF p
<1>8. p[0] = a /\ \A i \in 1 .. n : p[i] = NextRow(p[i - 1], i)
  <2>1. \A i \in 0 .. n : p[i] = IF i = 0 THEN a ELSE NextRow(p[i - 1], i)
    BY <1>7
  <2>2. 0 \in 0 .. n /\ \A i \in 1 .. n : i \in 0 .. n /\ i # 0
    BY <1>2
  <2> QED
    BY <2>1, <2>2
<1>9. P(p[n], n)
  <2> DEFINE G == {i \in 0 .. n : P(p[i], i)}
  <2>1. 0 \in G
    BY <1>2, <1>3, <1>8
  <2>2. \A i \in 1 .. n : i - 1 \in G => i \in G
    BY <1>2, <1>4, <1>8
  <2> HIDE DEF G
  <2>3. \A i \in 0 .. n : i \in G
    BY <1>2, <2>1, <2>2, IndexInduction
  <2> QED
    BY <1>2, <2>3 DEF G
<1>10. Histogrammed(mask, p[n], width, y0, n, AreaOf(core))
  BY <1>9 DEF P, least
<1>11. y0 + n = y1 + 1
  BY DEF n
<1> QED
  BY <1>1, <1>10, <1>11 DEF Measured, Histogrammed

-----------------------------------------------------------------------------

\* A stripe is filled, and is the whole box if all its columns are.
Striped(columns, width, y0, y1, found) ==
  /\ found \in Rects
  /\ found.x .. found.x + found.width - 1 \subseteq columns
  /\ found.y .. found.y + found.height - 1 \subseteq y0 .. y1
  /\ 0 .. width - 1 \subseteq columns => AreaOf(found) = width * (y1 - y0 + 1)

LEMMA StripeIs ==
  ASSUME NEW width \in Nat \ {0}, NEW columns \in SUBSET (0 .. width - 1),
         NEW y0 \in Nat, NEW y1 \in Nat, y0 <= y1
  PROVE  Striped(columns, width, y0, y1, Stripe(columns, width, y0, y1))
<1> DEFINE runs == {r \in (0 .. width) \X (0 .. width) :
                      r[1] < r[2] /\ r[1] .. r[2] - 1 \subseteq columns}
           lengths == {r[2] - r[1] : r \in runs}
           longest == Max(lengths)
           lefts == {r[1] : r \in {s \in runs : s[2] - s[1] = longest}}
           left == Min(lefts)
           found == Stripe(columns, width, y0, y1)
<1>1. ASSUME NEW r \in runs
      PROVE  /\ r[1] \in Nat /\ r[2] \in Nat /\ r[1] < r[2] /\ r[2] <= width
             /\ r[1] .. r[2] - 1 \subseteq columns
             /\ r[2] - r[1] \in Nat \ {0} /\ r[2] - r[1] <= width
  OBVIOUS
<1>2. found = IF runs = {} THEN NoCore
              ELSE [x |-> left, y |-> y0, width |-> longest, height |-> y1 - y0 + 1]
  BY DEF Stripe
<1>3. 0 .. width - 1 \subseteq columns => <<0, width>> \in runs
  OBVIOUS
<1> HIDE DEF runs, found
<1>4. CASE runs = {}
  <2>1. found = NoCore /\ ~(0 .. width - 1 \subseteq columns)
    BY <1>2, <1>3, <1>4
  <2>2. NoCore \in Rects /\ NoCore.x = 0 /\ NoCore.y = 0 /\ NoCore.width = 0 /\ NoCore.height = 0
    BY DEF NoCore, Rects
  <2>3. 0 .. 0 + 0 - 1 = {}
    OBVIOUS
  <2> QED
    BY <2>1, <2>2, <2>3 DEF Striped, found
<1>5. CASE runs # {}
  <2>1. longest \in lengths /\ \A v \in lengths : longest >= v
    <3>1. lengths \in SUBSET Nat /\ lengths # {} /\ \A v \in lengths : v <= width
      BY <1>1, <1>5
    <3> HIDE DEF lengths
    <3> QED
      BY <3>1, MaxIs
  <2> HIDE DEF longest
  <2>2. left \in lefts
    <3>1. lefts \in SUBSET Nat
      BY <1>1
    <3>2. lefts # {}
      BY <2>1
    <3> HIDE DEF lefts
    <3> QED
      BY <3>1, <3>2, MinIs
  <2> HIDE DEF left
  <2>3. PICK r \in runs : r[1] = left /\ r[2] - r[1] = longest
    BY <2>2
  <2>4. left \in Nat /\ longest \in Nat \ {0} /\ left + longest = r[2] /\ longest <= width
    BY <1>1, <2>3
  <2>5. found = [x |-> left, y |-> y0, width |-> longest, height |-> y1 - y0 + 1]
    BY <1>2, <1>5
  <2>6. /\ found.x = left /\ found.width = longest /\ found.y = y0
        /\ found.height = y1 - y0 + 1 /\ AreaOf(found) = longest * (y1 - y0 + 1)
    BY <2>5 DEF AreaOf
  <2>7. found \in Rects
    <3>1. y1 - y0 + 1 \in Nat
      OBVIOUS
    <3> QED
      BY <2>4, <2>5, <3>1 DEF Rects
  <2>8. left .. left + longest - 1 \subseteq columns
    BY <1>1, <2>3, <2>4
  <2>9. y0 .. y0 + (y1 - y0 + 1) - 1 \subseteq y0 .. y1
    OBVIOUS
  <2>10. 0 .. width - 1 \subseteq columns => longest = width
    <3>1. ASSUME 0 .. width - 1 \subseteq columns PROVE width - 0 \in lengths
      <4>1. <<0, width>> \in runs /\ <<0, width>>[1] = 0 /\ <<0, width>>[2] = width
        BY <1>3, <3>1
      <4> QED
        BY <4>1
    <3> HIDE DEF lengths
    <3> QED
      BY <2>1, <2>4, <3>1
  <2> QED
    BY <2>6, <2>7, <2>8, <2>9, <2>10 DEF Striped, found
<1> QED
  BY <1>4, <1>5

\* The core of a mask of any width and height is filled, and as large as any
\* filled rectangle, or nearly as the box around the mask.
LEMMA CoreFilledAll ==
  ASSUME NEW width \in 1 .. Widest, width <= Grid
  PROVE  CoreFilled(width)
<1> DEFINE PixelsIn(r) == (r.x .. r.x + r.width - 1) \X (r.y .. r.y + r.height - 1)
           Some == [x : 0 .. width - 1, y : 0 .. Grid - 1, width : 1 .. Grid, height : 1 .. Grid]
<1>1. width \in Nat \ {0} /\ Grid \in Nat
  BY WordFacts
<1>2. SUFFICES ASSUME NEW mask \in SUBSET ((0 .. width - 1) \X (0 .. Grid - 1))
               PROVE  LET core == FilledCore(mask, width)
                      IN /\ PixelsIn(core) \subseteq mask
                         /\ \A r \in Some : PixelsIn(r) \subseteq mask =>
                              10 * AreaOf(r) <= 10 * AreaOf(core) + width * Grid
  BY DEF CoreFilled
<1> DEFINE core == FilledCore(mask, width)
           ys == {px[2] : px \in mask}
           y0 == Min(ys)
           y1 == Max(ys)
           H == y1 - y0 + 1
           columns == {x \in 0 .. width - 1 : \A y \in y0 .. y1 : <<x, y>> \in mask}
           stripe == Stripe(columns, width, y0, y1)
<1>3. \A r : PixelsIn(r) = BoxOf(r)
  BY DEF BoxOf
<1>4. ASSUME NEW r \in Some
      PROVE  /\ r \in Rects /\ r.width # 0 /\ r.height # 0
             /\ BoxOf(r) \subseteq mask => mask # {}
  <2>1. /\ r.x \in Nat /\ r.y \in Nat /\ r.width \in Nat \ {0} /\ r.height \in Nat \ {0}
        /\ r \in Rects
    BY <1>1 DEF Rects
  <2>2. <<r.x, r.y>> \in BoxOf(r)
    BY <2>1 DEF BoxOf
  <2> QED
    BY <2>1, <2>2
<1>5. core = IF mask = {} THEN NoCore
             ELSE IF AreaOf(stripe) >= (width * H * 9) \div 10 THEN stripe
             ELSE Histogram(mask, stripe, width, y0, y1)
  BY DEF FilledCore
<1> HIDE DEF PixelsIn, Some, core
<1>6. CASE mask = {}
  <2>1. core = NoCore
    BY <1>5, <1>6
  <2>2. BoxOf(NoCore) \subseteq mask
    BY DEF NoCore, BoxOf
  <2> QED
    BY <1>3, <1>4, <1>6, <2>1, <2>2 DEF core
<1>7. CASE mask # {}
  <2>1. /\ y0 \in ys /\ y1 \in ys /\ \A y \in ys : y0 <= y /\ y <= y1
        /\ ys \subseteq 0 .. Grid - 1
    <3>1. \A px \in mask : px[2] \in 0 .. Grid - 1
      OBVIOUS
    <3>2. ys \in SUBSET Nat /\ ys # {} /\ \A y \in ys : y <= Grid
      BY <1>1, <1>7, <3>1
    <3>3. ys \subseteq 0 .. Grid - 1
      BY <3>1
    <3> HIDE DEF ys
    <3>4. y0 \in ys /\ \A y \in ys : y0 <= y
      BY <3>2, MinIs
    <3>5. y1 \in ys /\ \A y \in ys : y1 >= y
      BY <1>1, <3>2, MaxIs
    <3> HIDE DEF y0, y1
    <3>6. \A y \in ys : y \in Nat
      BY <3>2
    <3> QED
      BY <3>3, <3>4, <3>5, <3>6
  <2>2. \A x, y : <<x, y>> \in mask => x \in 0 .. width - 1 /\ y \in ys
    <3> TAKE x, y
    <3>1. <<x, y>>[2] = y
      OBVIOUS
    <3> QED
      BY <3>1
  <2> HIDE DEF ys, y0, y1
  <2>3. y0 \in Nat /\ y1 \in Nat /\ y0 <= y1 /\ y1 < Grid
    BY <1>1, <2>1
  <2>4. Striped(columns, width, y0, y1, stripe)
    BY <1>1, <2>3, StripeIs
  <2>5. stripe \in Rects /\ AreaOf(stripe) \in Nat /\ BoxOf(stripe) \subseteq mask
        /\ GoodCore(mask, stripe, AreaOf(stripe))
        /\ (0 .. width - 1 \subseteq columns => AreaOf(stripe) = width * H)
    <3>1. stripe \in Rects /\ AreaOf(stripe) \in Nat
      BY <2>4, AreaNat DEF Striped
    <3>2. \A x \in columns, y \in y0 .. y1 : <<x, y>> \in mask
      OBVIOUS
    <3> HIDE DEF stripe, columns
    <3>3. BoxOf(stripe) \subseteq mask
      BY <2>4, <3>2 DEF BoxOf, Striped
    <3>4. 0 .. width - 1 \subseteq columns => AreaOf(stripe) = width * H
      BY <2>4 DEF Striped
    <3> QED
      BY <3>1, <3>3, <3>4 DEF GoodCore
  <2> HIDE DEF stripe
  <2>6. ASSUME NEW r \in Some, BoxOf(r) \subseteq mask
        PROVE  /\ r \in Rects /\ r.width # 0 /\ r.height # 0 /\ AreaOf(r) \in Nat
               /\ y0 <= r.y /\ r.y + r.height <= y1 + 1
               /\ r.x + r.width <= width
               /\ r.width <= width /\ r.height <= H
    <3>1. r \in Rects /\ r.width # 0 /\ r.height # 0 /\ AreaOf(r) \in Nat
      BY <1>4, AreaNat
    <3> DEFINE a == r.x
               b == r.y
               w == r.width
               k == r.height
    <3>2. a \in Nat /\ b \in Nat /\ w \in Nat \ {0} /\ k \in Nat \ {0}
      BY <3>1 DEF Rects
    <3>3. \A c \in a .. a + w - 1, z \in b .. b + k - 1 : <<c, z>> \in mask
      BY <2>6 DEF BoxOf
    <3> HIDE DEF a, b, w, k
    <3>4. /\ a \in a .. a + w - 1 /\ a + w - 1 \in a .. a + w - 1
          /\ b \in b .. b + k - 1 /\ b + k - 1 \in b .. b + k - 1
      BY <3>2
    <3>5. <<a + w - 1, b>> \in mask /\ <<a, b + k - 1>> \in mask
      BY <3>3, <3>4
    <3>6. a + w - 1 \in 0 .. width - 1 /\ b \in ys /\ b + k - 1 \in ys
      BY <2>2, <3>5
    <3>7. y0 <= b /\ b + k - 1 <= y1
      BY <2>1, <3>6
    <3>8. y0 <= b /\ b + k <= y1 + 1 /\ a + w <= width /\ w <= width /\ k <= H
      BY <1>1, <2>3, <3>2, <3>6, <3>7
    <3> QED
      BY <3>1, <3>8 DEF a, b, w, k
  <2>7. H \in Nat /\ H <= Grid /\ H # 0
    BY <1>1, <2>3
  <2>8. CASE AreaOf(stripe) >= (width * H * 9) \div 10
    <3>1. core = stripe
      BY <1>5, <1>7, <2>8
    <3> DEFINE box == width * H
               area == AreaOf(stripe)
               limit == width * Grid
    <3>2. box \in Nat /\ limit \in Nat /\ box <= limit
      BY <1>1, <2>7, SmallerArea
    <3>3. area \in Nat /\ area >= (box * 9) \div 10
      BY <2>5, <2>8
    <3>4. 10 * area + 9 >= 9 * box
      <4> HIDE DEF box, area
      <4> QED
        BY <3>2, <3>3
    <3>5. ASSUME NEW r \in Some, BoxOf(r) \subseteq mask
          PROVE  10 * AreaOf(r) <= 10 * AreaOf(core) + width * Grid
      <4> DEFINE w == r.width
                 k == r.height
                 v == AreaOf(r)
      <4>1. /\ r \in Rects /\ r.width # 0 /\ r.height # 0 /\ AreaOf(r) \in Nat
            /\ y0 <= r.y /\ r.y + r.height <= y1 + 1
            /\ r.x + r.width <= width
            /\ r.width <= width /\ r.height <= H
        BY <2>6, <3>5
      <4>2. w \in Nat \ {0} /\ k \in Nat \ {0} /\ v \in Nat /\ v = w * k
            /\ w <= width /\ k <= H
        BY <4>1, AreaNat DEF Rects
      <4>3. v < box \/ (w = width /\ k = H)
        <5>1. CASE w # width
          <6>1. w <= width - 1 /\ width - 1 \in Nat
            BY <1>1, <4>2, <5>1
          <6>2. w * k <= (width - 1) * H /\ (width - 1) * H \in Nat
            BY <2>7, <4>2, <6>1, SmallerArea
          <6>3. (width - 1) * H = box - H
            BY <1>1, <2>7
          <6> HIDE DEF box, v
          <6> QED
            BY <2>7, <3>2, <4>2, <6>2, <6>3
        <5>2. CASE k # H
          <6>1. k <= H - 1 /\ H - 1 \in Nat
            BY <2>7, <4>2, <5>2
          <6>2. w * k <= width * (H - 1) /\ width * (H - 1) \in Nat
            BY <1>1, <4>2, <6>1, SmallerArea
          <6>3. width * (H - 1) = box - width
            BY <1>1, <2>7
          <6> HIDE DEF box, v
          <6> QED
            BY <1>1, <3>2, <4>2, <6>2, <6>3
        <5> QED
          BY <5>1, <5>2
      <4>4. CASE v < box
        <5> HIDE DEF v, box, area, limit
        <5>1. 10 * v <= 10 * area + limit
          BY <3>2, <3>3, <3>4, <4>2, <4>4
        <5> QED
          BY <3>1, <5>1 DEF v, area, limit
      <4>5. CASE w = width /\ k = H
        <5>1. r.x = 0 /\ r.y = y0
          <6>1. r.x \in Nat /\ r.y \in Nat
            BY <4>1 DEF Rects
          <6> QED
            BY <1>1, <2>3, <4>1, <4>5, <6>1
        <5>2. \A c \in 0 .. width - 1, z \in y0 .. y1 : <<c, z>> \in mask
          <6>1. 0 + width - 1 = width - 1 /\ y0 + H - 1 = y1
            BY <1>1, <2>3
          <6> QED
            BY <3>5, <4>5, <5>1, <6>1 DEF BoxOf
        <5>3. 0 .. width - 1 \subseteq columns
          BY <5>2
        <5>4. area = box /\ v = box
          BY <2>5, <4>2, <4>5, <5>3
        <5> HIDE DEF v, box, area, limit
        <5>5. 10 * v <= 10 * area + limit
          BY <3>2, <5>4
        <5> QED
          BY <3>1, <5>5 DEF v, area, limit
      <4> QED
        BY <4>3, <4>4, <4>5
    <3> QED
      BY <1>3, <2>5, <3>1, <3>5 DEF core
  <2>9. CASE ~(AreaOf(stripe) >= (width * H * 9) \div 10)
    <3>1. core = Histogram(mask, stripe, width, y0, y1)
      BY <1>5, <1>7, <2>9
    <3>2. Measured(mask, width, y0, y1, stripe, core)
      <4>1. mask \in SUBSET ((0 .. width - 1) \X Nat)
        BY <1>1
      <4> QED
        BY <1>1, <2>3, <2>5, <3>1, <4>1, HistogramIs
    <3>3. core \in Rects /\ BoxOf(core) \subseteq mask
      BY <3>2 DEF Measured, GoodCore
    <3>4. ASSUME NEW r \in Some, BoxOf(r) \subseteq mask
          PROVE  10 * AreaOf(r) <= 10 * AreaOf(core) + width * Grid
      <4>1. AreaOf(r) <= AreaOf(core) /\ AreaOf(r) \in Nat
        BY <2>6, <3>2, <3>4 DEF Measured
      <4>2. AreaOf(core) \in Nat
        BY <3>3, AreaNat
      <4>3. width * Grid \in Nat
        BY <1>1
      <4> DEFINE v == AreaOf(r)
                 area == AreaOf(core)
                 limit == width * Grid
      <4> HIDE DEF v, area, limit
      <4>4. 10 * v <= 10 * area + limit
        BY <4>1, <4>2, <4>3 DEF v, area, limit
      <4> QED
        BY <4>4 DEF v, area, limit
    <3> QED
      BY <1>3, <3>3, <3>4 DEF core
  <2> QED
    BY <2>8, <2>9
<1> QED
  BY <1>6, <1>7

\* Whatever the widths of masks, sheets and words are: rows are drawn exactly,
\* CPU and device move and compare their words as sets of pixels, and the core
\* of a mask is filled and as large as promised.
THEOREM AllWidthsExact == ExactWidths = 1 .. Widest
BY RowDrawnAll, RowsAgreeAll, CoreFilledAll DEF ExactWidths

\* A mask whose rows are all drawn has the pixels inside its contour, and its
\* words are used as these pixels would be.
THEOREM RowsExactAlways == PixelSpec => []RowsExact
<1>1. RowsExact
  <2>1. \A m \in Masks : Breadth[m] \in 1 .. Widest
    BY PixelAssumption DEF PixelAssumption
  <2> QED
    BY <2>1, AllWidthsExact DEF RowsExact
<1> QED
  BY <1>1, PTL

=============================================================================
