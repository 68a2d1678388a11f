----------------------------- MODULE SearchProofs -----------------------------
(***************************************************************************)
(* Proofs about the recursive search and the device that its workers share:*)
(* RecursiveSearch and GpuBroker, for every value of their constants.      *)
(*                                                                         *)
(* RecursiveSearch.  The invariant is about every frame of the stack and   *)
(* not only about the top one:                                             *)
(*   - the active frames hold the placements, one each (PathInv);          *)
(*   - a part is excluded as often as frames of it were skipped            *)
(*     (ExcludedInv), and no such frame is cut, because the best count     *)
(*     stays within what it allows (BoundInv);                             *)
(*   - the device differs from the worker's bitmap by the toggles that it  *)
(*     has not seen (DeviceInv);                                           *)
(*   - the bitmap is made of the masks that were toggled an odd number of  *)
(*     times, and the flags of a frame are right for the part of it that   *)
(*     the frames below have placed (TreeInv): its own subtree may do what *)
(*     it likes, in any direction of filling.                              *)
(* From there it follows that the flags are right when a frame goes on,    *)
(* and, when what is tested is also what is committed, that masks never    *)
(* overlap (CoverInv).                                                     *)
(*                                                                         *)
(* An exhausted search has lost no layout (CompleteInv): the argument is   *)
(* about the layouts that agree with the placements above a frame, place   *)
(* the same copies there and the later copies only behind them.            *)
(*   - Places are ordered as a frame tries them.  A layout that has a copy *)
(*     at an earlier place than the first in line is as good with the two  *)
(*     exchanged, so that layouts in order are enough.                     *)
(*   - A frame has explored the layouts whose first copy is at a place     *)
(*     that it is past, except for the place its child is exploring, and   *)
(*     once the skip branch is done those without a copy: none of them has *)
(*     more parts than the largest count published (ExploredInv).          *)
(*   - The workers that are done have explored the layouts of their share  *)
(*     of the root's angles (ExhaustedInv), and these are all layouts.     *)
(* Layouts of the lattice are all that Complete speaks of if the lattices  *)
(* miss nothing (Reached); AlignedReached says when they do not.           *)
(*                                                                         *)
(* GpuBroker.  For any number of workers, sheets and masks and any room on *)
(* the device: the lease excludes, the bitmap that a batch is filtered     *)
(* against is the one of its worker, and the room suffices.                *)
(***************************************************************************)
EXTENDS RecursiveSearch, GpuBroker, FiniteSetTheorems, SequenceTheorems,
        WellFoundedInduction, TLAPS

(* Numbers.                                                                *)

\* Division rounds down.
LEMMA Quotient ==
  ASSUME NEW a \in Nat, NEW b \in Nat \ {0}
  PROVE  /\ a \div b \in Nat
         /\ b * (a \div b) <= a /\ a < b * (a \div b) + b
OBVIOUS

\* The least multiple.
LEMMA QuotientAtLeast ==
  ASSUME NEW a \in Nat, NEW b \in Nat \ {0}, NEW c \in Nat
  PROVE  c <= a \div b <=> b * c <= a
<1> DEFINE q == a \div b
<1>1. q \in Nat /\ b * q <= a /\ a < b * q + b
  BY Quotient
<1> HIDE DEF q
<1>2. CASE c <= q
  <2>1. b * c <= b * q BY <1>1, <1>2
  <2> QED BY <1>1, <1>2, <2>1 DEF q
<1>3. CASE c > q
  <2>1. b * c >= b * (q + 1) BY <1>1, <1>3
  <2>2. b * (q + 1) = b * q + b BY <1>1
  <2> QED BY <1>1, <1>3, <2>1, <2>2 DEF q
<1> QED BY <1>1, <1>2, <1>3

-----------------------------------------------------------------------------
(* The recursive search.  What the invariant says of frames below          *)
(* the top is stated by operators of the problem, a depth, a sheet and the *)
(* placements.                                                             *)

\* What a frame holds.
Frames == [sheet : Nat \ {0}, next : Nat, first : Nat, cursor : Nat,
           size : Nat \ {0}, flags : Seq(BOOLEAN), skipVisited : BOOLEAN,
           active : BOOLEAN, initialized : BOOLEAN, index : Nat,
           chosen : [x : Nat, y : Nat, r : Nat]]

\* The placements of a problem, and their pixels.
PlacementsOf(pr) == [part : 1 .. Len(pr.parts), sheet : 1 .. Len(pr.sheets),
                     r : Nat, x : Nat, y : Nat]
PixelsOf(pr, p) == Shifted(pr.parts[p.part][p.r + 1].pixels, p)
CoreOf(pr, p) == Shifted(pr.parts[p.part][p.r + 1].core, p)
HaloOf(pr, p) == Shifted(pr.parts[p.part][p.r + 1].halo, p)

\* A layout that keeps its clearances and places no part twice.
Sound(pr, P) ==
  /\ P \subseteq PlacementsOf(pr)
  /\ \A p, q \in P : p # q =>
       /\ p.part # q.part
       /\ p.sheet = q.sheet => HaloOf(pr, p) \cap HaloOf(pr, q) = {}
  /\ \A p \in P : CoreOf(pr, p) \subseteq pr.sheets[p.sheet].inner

\* The frames of a stack in whose skip branch the search is, for a policy.
Skipped(stk, pr, k) ==
  {d \in 1 .. Len(stk) : stk[d].skipVisited /\ pr.parts[d] = k}

\* The input is one of those assumed.
InputInv == problem \in Problems /\ flow \in Flows /\ broker \in BOOLEAN

\* The frames: one that was skipped has left its sheets and has placed nothing,
\* one with flags is on a sheet with candidates, and the placements are those
\* of the active frames.
PathInv ==
  /\ stack \in Seq(Frames)
  /\ Len(stack) <= Len(problem.parts) + 1
  /\ \A d \in 1 .. Len(stack) : stack[d].skipVisited =>
       /\ d <= Len(problem.parts)
       /\ stack[d].initialized /\ ~stack[d].active
       /\ stack[d].sheet > Len(problem.sheets)
  /\ \A d \in 1 .. Len(stack) : stack[d].flags # <<>> =>
       /\ d <= Len(problem.parts)
       /\ stack[d].initialized
       /\ stack[d].sheet <= Len(problem.sheets)
       /\ RowsOf(problem, d, stack[d].sheet) > 0
  /\ Sound(problem, placed)
  /\ \A p \in placed : p.part <= Len(stack) /\ stack[p.part].active

\* What the frames below a depth have placed.
Below(P, d) == {p \in P : p.part < d}

\* The best count does not exceed what a skipped frame allows, so that it is
\* left by Leave, which gives its exclusion back, and never by Cut.  A worker
\* that does not own the branch in which the first part is skipped is not in it.
BoundInv ==
  \A d \in 1 .. Len(stack) : stack[d].skipVisited =>
    /\ best <= Cardinality(Below(placed, d)) + (Len(problem.parts) + 1 - d)
    /\ d = 1 /\ Workers > 1 => RootFirst = 0

\* What was published is a sound layout.
ResultInv ==
  /\ Sound(problem, layout)
  /\ best = Cardinality(layout)
  /\ overall \in 0 .. Len(problem.parts)

\* A policy is excluded once for each of its frames that was skipped.
ExcludedInv ==
  /\ excluded \in [Range(problem.parts) -> Nat]
  /\ \A k \in Range(problem.parts) : excluded[k] = Cardinality(Skipped(stack, problem, k))

\* The bitmap on the device and the toggles since then make up the bitmap.
DeviceInv ==
  /\ occupied = [s \in 1 .. Len(problem.sheets) |-> occupied[s]]
  /\ gpu = [on |-> gpu.on, sheet |-> gpu.sheet, bits |-> gpu.bits, updates |-> gpu.updates]
  /\ gpu.updates = [s \in 1 .. Len(problem.sheets) |-> gpu.updates[s]]
  /\ gpu.on \in BOOLEAN
  /\ gpu.on => broker
  /\ gpu.sheet \in 0 .. Len(problem.sheets)
  /\ gpu.on /\ gpu.sheet # 0 =>
       SymDiff(gpu.bits, gpu.updates[gpu.sheet]) = occupied[gpu.sheet]

\* The variables that no frame depends on.
WorkerInv ==
  /\ worker \in 0 .. Workers - 1
  /\ exhausted \in BOOLEAN
  /\ phase \in {"searching", "done", "failed"}

SearchInv ==
  InputInv /\ PathInv /\ BoundInv /\ ResultInv /\ ExcludedInv /\ DeviceInv /\ WorkerInv

\* The candidate with an index in a frame at a depth: a mask and its position.
CandidateOf(pr, fl, wk, d, s, i) ==
  LET workers == Min({Threads, Len(pr.parts[1])})
      shares == d = 1 /\ workers > 1
      rootFirst == (Len(pr.parts[1]) * wk) \div workers
      rootCount == ((Len(pr.parts[1]) * (wk + 1)) \div workers) - rootFirst
      firstMask == IF shares THEN rootFirst ELSE 0
      masks == IF shares THEN rootCount ELSE Len(pr.parts[d])
      columns == ColumnsOf(pr, d, s)
      height == RowsOf(pr, d, s)
      cell == i \div masks
      byColumn == fl \in {"automatic", "left", "right"}
      x == IF byColumn THEN cell \div height ELSE cell % columns
      y == IF byColumn THEN cell % height ELSE cell \div columns
  IN [r |-> firstMask + (i % masks),
      x |-> (IF fl = "right" THEN columns - 1 - x ELSE x) * pr.step + EdgeOf(pr),
      y |-> (IF fl = "top" THEN height - 1 - y ELSE y) * pr.step + EdgeOf(pr)]

\* A candidate fits beside these bits.
FitsAt(pr, d, s, bits, c) ==
  LET pixels == Shifted(pr.parts[d][c.r + 1].pixels, c)
  IN pixels \subseteq pr.sheets[s].pixels /\ pixels \cap bits = {}

\* The pixels of the masks on a sheet, and those that an odd number of them has.
Covered(pr, P, s) == UNION {PixelsOf(pr, p) : p \in {q \in P : q.sheet = s}}

Toggled(pr, P, s) ==
  {x \in Covered(pr, P, s) :
     Cardinality({p \in P : p.sheet = s /\ x \in PixelsOf(pr, p)}) % 2 = 1}

\* The flags of every frame are right for what the frames below have placed.
FlagsInv ==
  \A d \in 1 .. Len(stack) : \A c \in 1 .. Len(stack[d].flags) :
    stack[d].flags[c] <=>
      FitsAt(problem, d, stack[d].sheet,
             Toggled(problem, Below(placed, d), stack[d].sheet),
             CandidateOf(problem, flow, worker, d, stack[d].sheet,
                         stack[d].first + c - 1))

\* The bitmap is what the placements have toggled.
TreeInv ==
  /\ \A s \in 1 .. Len(problem.sheets) : occupied[s] = Toggled(problem, placed, s)
  /\ FlagsInv

\* Filled from the left, a sheet is covered by masks that do not overlap.
CoverInv ==
  flow \in {"automatic", "left"} =>
    /\ \A s \in 1 .. Len(problem.sheets) : occupied[s] = Covered(problem, placed, s)
    /\ \A p, q \in placed :
         p # q /\ p.sheet = q.sheet => PixelsOf(problem, p) \cap PixelsOf(problem, q) = {}

-----------------------------------------------------------------------------
(* Numbers and the input.                                                  *)

\* A set of numbers has a least one.
LEMMA LeastNatural ==
  ASSUME NEW S \in SUBSET Nat, S # {}
  PROVE  \E n \in S : \A m \in S : n <= m
<1>1. PICK n \in S : \A m \in S : <<m, n>> \notin OpToRel(<, Nat)
  BY WFMin, NatLessThanWellFounded, Zenon
<1>2. \A m \in S : ~(m < n)
  BY <1>1 DEF OpToRel
<1>3. QED
  BY <1>2

\* A set of numbers has a least one, and if it is bounded a largest one.
LEMMA MinIs ==
  ASSUME NEW S \in SUBSET Nat, S # {}
  PROVE  Min(S) \in S /\ \A y \in S : Min(S) <= y
BY LeastNatural DEF Min

\* A set of numbers that is bounded has a largest one.
LEMMA MaxIs ==
  ASSUME NEW S \in SUBSET Nat, S # {}, NEW n \in Nat, \A y \in S : y <= n
  PROVE  Max(S) \in S /\ \A y \in S : Max(S) >= y
<1> DEFINE T == {n - y : y \in S}
<1>1. T \in SUBSET Nat /\ T # {}
  <2>1. \A y \in S : n - y \in Nat
    OBVIOUS
  <2> QED
    BY <2>1
<1>2. PICK t \in T : \A u \in T : t <= u
  BY <1>1, LeastNatural
<1>3. PICK x \in S : t = n - x
  BY <1>2
<1>4. \A y \in S : n - x <= n - y
  BY <1>2, <1>3
<1>5. \A y \in S : x >= y
  BY <1>4
<1> QED
  BY <1>5 DEF Max

\* The smaller of two.
LEMMA MinOfTwo ==
  ASSUME NEW a \in Nat, NEW b \in Nat
  PROVE  Min({a, b}) = IF a <= b THEN a ELSE b
BY MinIs

\* The larger of two.
LEMMA MaxOfTwo ==
  ASSUME NEW a \in Nat, NEW b \in Nat
  PROVE  Max({a, b}) = IF a <= b THEN b ELSE a
<1>1. /\ {a, b} \in SUBSET Nat /\ {a, b} # {} /\ a + b \in Nat
      /\ \A y \in {a, b} : y <= a + b
  OBVIOUS
<1>2. Max({a, b}) \in {a, b} /\ \A y \in {a, b} : Max({a, b}) >= y
  BY <1>1, MaxIs
<1> QED
  BY <1>2

\* What the assumption says about the input.
LEMMA InputFacts ==
  ASSUME InputInv
  PROVE  /\ problem.parts \in Seq(Policies) /\ Len(problem.parts) \in Nat \ {0}
         /\ problem.sheets \in Seq(SheetRecords) /\ Len(problem.sheets) \in Nat
         /\ DOMAIN problem.sheets = 1 .. Len(problem.sheets)
         /\ DOMAIN problem.parts = 1 .. Len(problem.parts)
         /\ problem.step \in Nat \ {0} /\ problem.spacing \in Nat
<1>1. /\ problem.parts \in Seq(Policies) /\ problem.parts # <<>>
      /\ problem.sheets \in Seq(SheetRecords)
      /\ problem.step \in Nat \ {0} /\ problem.spacing \in Nat
  BY SearchAssumption DEF SearchAssumption, InputInv
<1> QED
  BY <1>1

\* Every part has a mask.
LEMMA PolicyFacts ==
  ASSUME InputInv, NEW d \in 1 .. Len(problem.parts)
  PROVE  /\ problem.parts[d] \in Seq(MaskRecords)
         /\ Len(problem.parts[d]) \in Nat \ {0}
         /\ DOMAIN problem.parts[d] = 1 .. Len(problem.parts[d])
         /\ problem.parts[d] \in Range(problem.parts)
<1>1. problem.parts[d] \in Policies /\ problem.parts[d] \in Range(problem.parts)
  BY InputFacts DEF Range
<1>2. problem.parts[d] \in Seq(MaskRecords) /\ problem.parts[d] # <<>>
  BY <1>1 DEF Policies
<1> QED
  BY <1>1, <1>2

\* There is a worker, and no more than the first part has angles.
LEMMA WorkerFacts ==
  ASSUME InputInv
  PROVE  Workers \in Nat \ {0} /\ Workers <= Len(problem.parts[1])
<1>1. Len(problem.parts[1]) \in Nat \ {0}
  BY InputFacts, PolicyFacts
<1> QED
  BY <1>1, MinOfTwo, SearchAssumption DEF SearchAssumption, Workers, Parts

\* Every worker has an angle of the first part.
LEMMA RootFacts ==
  ASSUME InputInv, worker \in 0 .. Workers - 1
  PROVE  RootFirst \in Nat /\ RootCount \in Nat \ {0}
<1> DEFINE L == Len(problem.parts[1])
           W == Workers
           q == (L * worker) \div W
           r == (L * (worker + 1)) \div W
<1>1. L \in Nat /\ W \in Nat \ {0} /\ W <= L /\ worker \in Nat
  BY InputFacts, PolicyFacts, WorkerFacts
<1> HIDE DEF L, W
<1>2. L * worker \in Nat /\ L * (worker + 1) \in Nat
      /\ L * (worker + 1) = L * worker + L
  BY <1>1
<1>3. q \in Nat /\ W * q <= L * worker /\ r \in Nat
  BY <1>1, <1>2, Quotient
<1> HIDE DEF q, r
<1>4. W * (q + 1) = W * q + W /\ W * q \in Nat
  BY <1>1, <1>3
<1>5. W * (q + 1) <= L * (worker + 1)
  BY <1>1, <1>2, <1>3, <1>4
<1>6. q + 1 <= r
  BY <1>1, <1>2, <1>3, <1>5, QuotientAtLeast DEF r
<1>7. RootFirst = q /\ RootCount = r - q
  BY DEF RootFirst, RootCount, Parts, L, W, q, r
<1> QED
  BY <1>3, <1>6, <1>7

\* The lattice has natural numbers of columns and rows.
LEMMA GridFacts ==
  ASSUME InputInv, NEW d \in 1 .. Len(problem.parts),
         NEW s \in 1 .. Len(problem.sheets)
  PROVE  /\ EdgeOf(problem) \in Nat
         /\ ColumnsOf(problem, d, s) \in Nat /\ RowsOf(problem, d, s) \in Nat
<1>1. /\ problem.step \in Nat \ {0} /\ problem.spacing \in Nat
      /\ problem.sheets[s] \in SheetRecords
      /\ problem.parts[d] \in Seq(MaskRecords) /\ 1 \in DOMAIN problem.parts[d]
      /\ DOMAIN problem.parts[d] = 1 .. Len(problem.parts[d])
  BY InputFacts, PolicyFacts
<1>2. EdgeOf(problem) \in Nat
  <2> DEFINE q == (problem.spacing + problem.step - 1) \div problem.step
  <2>1. problem.spacing + problem.step - 1 \in Nat
    BY <1>1
  <2>2. q \in Nat
    BY <1>1, <2>1, Quotient
  <2>3. EdgeOf(problem) = q * problem.step
    BY DEF EdgeOf
  <2> HIDE DEF q
  <2> QED
    BY <1>1, <2>2, <2>3
<1>3. \A i \in DOMAIN problem.parts[d] : problem.parts[d][i] \in MaskRecords
  BY <1>1
<1> DEFINE Ws == {mask.w : mask \in Range(problem.parts[d])}
           Hs == {mask.h : mask \in Range(problem.parts[d])}
<1>4. Ws \in SUBSET Nat /\ Ws # {} /\ Hs \in SUBSET Nat /\ Hs # {}
  <2>1. \A mask \in Range(problem.parts[d]) : mask.w \in Nat /\ mask.h \in Nat
    BY <1>3 DEF Range, MaskRecords
  <2>2. problem.parts[d][1] \in Range(problem.parts[d])
    BY <1>1 DEF Range
  <2> QED
    BY <2>1, <2>2
<1>5. Min(Ws) \in Nat /\ Min(Hs) \in Nat
  BY <1>4, MinIs
<1>6. ASSUME NEW side \in Nat, NEW smallest \in Nat
      PROVE  Positions(problem, side, smallest) \in Nat
  <2> DEFINE e == EdgeOf(problem)
  <2>1. e \in Nat
    BY <1>2
  <2> HIDE DEF e
  <2>2. CASE side < 2 * e + smallest
    BY <2>2 DEF Positions, e
  <2>3. CASE ~(side < 2 * e + smallest)
    <3>1. side - 2 * e - smallest \in Nat
      BY <2>1, <2>3
    <3>2. (side - 2 * e - smallest) \div problem.step \in Nat
      BY <1>1, <3>1, Quotient
    <3> QED
      BY <2>3, <3>2 DEF Positions, e
  <2> QED
    BY <2>2, <2>3
<1>7. problem.sheets[s].w \in Nat /\ problem.sheets[s].h \in Nat
  BY <1>1 DEF SheetRecords
<1> HIDE DEF Ws, Hs
<1> QED
  BY <1>2, <1>5, <1>6, <1>7 DEF ColumnsOf, RowsOf, Ws, Hs

\* The top frame, and the candidates of its sheet.
LEMMA TopFacts ==
  ASSUME SearchInv, Searching
  PROVE  /\ Depth \in 1 .. Len(problem.parts) + 1
         /\ Top \in Frames
         /\ stack \in Seq(Frames)
         /\ DOMAIN stack = 1 .. Depth
BY InputFacts DEF SearchInv, PathInv, Searching, Depth, Top

\* A frame that is on a sheet has a part and that sheet.
LEMMA OnSheetFacts ==
  ASSUME SearchInv, OnSheet
  PROVE  /\ Depth \in 1 .. Len(problem.parts)
         /\ Top.sheet \in 1 .. Len(problem.sheets)
<1>1. Searching /\ Depth <= Len(problem.parts) /\ Top.sheet <= Len(problem.sheets)
  BY TopFacts, InputFacts DEF OnSheet, Ready, Bounded, Parts, Sheets, SearchInv
<1> QED
  BY <1>1, TopFacts, InputFacts DEF Frames, SearchInv

\* The candidates of the top frame are numbered, and there are rows if there
\* is one.
LEMMA CandidateFacts ==
  ASSUME SearchInv, OnSheet
  PROVE  /\ Columns(Top.sheet) \in Nat /\ Rows(Top.sheet) \in Nat
         /\ Columns(Top.sheet) = ColumnsOf(problem, Depth, Top.sheet)
         /\ Rows(Top.sheet) = RowsOf(problem, Depth, Top.sheet)
         /\ FirstMask \in Nat /\ MaskCount \in Nat \ {0} /\ Edge \in Nat
         /\ Total(Top.sheet) \in Nat
         /\ Total(Top.sheet) > 0 => Rows(Top.sheet) > 0
<1>1. /\ Depth \in 1 .. Len(problem.parts)
      /\ Top.sheet \in 1 .. Len(problem.sheets)
      /\ InputInv /\ worker \in 0 .. Workers - 1
  BY OnSheetFacts DEF SearchInv, WorkerInv
<1>2. /\ Columns(Top.sheet) = ColumnsOf(problem, Depth, Top.sheet)
      /\ Rows(Top.sheet) = RowsOf(problem, Depth, Top.sheet)
      /\ Edge = EdgeOf(problem)
  BY DEF Columns, Rows, Edge
<1>3. /\ Columns(Top.sheet) \in Nat /\ Rows(Top.sheet) \in Nat /\ Edge \in Nat
  BY <1>1, <1>2, GridFacts
<1>4. FirstMask \in Nat /\ MaskCount \in Nat \ {0}
  BY <1>1, RootFacts, PolicyFacts DEF FirstMask, MaskCount, Parts
<1>5. Columns(Top.sheet) * Rows(Top.sheet) \in Nat
      /\ (Rows(Top.sheet) = 0 => Columns(Top.sheet) * Rows(Top.sheet) = 0)
  BY <1>3
<1>6. /\ Total(Top.sheet) \in Nat
      /\ Total(Top.sheet) > 0 => Rows(Top.sheet) > 0
  <2> DEFINE a == Columns(Top.sheet) * Rows(Top.sheet)
             b == Rows(Top.sheet)
  <2>1. a \in Nat /\ (b = 0 => a = 0) /\ b \in Nat
    BY <1>3, <1>5
  <2> HIDE DEF a, b
  <2>2. a * MaskCount \in Nat /\ (a = 0 => a * MaskCount = 0)
    BY <1>4, <2>1
  <2>3. Total(Top.sheet) = a * MaskCount
    BY DEF Total, a
  <2> QED
    BY <2>1, <2>2, <2>3 DEF b
<1> QED
  BY <1>2, <1>3, <1>4, <1>6

-----------------------------------------------------------------------------
(* The stack.                                                              *)

\* A new top frame.
LEMMA SetTopFacts ==
  ASSUME NEW stk \in Seq(Frames), NEW f \in Frames, Len(stk) # 0,
         NEW stk2, stk2 = [stk EXCEPT ![Len(stk)] = f]
  PROVE  /\ stk2 \in Seq(Frames) /\ Len(stk2) = Len(stk)
         /\ stk2[Len(stk)] = f
         /\ \A d \in 1 .. Len(stk) - 1 : stk2[d] = stk[d]
<1> DEFINE n == Len(stk)
<1>1. n \in Nat \ {0} /\ DOMAIN stk = 1 .. n /\ n \in 1 .. n
      /\ \A d \in 1 .. n : stk[d] \in Frames
  OBVIOUS
<1>2. stk2 = [d \in 1 .. n |-> IF d = n THEN f ELSE stk[d]]
  BY <1>1
<1> HIDE DEF n
<1>3. stk2 \in [1 .. n -> Frames]
  BY <1>1, <1>2
<1>4. stk2 \in Seq(Frames) /\ Len(stk2) = n
  BY <1>1, <1>2, <1>3
<1>5. stk2[n] = f /\ \A d \in 1 .. n - 1 : stk2[d] = stk[d]
  BY <1>1, <1>2
<1> QED
  BY <1>4, <1>5 DEF n

\* One frame less.
LEMMA PopFacts ==
  ASSUME NEW stk \in Seq(Frames), Len(stk) # 0,
         NEW stk2, stk2 = SubSeq(stk, 1, Len(stk) - 1)
  PROVE  /\ stk2 \in Seq(Frames) /\ Len(stk2) = Len(stk) - 1
         /\ \A d \in 1 .. Len(stk) - 1 : stk2[d] = stk[d]
<1> DEFINE n == Len(stk)
<1>1. n \in Nat \ {0} /\ \A d \in 1 .. n - 1 : stk[d] \in Frames
  OBVIOUS
<1>2. stk2 = [d \in 1 .. n - 1 |-> stk[d]]
  BY <1>1
<1> HIDE DEF n
<1>3. stk2 \in [1 .. n - 1 -> Frames]
  BY <1>1, <1>2
<1>5. n - 1 \in Nat
  BY <1>1
<1>4. stk2 \in Seq(Frames) /\ Len(stk2) = n - 1
  BY <1>2, <1>3, <1>5
<1> QED
  BY <1>2, <1>4 DEF n

\* One frame more.
LEMMA AppendFacts ==
  ASSUME NEW stk \in Seq(Frames), NEW f \in Frames, NEW stk2,
         stk2 = Append(stk, f)
  PROVE  /\ stk2 \in Seq(Frames) /\ Len(stk2) = Len(stk) + 1
         /\ stk2[Len(stk) + 1] = f
         /\ \A d \in 1 .. Len(stk) : stk2[d] = stk[d]
OBVIOUS

\* A fresh frame.
LEMMA FrameFacts ==
  /\ Frame \in Frames
  /\ ~Frame.skipVisited /\ ~Frame.active /\ Frame.flags = <<>>
BY SearchAssumption DEF SearchAssumption, Frame, Frames

\* Placements of different parts are finitely many, and no more than the parts.
LEMMA SoundCount ==
  ASSUME InputInv, NEW P, Sound(problem, P)
  PROVE  IsFiniteSet(P) /\ Cardinality(P) \in 0 .. Len(problem.parts)
<1> DEFINE n == Len(problem.parts)
           f == [p \in P |-> p.part]
<1>1. n \in Nat
  BY InputFacts
<1>2. /\ \A p \in P : p.part \in 1 .. n
      /\ \A p, q \in P : p.part = q.part => p = q
  BY DEF Sound, PlacementsOf
<1> HIDE DEF n
<1>3. f \in Injection(P, 1 .. n)
  BY <1>2 DEF Injection, IsInjective
<1>4. IsFiniteSet(1 .. n) /\ Cardinality(1 .. n) = n
  <2>1. /\ 1 \in Int /\ n \in Int
        /\ (IF 1 > n THEN 0 ELSE n - 1 + 1) = n
    BY <1>1
  <2>2. IsFiniteSet(1 .. n) /\ Cardinality(1 .. n) = IF 1 > n THEN 0 ELSE n - 1 + 1
    BY <2>1, FS_Interval, Zenon
  <2> QED
    BY <2>1, <2>2
<1>5. IsFiniteSet(P) /\ Cardinality(P) <= n
  <2>1. Injection(P, 1 .. n) # {}
    BY <1>3
  <2> QED
    BY <1>4, <2>1, FS_Injection
<1> QED
  BY <1>1, <1>5, FS_CardinalityType DEF n

\* A step that only moves the top frame on.
LEMMA TopMoves ==
  ASSUME SearchInv, Searching, NEW f \in Frames, stack' = SetTop(f),
         f.skipVisited = Top.skipVisited, f.active = Top.active,
         f.skipVisited => f.initialized /\ f.sheet > Len(problem.sheets),
         f.flags # <<>> =>
           /\ Depth <= Len(problem.parts) /\ f.initialized
           /\ f.sheet <= Len(problem.sheets)
           /\ RowsOf(problem, Depth, f.sheet) > 0,
         UNCHANGED <<problem, worker, placed, excluded, best>>
  PROVE  PathInv' /\ ExcludedInv' /\ BoundInv'
<1>1. /\ stack \in Seq(Frames) /\ Len(stack) # 0
      /\ stack' = [stack EXCEPT ![Len(stack)] = f]
  BY TopFacts DEF SetTop, Depth
<1>2. /\ stack' \in Seq(Frames) /\ Len(stack') = Len(stack)
      /\ stack'[Len(stack)] = f
      /\ \A d \in 1 .. Len(stack) - 1 : stack'[d] = stack[d]
  BY <1>1, SetTopFacts
<1>4. \A d \in 1 .. Len(stack) : d = Len(stack) \/ stack'[d] = stack[d]
  <2>1. Len(stack) \in Nat
    BY <1>1
  <2> QED
    BY <1>2, <2>1
<1>3. \A d \in 1 .. Len(stack) :
        /\ stack'[d].skipVisited = stack[d].skipVisited
        /\ stack'[d].active = stack[d].active
  <2>1. Top = stack[Len(stack)]
    BY DEF Top, Depth
  <2> QED
    BY <1>2, <1>4, <2>1
<1>5. PathInv'
  <2>1. \A d \in 1 .. Len(stack') : stack'[d].skipVisited =>
          /\ d <= Len(problem'.parts)
          /\ stack'[d].initialized /\ ~stack'[d].active
          /\ stack'[d].sheet > Len(problem'.sheets)
    BY <1>2, <1>3, <1>4 DEF SearchInv, PathInv
  <2>2. \A d \in 1 .. Len(stack') : stack'[d].flags # <<>> =>
          /\ d <= Len(problem'.parts) /\ stack'[d].initialized
          /\ stack'[d].sheet <= Len(problem'.sheets)
          /\ RowsOf(problem', d, stack'[d].sheet) > 0
    BY <1>2, <1>4 DEF SearchInv, PathInv, Depth
  <2>3. \A p \in placed' : p.part <= Len(stack') /\ stack'[p.part].active
    <3>1. \A p \in placed : p.part \in 1 .. Len(stack)
      BY DEF SearchInv, PathInv, Sound, PlacementsOf
    <3> QED
      BY <1>2, <1>3, <3>1 DEF SearchInv, PathInv
  <2>4. Sound(problem', placed')
    BY DEF SearchInv, PathInv
  <2> QED
    BY <1>2, <2>1, <2>2, <2>3, <2>4 DEF SearchInv, PathInv
<1>6. \A k : Skipped(stack', problem', k) = Skipped(stack, problem, k)
  BY <1>2, <1>3 DEF Skipped
<1>7. ExcludedInv'
  BY <1>6 DEF SearchInv, ExcludedInv
<1>8. BoundInv'
  BY <1>2, <1>3 DEF SearchInv, BoundInv, Workers, RootFirst, Parts
<1> QED
  BY <1>5, <1>7, <1>8

\* A batch is not empty.
LEMMA BatchFacts ==
  ASSUME SearchInv, Filtering
  PROVE  /\ Limit \in Nat \ {0} /\ Batch \in Nat \ {0}
         /\ Min({MaxBatch, Limit * 2}) \in Nat \ {0}
         /\ RowsOf(problem, Depth, Top.sheet) > 0
<1>1. /\ Top.size \in Nat \ {0} /\ Top.next \in Nat
      /\ Total(Top.sheet) \in Nat /\ Top.next < Total(Top.sheet)
      /\ MaxBatch \in Nat \ {0}
      /\ Rows(Top.sheet) = RowsOf(problem, Depth, Top.sheet)
      /\ Rows(Top.sheet) > 0
  <2>1. OnSheet /\ Top.next < Total(Top.sheet) /\ Top \in Frames
    BY TopFacts DEF Filtering, OnSheet, Ready
  <2>2. Top.size \in Nat \ {0} /\ Top.next \in Nat
    BY <2>1 DEF Frames
  <2> HIDE DEF Top
  <2> QED
    BY <2>1, <2>2, CandidateFacts, SearchAssumption DEF SearchAssumption
<1>2. Limit \in Nat \ {0}
  BY <1>1, MinOfTwo DEF Limit
<1>3. Total(Top.sheet) - Top.next \in Nat \ {0}
  BY <1>1
<1>4. Batch \in Nat \ {0}
  BY <1>2, <1>3, MinOfTwo DEF Batch
<1>5. Min({MaxBatch, Limit * 2}) \in Nat \ {0}
  <2>1. Limit * 2 \in Nat \ {0}
    BY <1>2
  <2> QED
    BY <1>1, <2>1, MinOfTwo
<1> QED
  BY <1>1, <1>2, <1>4, <1>5

\* The frame after a batch was filtered.
LEMMA FilteredFacts ==
  ASSUME SearchInv, Filtering, NEW flags \in Seq(BOOLEAN), NEW f,
         f = Filtered(flags)
  PROVE  /\ f \in Frames
         /\ f.skipVisited = Top.skipVisited /\ f.active = Top.active
         /\ f.sheet = Top.sheet /\ f.initialized = Top.initialized
         /\ f.flags = flags /\ f.first = Top.next
         /\ f.next = Top.next + Batch /\ f.cursor = 0
<1> DEFINE t == Top
           m == Min({MaxBatch, Limit * 2})
           n == t.next + Batch
<1>1. t \in Frames
  BY TopFacts DEF Filtering, OnSheet, Ready
<1>2. m \in Nat \ {0} /\ Batch \in Nat
  BY BatchFacts
<1>3. t.next \in Nat
  BY <1>1 DEF Frames
<1> HIDE DEF t, m
<1>4. n \in Nat
  BY <1>2, <1>3
<1>5. f = [t EXCEPT !.first = t.next, !.next = n, !.cursor = 0, !.size = m,
                    !.flags = flags]
  BY DEF Filtered, t, m
<1> HIDE DEF n
<1> QED
  <2>1. f \in Frames
    <3>1. f = [sheet |-> t.sheet, next |-> n, first |-> t.next, cursor |-> 0,
               size |-> m, flags |-> flags, skipVisited |-> t.skipVisited,
               active |-> t.active, initialized |-> t.initialized,
               index |-> t.index, chosen |-> t.chosen]
      BY <1>1, <1>5 DEF Frames
    <3> QED
      BY <1>1, <1>2, <1>3, <1>4, <3>1 DEF Frames
  <2>2. f.skipVisited = t.skipVisited /\ f.active = t.active
        /\ f.sheet = t.sheet /\ f.initialized = t.initialized
    BY <1>1, <1>5 DEF Frames
  <2>3. f.flags = flags /\ f.first = t.next /\ f.next = n /\ f.cursor = 0
    BY <1>1, <1>5 DEF Frames
  <2> QED
    BY <2>1, <2>2, <2>3 DEF t, n

\* The next candidate whose flag is set.
LEMMA HitFacts ==
  ASSUME SearchInv, OnSheet, Hits # {}
  PROVE  /\ Min(Hits) \in 1 .. Len(Top.flags) /\ Top.flags[Min(Hits)]
         /\ Hit \in Nat /\ Hit = Top.first + Min(Hits) - 1
         /\ HitMask \in Nat
         /\ Rows(Top.sheet) > 0
         /\ HitPlacement \in PlacementsOf(problem)
         /\ HitPlacement.part = Depth /\ HitPlacement.sheet = Top.sheet
<1>1. /\ Top \in Frames
      /\ Depth \in 1 .. Len(problem.parts)
      /\ Top.sheet \in 1 .. Len(problem.sheets)
      /\ FirstMask \in Nat /\ MaskCount \in Nat \ {0} /\ Edge \in Nat
      /\ Rows(Top.sheet) \in Nat
      /\ problem.step \in Nat
  BY TopFacts, OnSheetFacts, CandidateFacts, InputFacts
     DEF OnSheet, Ready, SearchInv
<1>2. Top.cursor \in Nat /\ Top.first \in Nat /\ Top.flags \in Seq(BOOLEAN)
  BY <1>1 DEF Frames
<1>3. Min(Hits) \in Hits
  <2>1. Hits \in SUBSET Nat
    BY <1>2 DEF Hits
  <2> QED
    BY <2>1, MinIs
<1>4. Min(Hits) \in 1 .. Len(Top.flags) /\ Top.flags[Min(Hits)]
  BY <1>2, <1>3 DEF Hits
<1>5. Hit \in Nat /\ Hit = Top.first + Min(Hits) - 1
  BY <1>2, <1>4 DEF Hit
<1>6. HitMask \in Nat
  <2>1. Hit % MaskCount \in Nat
    BY <1>1, <1>5
  <2> QED
    BY <1>1, <2>1 DEF HitMask
<1>7. Rows(Top.sheet) > 0
  <2>1. Top.flags # <<>>
    BY <1>2, <1>4
  <2>2. RowsOf(problem, Depth, Top.sheet) > 0
    BY <1>1, <2>1, TopFacts DEF SearchInv, PathInv, Depth, Top, OnSheet, Ready
  <2> QED
    BY <2>2, CandidateFacts
<1>8. HitPlacement \in PlacementsOf(problem) /\ HitPlacement.part = Depth
      /\ HitPlacement.sheet = Top.sheet
  <2> DEFINE c == Hit \div MaskCount
             pos == Decode(Top.sheet, c)
  <2>1. c \in Nat
    BY <1>1, <1>5, Quotient
  <2>2. c \div Rows(Top.sheet) \in Nat /\ c % Rows(Top.sheet) \in Nat
    <3>1. Rows(Top.sheet) \in Nat \ {0}
      BY <1>1, <1>7
    <3> HIDE DEF c
    <3> QED
      BY <2>1, <3>1, Quotient
  <2>3. pos.x \in Nat /\ pos.y \in Nat
    <3> DEFINE a == c \div Rows(Top.sheet)
               b == c % Rows(Top.sheet)
    <3>1. a \in Nat /\ b \in Nat
      BY <2>2
    <3>2. pos.x = a * problem.step + Edge /\ pos.y = b * problem.step + Edge
      BY DEF Decode, Lattice
    <3> HIDE DEF a, b, pos, c
    <3>3. a * problem.step \in Nat /\ b * problem.step \in Nat
      BY <1>1, <3>1
    <3> QED
      BY <1>1, <3>2, <3>3
  <2>4. HitPlacement = [part |-> Depth, sheet |-> Top.sheet, r |-> HitMask,
                        x |-> pos.x, y |-> pos.y]
    BY DEF HitPlacement
  <2> HIDE DEF pos
  <2> QED
    BY <1>1, <1>6, <2>3, <2>4 DEF PlacementsOf
<1> QED
  BY <1>4, <1>5, <1>6, <1>7, <1>8

-----------------------------------------------------------------------------
(* The steps.                                                              *)

\* The input stays, and with it the number of workers.
LEMMA InputKept ==
  ASSUME SearchInv, UNCHANGED <<input, worker>>
  PROVE  /\ InputInv' /\ worker' \in 0 .. Workers' - 1
         /\ UNCHANGED <<problem, flow, broker>>
BY DEF SearchInv, InputInv, WorkerInv, input, Workers, Parts

\* What only moves the top frame on.
LEMMA SearchMoves ==
  ASSUME SearchInv, Searching, NEW f \in Frames, stack' = SetTop(f),
         f.skipVisited = Top.skipVisited, f.active = Top.active,
         f.skipVisited => f.initialized /\ f.sheet > Len(problem.sheets),
         f.flags # <<>> =>
           /\ Depth <= Len(problem.parts) /\ f.initialized
           /\ f.sheet <= Len(problem.sheets)
           /\ RowsOf(problem, Depth, f.sheet) > 0,
         UNCHANGED <<input, worker, placed, occupied, excluded, result, exhausted,
                     phase>>,
         DeviceInv'
  PROVE  SearchInv'
<1>1. /\ InputInv' /\ worker' \in 0 .. Workers' - 1
      /\ UNCHANGED <<problem, flow, broker>>
  BY InputKept
<1>2. UNCHANGED <<best, layout, overall>>
  BY DEF result
<1>3. PathInv' /\ ExcludedInv' /\ BoundInv'
  BY <1>1, <1>2, TopMoves
<1>4. ResultInv'
  BY <1>1, <1>2 DEF SearchInv, ResultInv
<1>5. WorkerInv'
  BY <1>1 DEF SearchInv, WorkerInv
<1> QED
  BY <1>1, <1>3, <1>4, <1>5 DEF SearchInv

\* A step that touches neither the bitmap nor the device.
LEMMA DeviceKept ==
  ASSUME SearchInv, UNCHANGED <<input, occupied, gpu>>
  PROVE  DeviceInv'
BY DEF SearchInv, DeviceInv, input

\* A placed copy is further down on the stack.
LEMMA CopyFacts ==
  ASSUME SearchInv, Searching, Copies # {}
  PROVE  Max(Copies) \in 1 .. Depth - 1 /\ stack[Max(Copies)] \in Frames
<1>1. Depth \in Nat /\ stack \in Seq(Frames) /\ DOMAIN stack = 1 .. Depth
      /\ Depth > 0
  BY TopFacts, InputFacts DEF SearchInv
<1>2. Copies \in SUBSET Nat /\ Depth - 1 \in Nat /\ \A y \in Copies : y <= Depth - 1
  BY <1>1 DEF Copies
<1>3. Max(Copies) \in Copies
  BY <1>2, MaxIs
<1>4. Max(Copies) \in 1 .. Depth - 1
  BY <1>3 DEF Copies
<1> QED
  BY <1>1, <1>4

\* Where a frame begins: nowhere, behind the nearest copy, or where it is.
BeginsAt(s, x) ==
  \/ excluded[Parts[Depth]] > 0 /\ s = Len(Sheets) + 1
  \/ Copies # {} /\ s = stack[Max(Copies)].sheet /\ x = stack[Max(Copies)].index + 1
  \/ s = Top.sheet /\ x = Top.next

\* A frame begins: it has no flags yet, wherever it continues from.
LEMMA BeginFrame ==
  ASSUME SearchInv, Begin
  PROVE  /\ Searching /\ ~Top.skipVisited /\ Top.flags = <<>>
         /\ \E f \in Frames :
              /\ stack' = SetTop(f)
              /\ f.skipVisited = Top.skipVisited /\ f.active = Top.active
              /\ f.flags = Top.flags
              /\ f.initialized /\ f.cursor = Top.cursor
              /\ BeginsAt(f.sheet, f.next)
<1> DEFINE t == Top
           c == stack[Max(Copies)]
           n == Len(Sheets) + 1
<1>1. Searching /\ ~t.initialized /\ t \in Frames
  BY TopFacts DEF Begin, Ready
<1>2. t.flags = <<>> /\ ~t.skipVisited
  BY <1>1, TopFacts DEF SearchInv, PathInv, Depth, Top
<1>3. n \in Nat \ {0}
  BY InputFacts DEF SearchInv, Sheets
<1>6. /\ t.sheet \in Nat \ {0} /\ t.next \in Nat
      /\ Copies # {} => /\ c.sheet \in Nat \ {0} /\ c.index + 1 \in Nat
  <2>1. t.sheet \in Nat \ {0} /\ t.next \in Nat
    BY <1>1 DEF Frames
  <2>2. ASSUME Copies # {} PROVE c.sheet \in Nat \ {0} /\ c.index + 1 \in Nat
    <3>1. c \in Frames
      BY <1>1, <2>2, CopyFacts
    <3> HIDE DEF c
    <3> QED
      BY <3>1 DEF Frames
  <2> HIDE DEF c, t
  <2> QED
    BY <2>1, <2>2
<1>7. \E s \in Nat \ {0}, x \in Nat :
        BeginsAt(s, x) /\ stack' = SetTop([t EXCEPT !.initialized = TRUE, !.sheet = s, !.next = x])
  <2>1. CASE excluded[Parts[Depth]] > 0
    <3>1. stack' = SetTop([t EXCEPT !.initialized = TRUE, !.sheet = n])
      BY <2>1 DEF Begin
    <3>2. [t EXCEPT !.initialized = TRUE, !.sheet = n]
           = [t EXCEPT !.initialized = TRUE, !.sheet = n, !.next = t.next]
      BY <1>1 DEF Frames
    <3>3. BeginsAt(n, t.next)
      BY <2>1 DEF BeginsAt
    <3> HIDE DEF t, n
    <3> QED
      BY <1>3, <1>6, <3>1, <3>2, <3>3
  <2>2. CASE ~(excluded[Parts[Depth]] > 0) /\ Copies # {}
    <3>1. stack' = SetTop([t EXCEPT !.initialized = TRUE, !.sheet = c.sheet,
                                    !.next = c.index + 1])
      BY <2>2 DEF Begin
    <3>2. BeginsAt(c.sheet, c.index + 1)
      BY <2>2 DEF BeginsAt
    <3> HIDE DEF t, c
    <3> QED
      BY <1>6, <2>2, <3>1, <3>2
  <2>3. CASE ~(excluded[Parts[Depth]] > 0) /\ Copies = {}
    <3>1. stack' = SetTop([t EXCEPT !.initialized = TRUE])
      BY <2>3 DEF Begin
    <3>2. [t EXCEPT !.initialized = TRUE]
           = [t EXCEPT !.initialized = TRUE, !.sheet = t.sheet, !.next = t.next]
      BY <1>1 DEF Frames
    <3>3. BeginsAt(t.sheet, t.next)
      BY DEF BeginsAt
    <3> HIDE DEF t
    <3> QED
      BY <1>6, <3>1, <3>2, <3>3
  <2> QED
    BY <2>1, <2>2, <2>3
<1>8. PICK s \in Nat \ {0}, x \in Nat :
        BeginsAt(s, x) /\ stack' = SetTop([t EXCEPT !.initialized = TRUE, !.sheet = s, !.next = x])
  BY <1>7
<1> HIDE DEF t
<1> DEFINE f == [t EXCEPT !.initialized = TRUE, !.sheet = s, !.next = x]
<1>9. /\ stack' = SetTop(f)
      /\ f = [t EXCEPT !.initialized = TRUE, !.sheet = s, !.next = x]
  BY <1>8
<1> HIDE DEF f
<1>11. f = [sheet |-> s, next |-> x, first |-> t.first, cursor |-> t.cursor,
            size |-> t.size, flags |-> t.flags, skipVisited |-> t.skipVisited,
            active |-> t.active, initialized |-> TRUE, index |-> t.index,
            chosen |-> t.chosen]
  BY <1>1, <1>9 DEF Frames
<1>10. /\ f \in Frames
       /\ f.skipVisited = t.skipVisited /\ f.active = t.active
       /\ f.flags = t.flags
       /\ f.initialized /\ f.cursor = t.cursor
       /\ BeginsAt(f.sheet, f.next)
  <2>1. f.skipVisited = t.skipVisited /\ f.active = t.active
       /\ f.flags = t.flags /\ f.initialized /\ f.cursor = t.cursor
       /\ BeginsAt(f.sheet, f.next)
    BY <1>8, <1>11
  <2>2. f \in Frames
    BY <1>1, <1>8, <1>11 DEF Frames
  <2> QED
    BY <2>1, <2>2
<1> QED
  BY <1>1, <1>2, <1>9, <1>10 DEF t

\* Begin preserves the invariant.
LEMMA BeginKeeps ==
  ASSUME SearchInv, Begin
  PROVE  SearchInv'
<1>1. /\ Searching /\ ~Top.skipVisited /\ Top.flags = <<>>
      /\ \E f \in Frames :
           /\ stack' = SetTop(f)
           /\ f.skipVisited = Top.skipVisited /\ f.active = Top.active
           /\ f.flags = Top.flags
  BY BeginFrame
<1>2. PICK f \in Frames :
        /\ stack' = SetTop(f)
        /\ f.skipVisited = Top.skipVisited /\ f.active = Top.active
        /\ f.flags = Top.flags
  BY <1>1
<1>3. DeviceInv'
      /\ UNCHANGED <<input, worker, placed, occupied, excluded, result, exhausted,
                     phase>>
  BY DeviceKept DEF Begin, tree
<1> QED
  BY <1>1, <1>2, <1>3, SearchMoves

\* A frame goes to its next sheet: its flags are gone.
LEMMA NextSheetFrame ==
  ASSUME SearchInv, NextSheet
  PROVE  /\ Searching /\ ~Top.skipVisited
         /\ \E f \in Frames :
              /\ stack' = SetTop(f)
              /\ f.skipVisited = Top.skipVisited /\ f.active = Top.active
              /\ f.flags = <<>> /\ f.initialized = Top.initialized
              /\ f.sheet = Top.sheet + 1 /\ f.next = 0 /\ f.cursor = 0
<1> DEFINE t == Top
           n == t.sheet + 1
           f == [t EXCEPT !.sheet = n, !.next = 0, !.flags = <<>>,
                          !.cursor = 0, !.size = FirstBatch]
<1>1. Searching /\ t \in Frames /\ stack' = SetTop(f)
  BY TopFacts DEF NextSheet, OnSheet, Ready
<1>2. n \in Nat \ {0}
  BY <1>1 DEF Frames
<1>3. ~t.skipVisited
  BY <1>1, TopFacts, OnSheetFacts DEF NextSheet, SearchInv, PathInv, Depth, Top
<1> HIDE DEF t, n
<1>5. /\ f = [t EXCEPT !.sheet = n, !.next = 0, !.flags = <<>>,
                       !.cursor = 0, !.size = FirstBatch]
      /\ FirstBatch \in Nat \ {0}
  BY SearchAssumption DEF SearchAssumption
<1> HIDE DEF f
<1>8. f = [sheet |-> n, next |-> 0, first |-> t.first, cursor |-> 0,
           size |-> FirstBatch, flags |-> <<>>, skipVisited |-> t.skipVisited,
           active |-> t.active, initialized |-> t.initialized, index |-> t.index,
           chosen |-> t.chosen]
  BY <1>1, <1>5 DEF Frames
<1>6. /\ f \in Frames
      /\ f.skipVisited = t.skipVisited /\ f.active = t.active
      /\ f.flags = <<>> /\ f.initialized = t.initialized
      /\ f.sheet = n /\ f.next = 0 /\ f.cursor = 0
  <2>1. /\ f.skipVisited = t.skipVisited /\ f.active = t.active
        /\ f.flags = <<>> /\ f.initialized = t.initialized
        /\ f.sheet = n /\ f.next = 0 /\ f.cursor = 0
    BY <1>8
  <2> DEFINE e == <<>>
  <2>2. e \in Seq(BOOLEAN) /\ f =
          [sheet |-> n, next |-> 0, first |-> t.first, cursor |-> 0,
           size |-> FirstBatch, flags |-> e, skipVisited |-> t.skipVisited,
           active |-> t.active, initialized |-> t.initialized, index |-> t.index,
           chosen |-> t.chosen]
    BY <1>8
  <2> HIDE DEF e
  <2>3. f \in Frames
    BY <1>1, <1>2, <1>5, <2>2 DEF Frames
  <2> QED
    BY <2>1, <2>3
<1> QED
  BY <1>1, <1>3, <1>6 DEF t, n

\* NextSheet preserves the invariant.
LEMMA NextSheetKeeps ==
  ASSUME SearchInv, NextSheet
  PROVE  SearchInv'
<1>1. PICK f \in Frames :
        /\ stack' = SetTop(f)
        /\ f.skipVisited = Top.skipVisited /\ f.active = Top.active
        /\ f.flags = <<>>
  BY NextSheetFrame
<1>2. Searching /\ ~Top.skipVisited
  BY NextSheetFrame
<1>3. DeviceInv'
      /\ UNCHANGED <<input, worker, placed, occupied, excluded, result, exhausted,
                     phase>>
  BY DeviceKept DEF NextSheet, tree
<1> QED
  BY <1>1, <1>2, <1>3, SearchMoves

\* The frame goes on to a later candidate of its batch.
LEMMA CursorFrame ==
  ASSUME SearchInv, OnSheet, NEW c \in Nat,
         stack' = SetTop([Top EXCEPT !.cursor = c])
  PROVE  \E f \in Frames :
           /\ stack' = SetTop(f)
           /\ f.skipVisited = Top.skipVisited /\ f.active = Top.active
           /\ f.flags = Top.flags /\ f.initialized = Top.initialized
           /\ f.sheet = Top.sheet /\ f.first = Top.first
           /\ f.next = Top.next /\ f.cursor = c
<1> DEFINE t == Top
           f == [t EXCEPT !.cursor = c]
<1>1. t \in Frames /\ stack' = SetTop(f)
  BY TopFacts DEF OnSheet, Ready
<1> HIDE DEF t
<1>2. f = [sheet |-> t.sheet, next |-> t.next, first |-> t.first, cursor |-> c,
           size |-> t.size, flags |-> t.flags, skipVisited |-> t.skipVisited,
           active |-> t.active, initialized |-> t.initialized, index |-> t.index,
           chosen |-> t.chosen]
  BY <1>1 DEF Frames
<1>3. f \in Frames
  BY <1>1, <1>2 DEF Frames
<1>4. f.skipVisited = t.skipVisited /\ f.active = t.active /\ f.flags = t.flags
      /\ f.initialized = t.initialized /\ f.sheet = t.sheet /\ f.first = t.first
      /\ f.next = t.next /\ f.cursor = c
  BY <1>2
<1> HIDE DEF f
<1> QED
  BY <1>1, <1>3, <1>4 DEF t

\* Such a step preserves the invariant.
LEMMA CursorKeeps ==
  ASSUME SearchInv, OnSheet, NEW c \in Nat,
         stack' = SetTop([Top EXCEPT !.cursor = c]),
         UNCHANGED <<input, worker, tree, excluded, result, exhausted, phase>>
  PROVE  SearchInv'
<1>1. PICK f \in Frames :
        /\ stack' = SetTop(f)
        /\ f.skipVisited = Top.skipVisited /\ f.active = Top.active
        /\ f.flags = Top.flags /\ f.initialized = Top.initialized
        /\ f.sheet = Top.sheet
  BY CursorFrame
<1>2. Searching
  BY DEF OnSheet, Ready
<1>3. /\ ~Top.skipVisited
      /\ Top.flags # <<>> =>
           /\ Depth <= Len(problem.parts) /\ Top.initialized
           /\ Top.sheet <= Len(problem.sheets)
           /\ RowsOf(problem, Depth, Top.sheet) > 0
  BY <1>2, TopFacts, OnSheetFacts DEF SearchInv, PathInv, Depth, Top
<1>4. DeviceInv'
      /\ UNCHANGED <<input, worker, placed, occupied, excluded, result, exhausted,
                     phase>>
  BY DeviceKept DEF tree
<1> QED
  BY <1>1, <1>2, <1>3, <1>4, SearchMoves

\* A new batch, whoever computed its flags.
LEMMA BatchKeeps ==
  ASSUME SearchInv, Filtering, NEW flags \in Seq(BOOLEAN),
         stack' = SetTop(Filtered(flags)),
         UNCHANGED <<input, worker, placed, occupied, excluded, result, exhausted,
                     phase>>,
         DeviceInv'
  PROVE  SearchInv'
<1> DEFINE f == Filtered(flags)
<1>1. stack' = SetTop(f) /\ f = Filtered(flags)
  OBVIOUS
<1> HIDE DEF f
<1>2. /\ f \in Frames
      /\ f.skipVisited = Top.skipVisited /\ f.active = Top.active
      /\ f.sheet = Top.sheet /\ f.initialized = Top.initialized
  BY <1>1, FilteredFacts
<1>3. OnSheet /\ Searching
  BY DEF Filtering, OnSheet, Ready
<1>4. /\ Depth <= Len(problem.parts) /\ Top.initialized
      /\ Top.sheet <= Len(problem.sheets)
      /\ RowsOf(problem, Depth, Top.sheet) > 0
  BY <1>3, OnSheetFacts, BatchFacts DEF OnSheet
<1>5. ~Top.skipVisited
  BY <1>3, <1>4, TopFacts, OnSheetFacts DEF SearchInv, PathInv, Depth, Top
<1> QED
  BY <1>1, <1>2, <1>3, <1>4, <1>5, SearchMoves

\* A batch filtered on the CPU preserves the invariant.
LEMMA FilterKeeps ==
  ASSUME SearchInv, Filter
  PROVE  SearchInv'
<1> DEFINE flags == [i \in 1 .. Batch |-> Flag(Top.sheet, Top.next + i - 1)]
<1>1. flags \in Seq(BOOLEAN)
  <2>1. Batch \in Nat
    BY BatchFacts DEF Filter
  <2>2. \A i \in 1 .. Batch : Flag(Top.sheet, Top.next + i - 1) \in BOOLEAN
    BY DEF Flag, MaskFits
  <2> QED
    BY <2>1, <2>2
<1>2. Filtering /\ stack' = SetTop(Filtered(flags)) /\ DeviceInv'
  BY DeviceKept DEF Filter, tree
<1> HIDE DEF flags
<1> QED
  BY <1>1, <1>2, BatchKeeps DEF Filter, tree

\* The bitmap that the device filters against is the sheet's.
LEMMA DeviceBitsTrue ==
  ASSUME SearchInv, OnSheet, gpu.on, NEW bits \in DeviceBits
  PROVE  bits = occupied[Top.sheet]
<1>1. Top.sheet \in 1 .. Len(problem.sheets)
  BY OnSheetFacts
<1>2. CASE gpu.sheet = Top.sheet
  <2>1. SymDiff(gpu.bits, gpu.updates[Top.sheet]) = occupied[Top.sheet]
    BY <1>1, <1>2, InputFacts DEF SearchInv, DeviceInv
  <2> QED
    BY <1>2, <2>1 DEF DeviceBits
<1>3. CASE gpu.sheet # Top.sheet
  BY <1>3 DEF DeviceBits
<1> QED
  BY <1>2, <1>3

\* A batch filtered on the device preserves the invariant: the toggles since
\* the last one are gone, and the bitmap has them.
LEMMA FilterOnDeviceKeeps ==
  ASSUME SearchInv, FilterOnDevice
  PROVE  SearchInv'
<1>1. PICK bits \in DeviceBits :
        /\ gpu' = [gpu EXCEPT !.sheet = Top.sheet, !.bits = bits,
                              !.updates = NoUpdates]
        /\ stack' = SetTop(Filtered(
             [i \in 1 .. Batch |->
                DeviceFlag(bits, Top.sheet, Top.next + i - 1)]))
  BY DEF FilterOnDevice
<1> DEFINE flags == [i \in 1 .. Batch |->
                       DeviceFlag(bits, Top.sheet, Top.next + i - 1)]
<1>2. Filtering /\ OnSheet /\ gpu.on
  BY DEF FilterOnDevice, Filtering
<1>3. flags \in Seq(BOOLEAN)
  <2>1. Batch \in Nat
    BY <1>2, BatchFacts
  <2>2. \A i \in 1 .. Batch :
          DeviceFlag(bits, Top.sheet, Top.next + i - 1) \in BOOLEAN
    BY DEF DeviceFlag, MaskFits
  <2> QED
    BY <2>1, <2>2
<1>4. bits = occupied[Top.sheet] /\ Top.sheet \in 1 .. Len(problem.sheets)
  BY <1>1, <1>2, DeviceBitsTrue, OnSheetFacts
<1> DEFINE s == Top.sheet
<1>5. stack' = SetTop(Filtered(flags)) /\ s \in 1 .. Len(problem.sheets)
      /\ gpu' = [gpu EXCEPT !.sheet = s, !.bits = bits, !.updates = NoUpdates]
      /\ bits = occupied[s]
  BY <1>1, <1>4
<1> HIDE DEF flags, s
<1>6. DeviceInv'
  <2>1. gpu = [on |-> gpu.on, sheet |-> gpu.sheet, bits |-> gpu.bits,
               updates |-> gpu.updates]
    BY DEF SearchInv, DeviceInv
  <2>2. gpu' = [on |-> gpu.on, sheet |-> s, bits |-> bits, updates |-> NoUpdates]
    BY <1>5, <2>1
  <2>3. /\ NoUpdates = [u \in 1 .. Len(problem.sheets) |-> {}]
        /\ NoUpdates[s] = {}
    BY <1>5, InputFacts DEF NoUpdates, SearchInv, Sheets
  <2>4. SymDiff(bits, {}) = bits
    BY DEF SymDiff
  <2>5. gpu'.on => broker'
    BY <2>2 DEF SearchInv, DeviceInv, FilterOnDevice, input
  <2>6. UNCHANGED <<problem, occupied>>
    BY DEF FilterOnDevice, input
  <2>7. /\ gpu'.on = gpu.on /\ gpu'.sheet = s /\ gpu'.bits = bits
        /\ gpu'.updates = NoUpdates
        /\ gpu' = [on |-> gpu'.on, sheet |-> gpu'.sheet, bits |-> gpu'.bits,
                   updates |-> gpu'.updates]
    BY <2>2
  <2>8. gpu'.updates = [u \in 1 .. Len(problem'.sheets) |-> gpu'.updates[u]]
    BY <2>3, <2>6, <2>7
  <2>9. gpu'.on \in BOOLEAN /\ gpu'.sheet \in 0 .. Len(problem'.sheets)
    BY <1>5, <2>6, <2>7, InputFacts DEF SearchInv, DeviceInv
  <2>10. SymDiff(gpu'.bits, gpu'.updates[gpu'.sheet]) = occupied'[gpu'.sheet]
    BY <1>5, <2>3, <2>4, <2>6, <2>7
  <2>11. occupied' = [u \in 1 .. Len(problem'.sheets) |-> occupied'[u]]
    BY <2>6 DEF SearchInv, DeviceInv
  <2> QED
    BY <2>5, <2>7, <2>8, <2>9, <2>10, <2>11 DEF DeviceInv
<1> QED
  BY <1>2, <1>3, <1>5, <1>6, BatchKeeps DEF FilterOnDevice

\* No hit, or one that is rejected, only moves the cursor.
LEMMA HitsKeep ==
  ASSUME SearchInv, NoHit \/ RejectHit
  PROVE  SearchInv'
<1>1. CASE NoHit
  <2>1. OnSheet /\ Len(Top.flags) \in Nat
    BY <1>1, TopFacts DEF NoHit, OnSheet, Ready, Frames
  <2> QED
    BY <1>1, <2>1, CursorKeeps DEF NoHit
<1>2. CASE RejectHit
  <2>2. OnSheet /\ Hits # {}
    BY <1>2 DEF RejectHit
  <2>3. Min(Hits) \in 1 .. Len(Top.flags)
    BY <2>2, HitFacts
  <2>1. Min(Hits) \in Nat
    BY <2>3
  <2> QED
    BY <1>2, <2>1, <2>2, CursorKeeps DEF RejectHit
<1> QED
  BY <1>1, <1>2

\* A device that fails is not asked again.
LEMMA DeviceFailsKeeps ==
  ASSUME SearchInv, DeviceFails
  PROVE  SearchInv'
<1>1. /\ gpu' = Gpu(FALSE)
      /\ UNCHANGED <<input, worker, stack, placed, occupied, excluded, result,
                     exhausted, phase>>
  BY DEF DeviceFails
<1>2. /\ InputInv' /\ worker' \in 0 .. Workers' - 1
      /\ UNCHANGED <<problem, flow, broker>>
  BY <1>1, InputKept
<1>3. DeviceInv'
  <2>1. NoUpdates = [u \in 1 .. Len(problem.sheets) |-> {}]
    BY InputFacts DEF NoUpdates, SearchInv, Sheets
  <2>2. /\ gpu' = [on |-> gpu'.on, sheet |-> gpu'.sheet, bits |-> gpu'.bits,
                   updates |-> gpu'.updates]
        /\ gpu'.updates = NoUpdates /\ gpu'.on = FALSE /\ gpu'.sheet = 0
    BY <1>1 DEF Gpu
  <2>3. gpu'.updates = [u \in 1 .. Len(problem'.sheets) |-> gpu'.updates[u]]
    BY <1>2, <2>1, <2>2
  <2>4. 0 \in 0 .. Len(problem.sheets)
    BY InputFacts DEF SearchInv
  <2>5. occupied' = [u \in 1 .. Len(problem'.sheets) |-> occupied'[u]]
    BY <1>1, <1>2 DEF SearchInv, DeviceInv
  <2> QED
    BY <1>2, <2>2, <2>3, <2>4, <2>5 DEF DeviceInv
<1> QED
  BY <1>1, <1>2, <1>3
     DEF SearchInv, PathInv, BoundInv, ResultInv, ExcludedInv, WorkerInv, result,
         Workers, RootFirst, Parts

\* A toggle of the pixels of a placement keeps the device in step.
LEMMA ToggleKeeps ==
  ASSUME SearchInv, NEW p \in PlacementsOf(problem), Toggle(p), UNCHANGED input
  PROVE  /\ DeviceInv'
         /\ \A s \in 1 .. Len(problem.sheets) :
              occupied'[s] = IF s = p.sheet
                             THEN SymDiff(occupied[s], PixelsOf(problem, p))
                             ELSE occupied[s]
<1> DEFINE N == 1 .. Len(problem.sheets)
           X == PixelsOf(problem, p)
           s == p.sheet
<1>1. /\ s \in N /\ UNCHANGED <<problem, broker>>
      /\ occupied = [u \in N |-> occupied[u]]
      /\ gpu.updates = [u \in N |-> gpu.updates[u]]
      /\ gpu = [on |-> gpu.on, sheet |-> gpu.sheet, bits |-> gpu.bits,
                updates |-> gpu.updates]
      /\ gpu.on \in BOOLEAN /\ (gpu.on => broker)
      /\ gpu.sheet \in 0 .. Len(problem.sheets)
      /\ (gpu.on /\ gpu.sheet # 0 =>
            SymDiff(gpu.bits, gpu.updates[gpu.sheet]) = occupied[gpu.sheet])
  BY DEF SearchInv, DeviceInv, PlacementsOf, input
<1>2. /\ occupied' = [occupied EXCEPT ![s] = SymDiff(occupied[s], X)]
      /\ gpu' = IF gpu.on
                THEN [gpu EXCEPT !.updates = [gpu.updates EXCEPT ![s] =
                                               SymDiff(gpu.updates[s], X)]]
                ELSE gpu
  BY <1>1 DEF Toggle, Pixels, PixelsOf, Parts
<1> HIDE DEF N, X, s
<1>3. occupied' = [u \in N |-> IF u = s THEN SymDiff(occupied[u], X)
                                 ELSE occupied[u]]
  BY <1>1, <1>2
<1>4. \A u \in N : occupied'[u] = IF u = s THEN SymDiff(occupied[u], X)
                                  ELSE occupied[u]
  BY <1>3
<1>5. occupied' = [u \in N |-> occupied'[u]]
  BY <1>3
<1>6. CASE ~gpu.on
  <2>1. gpu' = gpu
    BY <1>2, <1>6
  <2> QED
    BY <1>1, <1>4, <1>5, <1>6, <2>1 DEF DeviceInv, N, X, s
<1>7. CASE gpu.on
  <2> DEFINE U == [gpu.updates EXCEPT ![s] = SymDiff(gpu.updates[s], X)]
  <2>1. U = [u \in N |-> IF u = s THEN SymDiff(gpu.updates[u], X)
                         ELSE gpu.updates[u]]
    BY <1>1
  <2>2. \A u \in N : U[u] = IF u = s THEN SymDiff(gpu.updates[u], X)
                            ELSE gpu.updates[u]
    BY <2>1
  <2>3. U = [u \in N |-> U[u]]
    BY <2>1
  <2>4. gpu' = [gpu EXCEPT !.updates = U]
    BY <1>2, <1>7
  <2> HIDE DEF U
  <2>5. gpu' = [on |-> gpu.on, sheet |-> gpu.sheet, bits |-> gpu.bits,
                updates |-> U]
    BY <1>1, <2>4
  <2>6. /\ gpu'.on = gpu.on /\ gpu'.sheet = gpu.sheet /\ gpu'.bits = gpu.bits
        /\ gpu'.updates = U
        /\ gpu' = [on |-> gpu'.on, sheet |-> gpu'.sheet, bits |-> gpu'.bits,
                   updates |-> gpu'.updates]
    BY <2>5
  <2>7. \A A, B : SymDiff(A, SymDiff(B, X)) = SymDiff(SymDiff(A, B), X)
    BY DEF SymDiff
  <2>8. ASSUME gpu.sheet # 0
        PROVE  SymDiff(gpu.bits, U[gpu.sheet]) = occupied'[gpu.sheet]
    <3>1. gpu.sheet \in N
      BY <1>1, <2>8, InputFacts DEF N, SearchInv
    <3> QED
      BY <1>1, <1>4, <1>7, <2>2, <2>7, <2>8, <3>1
  <2> QED
    BY <1>1, <1>4, <1>5, <1>7, <2>3, <2>6, <2>8 DEF DeviceInv, N, X, s
<1> QED
  BY <1>6, <1>7

\* What is published is sound, or nothing is.
LEMMA Published ==
  ASSUME SearchInv, NEW P, Sound(problem, P), Publish(P), problem' = problem
  PROVE  ResultInv' /\ (best' = best \/ best' = Cardinality(P))
<1>1. Cardinality(P) \in 0 .. Len(problem.parts) /\ Len(problem.parts) \in Nat
  BY SoundCount, InputFacts DEF SearchInv
<1>2. CASE UNCHANGED result
  BY <1>2 DEF result, SearchInv, ResultInv
<1>3. CASE ~UNCHANGED result
  <2>1. /\ best' = Cardinality(P) /\ layout' = P
        /\ overall' = Max({overall, Cardinality(P)})
    BY <1>3 DEF Publish
  <2>2. overall' \in 0 .. Len(problem.parts)
    <3>1. overall \in 0 .. Len(problem.parts) /\ overall \in Nat
          /\ Cardinality(P) \in Nat
      BY <1>1 DEF SearchInv, ResultInv
    <3> QED
      BY <1>1, <2>1, <3>1, MaxOfTwo
  <2> QED
    BY <2>1, <2>2 DEF ResultInv
<1> QED
  BY <1>2, <1>3

\* Without part d no more can be placed than the parts before it hold, and
\* those after it.
LEMMA AboveCount ==
  ASSUME InputInv, NEW P, Sound(problem, P), NEW d \in 1 .. Len(problem.parts),
         \A p \in P : p.part # d
  PROVE  /\ Cardinality(Below(P, d)) \in Nat
         /\ Cardinality(P) <= Cardinality(Below(P, d)) + (Len(problem.parts) - d)
<1> DEFINE n == Len(problem.parts)
           A == {p \in P : p.part > d}
           f == [p \in A |-> p.part]
<1>1. n \in Nat /\ d \in 1 .. n /\ IsFiniteSet(P)
  BY InputFacts, SoundCount
<1>2. /\ \A p \in P : p.part \in 1 .. n
      /\ \A p, q \in P : p.part = q.part => p = q
  BY DEF Sound, PlacementsOf
<1> HIDE DEF n
<1>3. IsFiniteSet(A) /\ Cardinality(A) <= n - d
  <2>1. f \in Injection(A, d + 1 .. n)
    BY <1>1, <1>2 DEF Injection, IsInjective
  <2>2. IsFiniteSet(d + 1 .. n) /\ Cardinality(d + 1 .. n) = n - d
    <3>1. /\ d + 1 \in Int /\ n \in Int
          /\ (IF d + 1 > n THEN 0 ELSE n - (d + 1) + 1) = n - d
      BY <1>1
    <3>2. IsFiniteSet(d + 1 .. n)
          /\ Cardinality(d + 1 .. n) = IF d + 1 > n THEN 0 ELSE n - (d + 1) + 1
      BY <3>1, FS_Interval, Zenon
    <3> QED
      BY <3>1, <3>2
  <2> DEFINE T == d + 1 .. n
  <2>3. IsFiniteSet(T) /\ Cardinality(T) = n - d /\ Injection(A, T) # {}
    BY <2>1, <2>2
  <2> HIDE DEF T, A
  <2> QED
    BY <2>3, FS_Injection
<1>4. Below(P, d) \cup A = P /\ Below(P, d) \cap A = {}
  BY <1>1, <1>2 DEF Below
<1>5. IsFiniteSet(Below(P, d))
  BY <1>1, FS_Subset DEF Below
<1> HIDE DEF A
<1>6. Cardinality(P) = Cardinality(Below(P, d)) + Cardinality(A) - Cardinality({})
  BY <1>3, <1>4, <1>5, FS_Union
<1>7. Cardinality({}) = 0 /\ Cardinality(A) \in Nat /\ Cardinality(Below(P, d)) \in Nat
  BY <1>3, <1>5, FS_EmptySet, FS_CardinalityType
<1> QED
  BY <1>1, <1>3, <1>6, <1>7 DEF n

\* When the top frame has placed nothing, all placed parts are below it.
LEMMA PlacedBelow ==
  ASSUME SearchInv, Ready
  PROVE  /\ \A p \in placed : p.part \in 1 .. Depth - 1
         /\ Below(placed, Depth) = placed
<1>1. Depth \in Nat /\ Top = stack[Depth] /\ ~Top.active
  BY TopFacts, InputFacts DEF Ready, Top, SearchInv
<1>2. \A p \in placed : p.part \in 1 .. Depth /\ stack[p.part].active
  BY DEF SearchInv, PathInv, Sound, PlacementsOf, Depth
<1>3. \A p \in placed : p.part \in 1 .. Depth - 1
  BY <1>1, <1>2
<1> QED
  BY <1>1, <1>3 DEF Below

\* What is published does not exceed what a skipped frame allows.
LEMMA BoundKept ==
  ASSUME SearchInv, NEW P, Sound(problem, P),
         NEW d \in 1 .. Len(stack), stack[d].skipVisited,
         \A p \in P : p.part # d,
         Below(P, d) = Below(placed, d),
         NEW b, b = best \/ b = Cardinality(P)
  PROVE  b <= Cardinality(Below(placed, d)) + (Len(problem.parts) + 1 - d)
<1>1. d \in 1 .. Len(problem.parts)
  BY DEF SearchInv, PathInv
<1>2. /\ Cardinality(Below(placed, d)) \in Nat
      /\ Cardinality(P) <= Cardinality(Below(placed, d)) + (Len(problem.parts) - d)
  BY <1>1, AboveCount DEF SearchInv
<1>3. Cardinality(P) \in Nat /\ Len(problem.parts) \in Nat
  BY SoundCount, InputFacts DEF SearchInv
<1>4. best <= Cardinality(Below(placed, d)) + (Len(problem.parts) + 1 - d)
  BY DEF SearchInv, BoundInv
<1>5. CASE b = best
  BY <1>4, <1>5
<1>6. CASE b = Cardinality(P)
  BY <1>1, <1>2, <1>3, <1>6
<1> QED
  BY <1>5, <1>6

\* The placement that is committed is sound together with the others.
LEMMA HitSound ==
  ASSUME SearchInv, OnSheet, Hits # {}, ExactlyFits(HitPlacement)
  PROVE  /\ HitPlacement \in PlacementsOf(problem)
         /\ HitPlacement.part = Depth /\ HitPlacement \notin placed
         /\ Sound(problem, placed \cup {HitPlacement})
<1> DEFINE h == HitPlacement
<1>1. h \in PlacementsOf(problem) /\ h.part = Depth
  BY HitFacts
<1>2. \A p \in placed : p.part \in 1 .. Depth - 1
  BY PlacedBelow DEF OnSheet
<1>3. Depth \in Nat
  BY OnSheetFacts
<1>4. /\ CoreOf(problem, h) \subseteq problem.sheets[h.sheet].inner
      /\ \A q \in placed : q.sheet = h.sheet =>
           HaloOf(problem, h) \cap HaloOf(problem, q) = {}
  BY DEF ExactlyFits, Core, CoreOf, Halo, HaloOf, Parts, Sheets
<1> HIDE DEF h
<1>5. \A p \in placed : p.part # h.part
  BY <1>1, <1>2, <1>3
<1>6. Sound(problem, placed \cup {h})
  <2>1. Sound(problem, placed)
    BY DEF SearchInv, PathInv
  <2>2. \A p, q \in placed \cup {h} : p # q =>
          /\ p.part # q.part
          /\ p.sheet = q.sheet => HaloOf(problem, p) \cap HaloOf(problem, q) = {}
    BY <1>4, <1>5, <2>1 DEF Sound
  <2>3. \A p \in placed \cup {h} :
          CoreOf(problem, p) \subseteq problem.sheets[p.sheet].inner
    BY <1>4, <2>1 DEF Sound
  <2>4. placed \cup {h} \subseteq PlacementsOf(problem)
    BY <1>1, <2>1 DEF Sound
  <2> QED
    BY <2>2, <2>3, <2>4 DEF Sound
<1> QED
  BY <1>1, <1>5, <1>6 DEF h

\* The stack after a commit.
LEMMA CommitStack ==
  ASSUME SearchInv, Commit
  PROVE  /\ stack' \in Seq(Frames) /\ Len(stack') = Depth + 1
         /\ \A d \in 1 .. Depth - 1 : stack'[d] = stack[d]
         /\ stack'[Depth + 1] = Frame
         /\ stack'[Depth].active
         /\ stack'[Depth].skipVisited = Top.skipVisited
         /\ stack'[Depth].initialized = Top.initialized
         /\ stack'[Depth].sheet = Top.sheet /\ stack'[Depth].flags = Top.flags
         /\ stack'[Depth].first = Top.first
         /\ stack'[Depth].next = Top.next /\ stack'[Depth].cursor = Min(Hits)
         /\ stack'[Depth].chosen = [x |-> HitPlacement.x, y |-> HitPlacement.y,
                                    r |-> HitMask]
         /\ stack'[Depth].index =
              (Hit \div MaskCount) * Len(Parts[Depth]) + HitMask
<1> DEFINE t == Top
           i == (Hit \div MaskCount) * Len(Parts[Depth]) + HitMask
           k == [x |-> HitPlacement.x, y |-> HitPlacement.y, r |-> HitMask]
           c == Min(Hits)
           f == [t EXCEPT !.cursor = c, !.active = TRUE, !.chosen = k, !.index = i]
<1>1. OnSheet /\ Hits # {} /\ stack' = Append(SetTop(f), Frame)
  BY DEF Commit
<1>2. t \in Frames /\ Searching
  BY <1>1, TopFacts DEF OnSheet, Ready
<1>3. /\ c \in 1 .. Len(t.flags) /\ Len(t.flags) \in Nat
      /\ HitMask \in Nat /\ Hit \in Nat
      /\ HitPlacement \in PlacementsOf(problem)
  BY <1>1, <1>2, HitFacts DEF Frames
<1>4. c \in Nat
  BY <1>3
<1>5. k \in [x : Nat, y : Nat, r : Nat]
  BY <1>3 DEF PlacementsOf
<1>6. i \in Nat
  <2>1. MaskCount \in Nat \ {0} /\ Len(problem.parts[Depth]) \in Nat
    BY <1>1, CandidateFacts, OnSheetFacts, PolicyFacts DEF SearchInv
  <2>2. Hit \div MaskCount \in Nat
    BY <1>3, <2>1, Quotient
  <2> DEFINE q == Hit \div MaskCount
             l == Len(problem.parts[Depth])
  <2>3. q * l \in Nat
    <3>1. q \in Nat /\ l \in Nat
      BY <2>1, <2>2
    <3> HIDE DEF q, l
    <3> QED
      BY <3>1
  <2>4. i = q * l + HitMask
    BY DEF Parts
  <2> HIDE DEF q, l, i
  <2> QED
    BY <1>3, <2>3, <2>4
<1>7. f = [t EXCEPT !.cursor = c, !.active = TRUE, !.chosen = k, !.index = i]
  OBVIOUS
<1> HIDE DEF t, i, k, c, f
<1>8. f = [sheet |-> t.sheet, next |-> t.next, first |-> t.first, cursor |-> c,
           size |-> t.size, flags |-> t.flags, skipVisited |-> t.skipVisited,
           active |-> TRUE, initialized |-> t.initialized, index |-> i,
           chosen |-> k]
  BY <1>2, <1>7 DEF Frames
<1>9. f \in Frames
  BY <1>2, <1>4, <1>5, <1>6, <1>8 DEF Frames
<1>10. /\ f.active /\ f.skipVisited = t.skipVisited
       /\ f.initialized = t.initialized
       /\ f.sheet = t.sheet /\ f.flags = t.flags /\ f.first = t.first
       /\ f.next = t.next /\ f.cursor = c /\ f.chosen = k /\ f.index = i
  BY <1>8
<1> DEFINE s2 == SetTop(f)
<1>11. /\ stack \in Seq(Frames) /\ Depth \in Nat /\ Depth # 0
       /\ Depth = Len(stack) /\ s2 = [stack EXCEPT ![Len(stack)] = f]
  BY <1>2, TopFacts DEF SetTop, Depth
<1>12. stack' = Append(s2, Frame)
  BY <1>1
<1> HIDE DEF s2
<1>13. /\ s2 \in Seq(Frames) /\ Len(s2) = Depth /\ s2[Depth] = f
       /\ \A d \in 1 .. Depth - 1 : s2[d] = stack[d]
  BY <1>9, <1>11, SetTopFacts
<1>14. /\ stack' \in Seq(Frames) /\ Len(stack') = Depth + 1
       /\ stack'[Depth + 1] = Frame
       /\ \A d \in 1 .. Depth : stack'[d] = s2[d]
  BY <1>12, <1>13, FrameFacts, AppendFacts
<1>15. stack'[Depth] = f /\ \A d \in 1 .. Depth - 1 : stack'[d] = stack[d]
  BY <1>11, <1>13, <1>14
<1> QED
  BY <1>10, <1>14, <1>15 DEF t, c, k, i

\* Commit preserves the invariant: the frame becomes active with its placement,
\* and what is published stays within the bounds of the skipped frames.
LEMMA CommitKeeps ==
  ASSUME SearchInv, Commit
  PROVE  SearchInv'
<1> DEFINE h == HitPlacement
           n == Len(problem.parts)
<1>1. /\ OnSheet /\ Ready /\ Searching
      /\ Toggle(h) /\ placed' = placed \cup {h}
      /\ Publish(placed \cup {h})
      /\ UNCHANGED <<input, worker, excluded, exhausted, phase>>
  BY DEF Commit, OnSheet, Ready
<1>2. /\ h \in PlacementsOf(problem)
      /\ h.part = Depth
      /\ Sound(problem, placed \cup {h})
  BY <1>1, HitSound DEF Commit
<1> HIDE DEF h
<1>3. /\ InputInv' /\ worker' \in 0 .. Workers' - 1
      /\ UNCHANGED <<problem, flow, broker>>
  BY <1>1, InputKept
<1>4. DeviceInv'
  BY <1>1, <1>2, ToggleKeeps
<1>5. /\ ResultInv'
      /\ best' = best \/ best' = Cardinality(placed \cup {h})
  BY <1>1, <1>2, <1>3, Published
<1>6. /\ Depth \in 1 .. n /\ n \in Nat /\ Depth = Len(stack)
      /\ Top = stack[Depth] /\ ~Top.active /\ Top.initialized
      /\ Top.sheet <= Len(problem.sheets) /\ Top.sheet \in Nat
  BY <1>1, OnSheetFacts, TopFacts, InputFacts
     DEF SearchInv, OnSheet, Ready, Depth, Top, Sheets
<1>7. ~Top.skipVisited
  BY <1>6, OnSheetFacts, <1>1, InputFacts DEF SearchInv, PathInv
<1>8. \A p \in placed : p.part \in 1 .. Depth - 1 /\ stack[p.part].active
  BY <1>1, PlacedBelow DEF SearchInv, PathInv
<1>9. /\ stack' \in Seq(Frames) /\ Len(stack') = Depth + 1
      /\ \A d \in 1 .. Depth - 1 : stack'[d] = stack[d]
      /\ stack'[Depth + 1] = Frame
      /\ stack'[Depth].active
      /\ stack'[Depth].skipVisited = Top.skipVisited
      /\ stack'[Depth].initialized = Top.initialized
      /\ stack'[Depth].sheet = Top.sheet /\ stack'[Depth].flags = Top.flags
  BY CommitStack
<1>10. \A d \in 1 .. Depth + 1 :
         \/ d \in 1 .. Depth - 1 /\ stack'[d] = stack[d]
         \/ d = Depth
         \/ d = Depth + 1 /\ stack'[d] = Frame
  BY <1>6, <1>9
<1>11. \A d \in 1 .. Depth + 1 : stack'[d].skipVisited =>
         d \in 1 .. Depth - 1 /\ stack'[d] = stack[d] /\ stack[d].skipVisited
  BY <1>7, <1>9, <1>10, FrameFacts
<1>12. PathInv'
  <2>1. \A d \in 1 .. Len(stack') : stack'[d].skipVisited =>
          /\ d <= n
          /\ stack'[d].initialized /\ ~stack'[d].active
          /\ stack'[d].sheet > Len(problem.sheets)
    BY <1>6, <1>9, <1>11 DEF SearchInv, PathInv
  <2>2. \A d \in 1 .. Len(stack') : stack'[d].flags # <<>> =>
          /\ d <= n /\ stack'[d].initialized
          /\ stack'[d].sheet <= Len(problem.sheets)
          /\ RowsOf(problem, d, stack'[d].sheet) > 0
    <3> SUFFICES ASSUME NEW d \in 1 .. Depth + 1, stack'[d].flags # <<>>
                 PROVE  /\ d <= n /\ stack'[d].initialized
                        /\ stack'[d].sheet <= Len(problem.sheets)
                        /\ RowsOf(problem, d, stack'[d].sheet) > 0
      BY <1>9
    <3>1. CASE d \in 1 .. Depth - 1 /\ stack'[d] = stack[d]
      <4>1. d \in 1 .. Len(stack) /\ stack[d].flags # <<>>
        BY <1>6, <3>1
      <4> QED
        BY <3>1, <4>1 DEF SearchInv, PathInv
    <3>2. CASE d = Depth
      <4>1. stack[Depth].flags # <<>> /\ Depth \in 1 .. Len(stack)
        BY <1>6, <1>9, <3>2
      <4>2. RowsOf(problem, Depth, stack[Depth].sheet) > 0
        BY <4>1 DEF SearchInv, PathInv
      <4>3. /\ stack'[Depth].sheet = stack[Depth].sheet
            /\ Depth <= n /\ stack[Depth].sheet <= Len(problem.sheets)
        BY <1>6, <1>9
      <4>4. stack'[Depth].initialized
        BY <1>6, <1>9, Zenon
      <4> QED
        BY <3>2, <4>2, <4>3, <4>4
    <3>3. CASE d = Depth + 1 /\ stack'[d] = Frame
      BY <3>3, FrameFacts
    <3> QED
      BY <1>10, <3>1, <3>2, <3>3
  <2>3. \A p \in placed' : p.part <= Len(stack') /\ stack'[p.part].active
    <3>1. ASSUME NEW p \in placed
          PROVE  p.part <= Len(stack') /\ stack'[p.part].active
      <4>1. p.part \in 1 .. Depth - 1 /\ stack[p.part].active
        BY <1>8
      <4> QED
        BY <1>6, <1>9, <4>1
    <3>2. h.part <= Len(stack') /\ stack'[h.part].active
      BY <1>2, <1>6, <1>9
    <3> QED
      BY <1>1, <3>1, <3>2
  <2> QED
    BY <1>1, <1>2, <1>3, <1>6, <1>9, <2>1, <2>2, <2>3 DEF PathInv
<1>13. \A k : Skipped(stack', problem, k) = Skipped(stack, problem, k)
  BY <1>6, <1>7, <1>9, <1>11 DEF Skipped
<1>14. ExcludedInv'
  BY <1>1, <1>3, <1>13 DEF SearchInv, ExcludedInv
<1>15. BoundInv'
  <2> SUFFICES ASSUME NEW d \in 1 .. Len(stack'), stack'[d].skipVisited
               PROVE  /\ best' <= Cardinality(Below(placed', d)) + (n + 1 - d)
                      /\ d = 1 /\ Workers > 1 => RootFirst = 0
    BY <1>1, <1>3 DEF BoundInv, Workers, RootFirst, Parts
  <2>1. d \in 1 .. Depth - 1 /\ d \in 1 .. Len(stack) /\ stack[d].skipVisited
    BY <1>6, <1>9, <1>11
  <2>2. Below(placed \cup {h}, d) = Below(placed, d)
    BY <1>2, <1>6, <2>1 DEF Below
  <2>3. \A p \in placed \cup {h} : p.part # d
    <3>1. ~stack[d].active
      BY <2>1 DEF SearchInv, PathInv
    <3> QED
      BY <1>2, <1>6, <1>8, <2>1, <3>1
  <2>4. best' <= Cardinality(Below(placed, d)) + (n + 1 - d)
    BY <1>2, <1>5, <2>1, <2>2, <2>3, BoundKept
  <2>5. d = 1 /\ Workers > 1 => RootFirst = 0
    BY <2>1 DEF SearchInv, BoundInv
  <2> QED
    BY <1>1, <2>2, <2>4, <2>5
<1>16. WorkerInv'
  BY <1>1, <1>3 DEF SearchInv, WorkerInv
<1> QED
  BY <1>3, <1>4, <1>5, <1>12, <1>14, <1>15, <1>16 DEF SearchInv

\* The part of the top frame is taken back.
LEMMA BacktrackStep ==
  ASSUME SearchInv, Backtrack
  PROVE  \E p \in placed :
           /\ p.part = Depth /\ p \in PlacementsOf(problem)
           /\ Toggle(p) /\ placed' = placed \ {p}
           /\ \A q \in placed' : q.part \in 1 .. Depth - 1
           /\ \A d \in 1 .. Depth : Below(placed', d) = Below(placed, d)
<1>1. PICK p \in placed :
        p.part = Depth /\ Toggle(p) /\ placed' = placed \ {p}
  BY DEF Backtrack
<1>2. /\ Sound(problem, placed)
      /\ \A q \in placed : q.part \in 1 .. Depth
  BY DEF SearchInv, PathInv, Sound, PlacementsOf, Depth
<1>3. Depth \in Nat
  BY TopFacts, InputFacts DEF Backtrack, SearchInv
<1>4. p \in PlacementsOf(problem)
  BY <1>2 DEF Sound
<1>5. \A q \in placed' : q.part \in 1 .. Depth - 1
  <2>1. \A q \in placed' : q \in placed /\ q # p
    BY <1>1
  <2>2. \A q \in placed' : q.part # Depth
    BY <1>1, <1>2, <2>1 DEF Sound
  <2> QED
    BY <1>2, <1>3, <2>1, <2>2
<1>6. \A d \in 1 .. Depth : Below(placed', d) = Below(placed, d)
  BY <1>1, <1>3 DEF Below
<1> QED
  BY <1>1, <1>4, <1>5, <1>6

\* The stack after it.
LEMMA BacktrackStack ==
  ASSUME SearchInv, Backtrack
  PROVE  /\ stack' \in Seq(Frames) /\ Len(stack') = Depth
         /\ \A d \in 1 .. Depth - 1 : stack'[d] = stack[d]
         /\ stack'[Depth].skipVisited = Top.skipVisited
         /\ stack'[Depth].initialized = Top.initialized
         /\ stack'[Depth].sheet = Top.sheet /\ stack'[Depth].flags = Top.flags
         /\ stack'[Depth].first = Top.first
         /\ stack'[Depth].next = Top.next /\ stack'[Depth].cursor = Top.cursor
         /\ ~stack'[Depth].active
<1> DEFINE t == Top
           f == [t EXCEPT !.active = FALSE]
<1>1. /\ t \in Frames /\ stack \in Seq(Frames) /\ Depth \in Nat /\ Depth # 0
      /\ Depth = Len(stack) /\ stack' = [stack EXCEPT ![Len(stack)] = f]
      /\ f = [t EXCEPT !.active = FALSE]
  BY TopFacts, InputFacts DEF Backtrack, SetTop, Depth, SearchInv
<1> HIDE DEF t, f
<1>2. f = [sheet |-> t.sheet, next |-> t.next, first |-> t.first,
           cursor |-> t.cursor, size |-> t.size, flags |-> t.flags,
           skipVisited |-> t.skipVisited, active |-> FALSE,
           initialized |-> t.initialized, index |-> t.index,
           chosen |-> t.chosen]
  BY <1>1 DEF Frames
<1>3. f \in Frames
  BY <1>1, <1>2 DEF Frames
<1>4. /\ f.skipVisited = t.skipVisited /\ f.initialized = t.initialized
      /\ f.sheet = t.sheet /\ f.flags = t.flags /\ f.first = t.first
      /\ f.next = t.next /\ f.cursor = t.cursor /\ ~f.active
  BY <1>2
<1>5. /\ stack' \in Seq(Frames) /\ Len(stack') = Depth /\ stack'[Depth] = f
      /\ \A d \in 1 .. Depth - 1 : stack'[d] = stack[d]
  BY <1>1, <1>3, SetTopFacts
<1> QED
  BY <1>4, <1>5 DEF t

\* Backtrack preserves the invariant.
LEMMA BacktrackKeeps ==
  ASSUME SearchInv, Backtrack
  PROVE  SearchInv'
<1> DEFINE n == Len(problem.parts)
<1>1. PICK p \in placed :
        /\ p.part = Depth /\ p \in PlacementsOf(problem)
        /\ Toggle(p) /\ placed' = placed \ {p}
        /\ \A q \in placed' : q.part \in 1 .. Depth - 1
        /\ \A d \in 1 .. Depth : Below(placed', d) = Below(placed, d)
  BY BacktrackStep
<1>2. /\ Searching /\ Top.active
      /\ UNCHANGED <<input, worker, excluded, result, exhausted, phase>>
  BY DEF Backtrack
<1>3. /\ InputInv' /\ worker' \in 0 .. Workers' - 1
      /\ UNCHANGED <<problem, flow, broker>>
  BY <1>2, InputKept
<1>4. DeviceInv'
  BY <1>1, <1>2, ToggleKeeps
<1>5. /\ Depth \in Nat \ {0} /\ Depth = Len(stack) /\ Top = stack[Depth]
  BY <1>2, TopFacts, InputFacts DEF SearchInv, Depth, Top
<1>6. /\ stack' \in Seq(Frames) /\ Len(stack') = Depth
      /\ \A d \in 1 .. Depth - 1 : stack'[d] = stack[d]
      /\ stack'[Depth].skipVisited = Top.skipVisited
      /\ stack'[Depth].initialized = Top.initialized
      /\ stack'[Depth].sheet = Top.sheet /\ stack'[Depth].flags = Top.flags
  BY BacktrackStack
<1>7. ~Top.skipVisited
  BY <1>2, <1>5 DEF SearchInv, PathInv
<1>8. \A d \in 1 .. Depth :
        \/ d \in 1 .. Depth - 1 /\ stack'[d] = stack[d]
        \/ d = Depth
  BY <1>5, <1>6
<1>9. \A d \in 1 .. Depth : stack'[d].skipVisited =>
        d \in 1 .. Depth - 1 /\ stack'[d] = stack[d] /\ stack[d].skipVisited
  BY <1>6, <1>7, <1>8
<1>10. PathInv'
  <2>1. \A d \in 1 .. Len(stack') : stack'[d].skipVisited =>
          /\ d <= n
          /\ stack'[d].initialized /\ ~stack'[d].active
          /\ stack'[d].sheet > Len(problem.sheets)
    BY <1>5, <1>6, <1>9 DEF SearchInv, PathInv
  <2>2. \A d \in 1 .. Len(stack') : stack'[d].flags # <<>> =>
          /\ d <= n /\ stack'[d].initialized
          /\ stack'[d].sheet <= Len(problem.sheets)
          /\ RowsOf(problem, d, stack'[d].sheet) > 0
    BY <1>5, <1>6, <1>8 DEF SearchInv, PathInv
  <2>3. \A q \in placed' : q.part <= Len(stack') /\ stack'[q.part].active
    <3> SUFFICES ASSUME NEW q \in placed'
                 PROVE  q.part <= Len(stack') /\ stack'[q.part].active
      OBVIOUS
    <3>1. q.part \in 1 .. Depth - 1 /\ q \in placed
      BY <1>1
    <3>2. stack[q.part].active
      BY <3>1 DEF SearchInv, PathInv
    <3> QED
      BY <1>5, <1>6, <3>1, <3>2
  <2>4. Sound(problem, placed')
    BY <1>1 DEF SearchInv, PathInv, Sound
  <2>5. Len(stack') <= n + 1
    BY <1>5, <1>6 DEF SearchInv, PathInv
  <2> QED
    BY <1>3, <1>6, <2>1, <2>2, <2>3, <2>4, <2>5 DEF PathInv
<1>11. \A k : Skipped(stack', problem, k) = Skipped(stack, problem, k)
  BY <1>5, <1>6, <1>7, <1>9 DEF Skipped
<1>12. ExcludedInv'
  BY <1>2, <1>3, <1>11 DEF SearchInv, ExcludedInv
<1>13. BoundInv'
  <2> SUFFICES ASSUME NEW d \in 1 .. Len(stack'), stack'[d].skipVisited
               PROVE  /\ best' <= Cardinality(Below(placed', d)) + (n + 1 - d)
                      /\ d = 1 /\ Workers > 1 => RootFirst = 0
    BY <1>2, <1>3 DEF BoundInv, Workers, RootFirst, Parts
  <2>1. d \in 1 .. Len(stack) /\ stack[d].skipVisited /\ d \in 1 .. Depth
    BY <1>5, <1>6, <1>9
  <2>2. Below(placed', d) = Below(placed, d) /\ best' = best
    BY <1>1, <1>2, <2>1 DEF result
  <2> QED
    BY <2>1, <2>2 DEF SearchInv, BoundInv
<1>14. ResultInv'
  BY <1>2, <1>3 DEF SearchInv, ResultInv, result
<1>15. WorkerInv'
  BY <1>2, <1>3 DEF SearchInv, WorkerInv
<1> QED
  BY <1>3, <1>4, <1>10, <1>12, <1>13, <1>14, <1>15 DEF SearchInv

\* A frame that was not skipped is popped.
LEMMA PopKeeps ==
  ASSUME SearchInv, Ready, stack' = Pop,
         UNCHANGED <<input, worker, tree, exhausted, phase>>,
         ResultInv', best' = best \/ best' = Cardinality(placed),
         \A k \in Range(problem.parts) :
           /\ excluded'[k] = Cardinality(Skipped(stack', problem, k))
           /\ excluded'[k] \in Nat,
         excluded' = [k \in Range(problem.parts) |-> excluded'[k]]
  PROVE  SearchInv'
<1> DEFINE n == Len(problem.parts)
<1>1. /\ InputInv' /\ worker' \in 0 .. Workers' - 1
      /\ UNCHANGED <<problem, flow, broker>>
  BY InputKept
<1>2. /\ DeviceInv' /\ placed' = placed
  BY DeviceKept DEF tree
<1>3. /\ stack \in Seq(Frames) /\ Depth \in Nat \ {0} /\ Depth = Len(stack)
      /\ stack' = SubSeq(stack, 1, Len(stack) - 1)
  BY TopFacts, InputFacts DEF Ready, SearchInv, Depth, Pop
<1>4. /\ stack' \in Seq(Frames) /\ Len(stack') = Depth - 1
      /\ \A d \in 1 .. Depth - 1 : stack'[d] = stack[d]
  BY <1>3, PopFacts
<1>5. \A p \in placed : p.part \in 1 .. Depth - 1
  BY PlacedBelow
<1>6. \A d \in 1 .. Len(stack') : d \in 1 .. Len(stack) /\ stack'[d] = stack[d]
  BY <1>3, <1>4
<1>7. PathInv'
  <2>1. \A d \in 1 .. Len(stack') : stack'[d].skipVisited =>
          /\ d <= n
          /\ stack'[d].initialized /\ ~stack'[d].active
          /\ stack'[d].sheet > Len(problem.sheets)
    BY <1>6 DEF SearchInv, PathInv
  <2>2. \A d \in 1 .. Len(stack') : stack'[d].flags # <<>> =>
          /\ d <= n /\ stack'[d].initialized
          /\ stack'[d].sheet <= Len(problem.sheets)
          /\ RowsOf(problem, d, stack'[d].sheet) > 0
    BY <1>6 DEF SearchInv, PathInv
  <2>3. \A q \in placed : q.part <= Len(stack') /\ stack'[q.part].active
    BY <1>3, <1>4, <1>5 DEF SearchInv, PathInv
  <2>4. Len(stack') <= n + 1
    BY <1>3, <1>4, InputFacts DEF SearchInv, PathInv
  <2> QED
    BY <1>1, <1>2, <1>4, <2>1, <2>2, <2>3, <2>4 DEF SearchInv, PathInv
<1>8. ExcludedInv'
  <2>1. excluded' \in [Range(problem.parts) -> Nat]
    OBVIOUS
  <2> QED
    BY <1>1, <2>1 DEF ExcludedInv
<1>9. BoundInv'
  <2> SUFFICES ASSUME NEW d \in 1 .. Len(stack'), stack'[d].skipVisited
               PROVE  /\ best' <= Cardinality(Below(placed, d)) + (n + 1 - d)
                      /\ d = 1 /\ Workers > 1 => RootFirst = 0
    BY <1>1, <1>2 DEF BoundInv, Workers, RootFirst, Parts
  <2>1. d \in 1 .. Len(stack) /\ stack[d].skipVisited
    BY <1>6
  <2>2. \A p \in placed : p.part # d
    BY <2>1 DEF SearchInv, PathInv
  <2>3. Sound(problem, placed)
    BY DEF SearchInv, PathInv
  <2> QED
    BY <2>1, <2>2, <2>3, BoundKept DEF SearchInv, BoundInv
<1>10. WorkerInv'
  BY <1>1 DEF SearchInv, WorkerInv
<1> QED
  BY <1>1, <1>2, <1>7, <1>8, <1>9, <1>10 DEF SearchInv

\* A popped frame is the only one that no longer counts as skipped.
LEMMA PoppedSkipped ==
  ASSUME SearchInv, Ready, stack' = Pop, NEW k
  PROVE  /\ Skipped(stack', problem, k) = Skipped(stack, problem, k) \ {Depth}
         /\ IsFiniteSet(Skipped(stack, problem, k))
<1>1. /\ stack \in Seq(Frames) /\ Depth \in Nat \ {0} /\ Depth = Len(stack)
      /\ stack' = SubSeq(stack, 1, Len(stack) - 1)
  BY TopFacts, InputFacts DEF Ready, SearchInv, Depth, Pop
<1>2. /\ Len(stack') = Depth - 1
      /\ \A d \in 1 .. Depth - 1 : stack'[d] = stack[d]
  BY <1>1, PopFacts
<1>3. \A d : d \in 1 .. Len(stack') <=> d \in 1 .. Len(stack) /\ d # Depth
  BY <1>1, <1>2
<1>4. Skipped(stack', problem, k) = Skipped(stack, problem, k) \ {Depth}
  BY <1>1, <1>2, <1>3 DEF Skipped
<1>5. IsFiniteSet(Skipped(stack, problem, k))
  <2>1. 1 \in Int /\ Len(stack) \in Int
    BY <1>1
  <2>2. IsFiniteSet(1 .. Len(stack))
    BY <2>1, FS_Interval, Zenon
  <2>3. Skipped(stack, problem, k) \subseteq 1 .. Len(stack)
    BY DEF Skipped
  <2> QED
    BY <2>2, <2>3, FS_Subset
<1> QED
  BY <1>4, <1>5

\* No skipped frame is popped.
LEMMA PopSkipped ==
  ASSUME SearchInv, Ready, stack' = Pop, ~Top.skipVisited, NEW k
  PROVE  Skipped(stack', problem, k) = Skipped(stack, problem, k)
<1>1. Depth \notin Skipped(stack, problem, k)
  BY DEF Skipped, Top
<1> QED
  BY <1>1, PoppedSkipped

\* Cut preserves the invariant: it never pops a frame that was skipped, whose
\* bound the best count cannot exceed, so no exclusion is left behind.
LEMMA CutKeeps ==
  ASSUME SearchInv, Cut
  PROVE  SearchInv'
<1> DEFINE n == Len(problem.parts)
<1>1. /\ Ready /\ Hopeless /\ Publish(placed) /\ stack' = Pop
      /\ UNCHANGED <<input, worker, tree, excluded, exhausted, phase>>
  BY DEF Cut
<1>2. Sound(problem, placed) /\ problem' = problem
  BY <1>1 DEF SearchInv, PathInv, input
<1>3. ResultInv' /\ (best' = best \/ best' = Cardinality(placed))
  BY <1>1, <1>2, Published
<1>4. ~Top.skipVisited
  <2>1. /\ Depth \in 1 .. n + 1 /\ Depth \in 1 .. Len(stack) /\ n \in Nat
        /\ Top = stack[Depth]
    BY <1>1, TopFacts, InputFacts DEF Ready, SearchInv, Depth, Top
  <2>2. Below(placed, Depth) = placed
    BY <1>1, PlacedBelow
  <2> SUFFICES ASSUME Top.skipVisited PROVE FALSE
    OBVIOUS
  <2>3. Depth <= n /\ Top.initialized
    BY <2>1 DEF SearchInv, PathInv
  <2>4. best <= Cardinality(placed) + (n + 1 - Depth)
    BY <2>1, <2>2 DEF SearchInv, BoundInv
  <2>5. best \in Nat /\ Cardinality(placed) \in Nat
    BY <1>2, SoundCount DEF SearchInv, ResultInv
  <2>6. ~(Depth > n) /\ ~(Cardinality(placed) + (n + 1 - Depth) < best)
    BY <2>1, <2>3, <2>4, <2>5
  <2> QED
    BY <1>1, <2>3, <2>6 DEF Hopeless, Bounded, Parts
<1>5. \A k : Skipped(stack', problem, k) = Skipped(stack, problem, k)
  BY <1>1, <1>4, PopSkipped
<1> QED
  BY <1>1, <1>3, <1>5, PopKeeps DEF SearchInv, ExcludedInv

\* A worker without the branch in which the first part is skipped never enters it.
LEMMA SkipNotOwnedKeeps ==
  ASSUME SearchInv, SkipNotOwned
  PROVE  SearchInv'
<1>1. /\ Ready /\ stack' = Pop
      /\ UNCHANGED <<input, worker, tree, excluded, result, exhausted, phase>>
  BY DEF SkipNotOwned, OffSheets
<1>2. ~Top.skipVisited
  <2>1. Depth \in 1 .. Len(stack) /\ Top = stack[Depth]
    BY <1>1, TopFacts DEF Ready, Depth, Top
  <2> QED
    BY <2>1 DEF SkipNotOwned, SearchInv, BoundInv
<1>3. \A k : Skipped(stack', problem, k) = Skipped(stack, problem, k)
  BY <1>1, <1>2, PopSkipped
<1>4. ResultInv' /\ best' = best
  BY <1>1, InputKept DEF SearchInv, ResultInv, result
<1> QED
  BY <1>1, <1>3, <1>4, PopKeeps DEF SearchInv, ExcludedInv

\* A skipped frame is popped: its copies are excluded once less.
LEMMA LeaveKeeps ==
  ASSUME SearchInv, Leave
  PROVE  SearchInv'
<1> DEFINE K == Range(problem.parts)
           p == problem.parts[Depth]
<1>1. /\ Ready /\ Top.skipVisited /\ stack' = Pop
      /\ excluded' = [excluded EXCEPT ![p] = excluded[p] - 1]
      /\ UNCHANGED <<input, worker, tree, result, exhausted, phase>>
  BY DEF Leave, SkipOwned, OffSheets, Parts
<1>2. /\ Depth \in 1 .. Len(problem.parts) /\ Depth = Len(stack)
      /\ Depth \in 1 .. Len(stack)
      /\ Top = stack[Depth]
  <2>1. Depth \in 1 .. Len(stack) /\ Depth = Len(stack) /\ Top = stack[Depth]
    BY <1>1, TopFacts DEF Ready, Depth, Top
  <2>2. Depth <= Len(problem.parts)
    BY <1>1, <2>1 DEF SearchInv, PathInv
  <2> QED
    BY <2>1, <2>2, InputFacts DEF SearchInv
<1>3. p \in K
  BY <1>2, PolicyFacts DEF SearchInv
<1>4. \A k : /\ Skipped(stack', problem, k) = Skipped(stack, problem, k) \ {Depth}
             /\ IsFiniteSet(Skipped(stack, problem, k))
  BY <1>1, PoppedSkipped
<1>5. \A k : Depth \in Skipped(stack, problem, k) <=> k = p
  BY <1>1, <1>2 DEF Skipped
<1> HIDE DEF K, p
<1>6. /\ excluded \in [K -> Nat]
      /\ \A k \in K : excluded[k] = Cardinality(Skipped(stack, problem, k))
  BY DEF SearchInv, ExcludedInv, K
<1>7. excluded' = [k \in K |-> IF k = p THEN excluded[k] - 1 ELSE excluded[k]]
  BY <1>1, <1>6
<1>8. ASSUME NEW k \in K
      PROVE  /\ excluded'[k] = Cardinality(Skipped(stack', problem, k))
             /\ excluded'[k] \in Nat
  <2> DEFINE S == Skipped(stack, problem, k)
  <2>1. IsFiniteSet(S) /\ Skipped(stack', problem, k) = S \ {Depth}
        /\ (Depth \in S <=> k = p)
    BY <1>4, <1>5
  <2>2. Cardinality(S) \in Nat /\ Cardinality(S \ {Depth}) \in Nat
        /\ excluded[k] = Cardinality(S)
    BY <1>6, <2>1, FS_CardinalityType, FS_RemoveElement
  <2> HIDE DEF S
  <2>3. Cardinality(S \ {Depth}) = IF Depth \in S THEN Cardinality(S) - 1
                                   ELSE Cardinality(S)
    BY <2>1, FS_RemoveElement
  <2> QED
    BY <1>7, <2>1, <2>2, <2>3
<1>9. ResultInv' /\ best' = best
  BY <1>1, InputKept DEF SearchInv, ResultInv, result
<1>10. excluded' = [k \in K |-> excluded'[k]]
  BY <1>7
<1> QED
  BY <1>1, <1>8, <1>9, <1>10, PopKeeps DEF K

\* The stack after a skip.
LEMMA SkipStack ==
  ASSUME SearchInv, Skip
  PROVE  /\ stack' \in Seq(Frames) /\ Len(stack') = Depth + 1
         /\ \A d \in 1 .. Depth - 1 : stack'[d] = stack[d]
         /\ stack'[Depth + 1] = Frame
         /\ stack'[Depth].skipVisited
         /\ stack'[Depth].active = Top.active
         /\ stack'[Depth].initialized = Top.initialized
         /\ stack'[Depth].sheet = Top.sheet /\ stack'[Depth].flags = Top.flags
         /\ stack'[Depth].first = Top.first
         /\ stack'[Depth].next = Top.next /\ stack'[Depth].cursor = Top.cursor
<1> DEFINE t == Top
           f == [t EXCEPT !.skipVisited = TRUE]
<1>1. Searching /\ stack' = Append(SetTop(f), Frame)
  BY DEF Skip, SkipOwned, OffSheets, Ready
<1>2. t \in Frames /\ f = [t EXCEPT !.skipVisited = TRUE]
  BY <1>1, TopFacts
<1> HIDE DEF t, f
<1>3. f = [sheet |-> t.sheet, next |-> t.next, first |-> t.first,
           cursor |-> t.cursor, size |-> t.size, flags |-> t.flags,
           skipVisited |-> TRUE, active |-> t.active,
           initialized |-> t.initialized, index |-> t.index,
           chosen |-> t.chosen]
  BY <1>2 DEF Frames
<1>4. f \in Frames
  BY <1>2, <1>3 DEF Frames
<1>5. /\ f.skipVisited /\ f.active = t.active /\ f.initialized = t.initialized
      /\ f.sheet = t.sheet /\ f.flags = t.flags /\ f.first = t.first
      /\ f.next = t.next /\ f.cursor = t.cursor
  BY <1>3
<1> DEFINE s2 == SetTop(f)
<1>6. /\ stack \in Seq(Frames) /\ Depth \in Nat /\ Depth # 0
      /\ Depth = Len(stack) /\ s2 = [stack EXCEPT ![Len(stack)] = f]
  BY <1>1, TopFacts, InputFacts DEF SetTop, Depth, SearchInv
<1>7. stack' = Append(s2, Frame)
  BY <1>1
<1> HIDE DEF s2
<1>8. /\ s2 \in Seq(Frames) /\ Len(s2) = Depth /\ s2[Depth] = f
      /\ \A d \in 1 .. Depth - 1 : s2[d] = stack[d]
  BY <1>4, <1>6, SetTopFacts
<1>9. /\ stack' \in Seq(Frames) /\ Len(stack') = Depth + 1
      /\ stack'[Depth + 1] = Frame
      /\ \A d \in 1 .. Depth : stack'[d] = s2[d]
  BY <1>7, <1>8, FrameFacts, AppendFacts
<1>10. stack'[Depth] = f /\ \A d \in 1 .. Depth - 1 : stack'[d] = stack[d]
  BY <1>6, <1>8, <1>9
<1> QED
  BY <1>5, <1>9, <1>10 DEF t

\* The frame is skipped, and with it the later copies of its part.
LEMMA SkipKeeps ==
  ASSUME SearchInv, Skip
  PROVE  SearchInv'
<1> DEFINE n == Len(problem.parts)
           K == Range(problem.parts)
           w == problem.parts[Depth]
<1>1. /\ Ready /\ Searching /\ ~Bounded /\ Top.initialized
      /\ Top.sheet > Len(problem.sheets)
      /\ ~(Depth = 1 /\ Workers > 1 /\ RootFirst # 0)
      /\ ~Top.skipVisited
      /\ excluded' = [excluded EXCEPT ![w] = excluded[w] + 1]
      /\ UNCHANGED <<input, worker, tree, result, exhausted, phase>>
  BY DEF Skip, SkipOwned, OffSheets, Ready, Parts, Sheets
<1>2. /\ InputInv' /\ worker' \in 0 .. Workers' - 1
      /\ UNCHANGED <<problem, flow, broker>>
  BY <1>1, InputKept
<1>3. DeviceInv' /\ placed' = placed
  BY <1>1, DeviceKept DEF tree
<1>4. /\ Depth \in 1 .. n + 1 /\ Depth = Len(stack) /\ n \in Nat
      /\ Top = stack[Depth] /\ ~Top.active
  BY <1>1, TopFacts, InputFacts DEF Ready, SearchInv, Depth, Top
<1>5. /\ Depth \in 1 .. n
      /\ best <= Cardinality(placed) + (n + 1 - Depth)
  <2>1. ~(Depth > n) /\ ~(Cardinality(placed) + (n + 1 - Depth) < best)
    BY <1>1 DEF Bounded, Parts
  <2>2. best \in Nat /\ Cardinality(placed) \in Nat
    BY SoundCount DEF SearchInv, ResultInv, PathInv
  <2> QED
    BY <1>4, <2>1, <2>2
<1>6. /\ stack' \in Seq(Frames) /\ Len(stack') = Depth + 1
      /\ \A d \in 1 .. Depth - 1 : stack'[d] = stack[d]
      /\ stack'[Depth + 1] = Frame
      /\ stack'[Depth].skipVisited
      /\ stack'[Depth].active = Top.active
      /\ stack'[Depth].initialized = Top.initialized
      /\ stack'[Depth].sheet = Top.sheet /\ stack'[Depth].flags = Top.flags
  BY SkipStack
<1>7. \A d \in 1 .. Depth + 1 :
        \/ d \in 1 .. Depth - 1 /\ stack'[d] = stack[d]
        \/ d = Depth
        \/ d = Depth + 1 /\ stack'[d] = Frame
  BY <1>5, <1>6
<1>8. \A d \in 1 .. Depth + 1 : stack'[d].skipVisited =>
        \/ d = Depth
        \/ d \in 1 .. Depth - 1 /\ stack'[d] = stack[d] /\ stack[d].skipVisited
  BY <1>6, <1>7, FrameFacts
<1>9. \A p \in placed : p.part \in 1 .. Depth - 1 /\ stack[p.part].active
  BY <1>1, PlacedBelow DEF SearchInv, PathInv
<1>10. PathInv'
  <2>1. \A d \in 1 .. Len(stack') : stack'[d].skipVisited =>
          /\ d <= n
          /\ stack'[d].initialized /\ ~stack'[d].active
          /\ stack'[d].sheet > Len(problem.sheets)
    <3> SUFFICES ASSUME NEW d \in 1 .. Depth + 1, stack'[d].skipVisited
                 PROVE  /\ d <= n /\ stack'[d].initialized /\ ~stack'[d].active
                        /\ stack'[d].sheet > Len(problem.sheets)
      BY <1>6
    <3>1. CASE d = Depth
      <4>1. Depth <= n /\ stack'[Depth].sheet > Len(problem.sheets)
        BY <1>1, <1>5, <1>6
      <4>2. stack'[Depth].initialized /\ ~stack'[Depth].active
        BY <1>1, <1>4, <1>6, Zenon
      <4> QED
        BY <3>1, <4>1, <4>2
    <3>2. CASE d \in 1 .. Depth - 1 /\ stack'[d] = stack[d] /\ stack[d].skipVisited
      BY <1>4, <3>2 DEF SearchInv, PathInv
    <3> QED
      BY <1>8, <3>1, <3>2
  <2>2. \A d \in 1 .. Len(stack') : stack'[d].flags # <<>> =>
          /\ d <= n /\ stack'[d].initialized
          /\ stack'[d].sheet <= Len(problem.sheets)
          /\ RowsOf(problem, d, stack'[d].sheet) > 0
    <3> SUFFICES ASSUME NEW d \in 1 .. Depth + 1, stack'[d].flags # <<>>
                 PROVE  /\ d <= n /\ stack'[d].initialized
                        /\ stack'[d].sheet <= Len(problem.sheets)
                        /\ RowsOf(problem, d, stack'[d].sheet) > 0
      BY <1>6
    <3>1. CASE d \in 1 .. Depth - 1 /\ stack'[d] = stack[d]
      <4>1. d \in 1 .. Len(stack) /\ stack[d].flags # <<>>
        BY <1>4, <3>1
      <4> QED
        BY <3>1, <4>1 DEF SearchInv, PathInv
    <3>2. CASE d = Depth
      <4>1. Top.flags # <<>> /\ Depth \in 1 .. Len(stack)
        BY <1>4, <1>6, <3>2
      <4>2. stack[Depth].sheet <= Len(problem.sheets) /\ stack[Depth].sheet \in Nat
        BY <1>1, <1>4, <4>1, TopFacts DEF SearchInv, PathInv, Frames
      <4> QED
        BY <1>1, <1>4, <4>2, InputFacts DEF SearchInv
    <3>3. CASE d = Depth + 1 /\ stack'[d] = Frame
      BY <3>3, FrameFacts
    <3> QED
      BY <1>7, <3>1, <3>2, <3>3
  <2>3. \A p \in placed : p.part <= Len(stack') /\ stack'[p.part].active
    BY <1>5, <1>6, <1>9
  <2>4. Sound(problem, placed) /\ Depth + 1 <= n + 1
    BY <1>5 DEF SearchInv, PathInv
  <2> QED
    BY <1>2, <1>3, <1>6, <2>1, <2>2, <2>3, <2>4 DEF PathInv
<1>11. \A k : Skipped(stack', problem, k) =
                IF k = w THEN Skipped(stack, problem, k) \cup {Depth}
                ELSE Skipped(stack, problem, k)
  <2>1. \A d : d \in 1 .. Depth + 1 /\ stack'[d].skipVisited <=>
                 \/ d = Depth
                 \/ d \in 1 .. Depth /\ stack[d].skipVisited
    <3> TAKE d
    <3>1. CASE d = Depth
      BY <1>5, <1>6, <3>1
    <3>2. CASE d # Depth
      BY <1>5, <1>6, <1>8, <3>2
    <3> QED
      BY <3>1, <3>2
  <2> QED
    BY <1>4, <1>6, <2>1 DEF Skipped
<1>12. ExcludedInv'
  <2>1. w \in K
    BY <1>5, PolicyFacts DEF SearchInv
  <2>2. /\ excluded \in [K -> Nat]
        /\ \A k \in K : excluded[k] = Cardinality(Skipped(stack, problem, k))
    BY DEF SearchInv, ExcludedInv
  <2> HIDE DEF K, w
  <2>3. excluded' = [k \in K |-> IF k = w THEN excluded[k] + 1 ELSE excluded[k]]
    BY <1>1, <2>2
  <2>4. ASSUME NEW k \in K
        PROVE  excluded'[k] = Cardinality(Skipped(stack', problem, k))
    <3> DEFINE S == Skipped(stack, problem, k)
    <3>1. IsFiniteSet(S)
      <4>1. 1 \in Int /\ Len(stack) \in Int
        BY <1>4, <1>5
      <4>2. IsFiniteSet(1 .. Len(stack))
        BY <4>1, FS_Interval, Zenon
      <4>3. S \subseteq 1 .. Len(stack)
        BY DEF Skipped
      <4> QED
        BY <4>2, <4>3, FS_Subset
    <3>2. Depth \notin S /\ excluded[k] = Cardinality(S)
      BY <1>1, <1>4, <2>2 DEF Skipped
    <3>3. Skipped(stack', problem, k) = IF k = w THEN S \cup {Depth} ELSE S
      BY <1>11
    <3> HIDE DEF S
    <3>4. Cardinality(S \cup {Depth}) = Cardinality(S) + 1
      BY <3>1, <3>2, FS_AddElement
    <3> QED
      BY <2>3, <3>2, <3>3, <3>4
  <2>5. excluded' \in [K -> Nat]
    BY <2>2, <2>3
  <2> QED
    BY <1>2, <2>4, <2>5 DEF ExcludedInv, K
<1>13. BoundInv'
  <2> SUFFICES ASSUME NEW d \in 1 .. Len(stack'), stack'[d].skipVisited
               PROVE  /\ best <= Cardinality(Below(placed, d)) + (n + 1 - d)
                      /\ d = 1 /\ Workers > 1 => RootFirst = 0
    BY <1>1, <1>2, <1>3 DEF BoundInv, Workers, RootFirst, Parts, result
  <2>1. CASE d = Depth
    BY <1>1, <1>5, <2>1, PlacedBelow
  <2>2. CASE d \in 1 .. Depth - 1 /\ stack[d].skipVisited
    BY <1>4, <2>2 DEF SearchInv, BoundInv
  <2> QED
    BY <1>6, <1>8, <2>1, <2>2
<1>14. ResultInv'
  BY <1>1, <1>2 DEF SearchInv, ResultInv, result
<1>15. WorkerInv'
  BY <1>1, <1>2 DEF SearchInv, WorkerInv
<1> QED
  BY <1>2, <1>3, <1>10, <1>12, <1>13, <1>14, <1>15 DEF SearchInv

\* A worker starts without toggles.
LEMMA NoUpdatesFacts ==
  ASSUME InputInv
  PROVE  /\ NoUpdates = [u \in 1 .. Len(problem.sheets) |-> {}]
         /\ 0 \in 0 .. Len(problem.sheets)
BY InputFacts DEF NoUpdates, Sheets

\* The next worker begins: its predecessor has taken everything back.
LEMMA NextWorkerKeeps ==
  ASSUME SearchInv, NextWorker
  PROVE  SearchInv'
<1>1. /\ stack = <<>> /\ worker < Workers - 1 /\ worker' = worker + 1
      /\ stack' = <<Frame>> /\ best' = 0 /\ layout' = {} /\ gpu' = Gpu(broker)
      /\ UNCHANGED <<input, placed, occupied, excluded, overall, exhausted, phase>>
  BY DEF NextWorker
<1>2. UNCHANGED <<problem, flow, broker>> /\ InputInv'
  BY <1>1 DEF input, SearchInv, InputInv
<1>3. worker' \in 0 .. Workers' - 1 /\ WorkerInv'
  <2>1. Workers' = Workers /\ Workers \in Nat /\ worker \in 0 .. Workers - 1
    BY <1>2, WorkerFacts DEF Workers, Parts, SearchInv, WorkerInv
  <2> QED
    BY <1>1, <2>1 DEF SearchInv, WorkerInv
<1>4. placed = {}
  <2>1. \A p \in placed : p.part \in 1 .. Len(problem.parts) /\ p.part <= 0
    BY <1>1 DEF SearchInv, PathInv, Sound, PlacementsOf
  <2> QED
    BY <2>1, InputFacts DEF SearchInv
<1>5. /\ stack' \in Seq(Frames) /\ Len(stack') = 1 /\ stack'[1] = Frame
  BY <1>1, FrameFacts
<1>6. \A d \in 1 .. Len(stack') : ~stack'[d].skipVisited /\ stack'[d].flags = <<>>
  BY <1>5, FrameFacts
<1>7. PathInv'
  BY <1>1, <1>2, <1>4, <1>5, <1>6, InputFacts DEF PathInv, SearchInv
<1>8. BoundInv'
  BY <1>6 DEF BoundInv
<1>9. ResultInv'
  BY <1>1, <1>2, FS_EmptySet DEF SearchInv, ResultInv, Sound
<1>10. ExcludedInv'
  <2>1. \A k : Skipped(stack', problem, k) = {} /\ Skipped(stack, problem, k) = {}
    BY <1>1, <1>6 DEF Skipped
  <2> QED
    BY <1>1, <1>2, <2>1 DEF SearchInv, ExcludedInv
<1>11. DeviceInv'
  <2>1. /\ gpu' = [on |-> gpu'.on, sheet |-> gpu'.sheet, bits |-> gpu'.bits,
                   updates |-> gpu'.updates]
        /\ gpu'.updates = NoUpdates /\ gpu'.on = broker /\ gpu'.sheet = 0
    BY <1>1 DEF Gpu
  <2>2. gpu'.updates = [u \in 1 .. Len(problem'.sheets) |-> gpu'.updates[u]]
    BY <1>2, <2>1, NoUpdatesFacts DEF SearchInv
  <2>3. occupied' = [u \in 1 .. Len(problem'.sheets) |-> occupied'[u]]
    BY <1>1, <1>2 DEF SearchInv, DeviceInv
  <2>4. gpu'.on \in BOOLEAN /\ (gpu'.on => broker')
        /\ gpu'.sheet \in 0 .. Len(problem'.sheets)
    BY <1>2, <2>1, NoUpdatesFacts DEF SearchInv, InputInv
  <2> QED
    BY <2>1, <2>2, <2>3, <2>4 DEF DeviceInv
<1> QED
  BY <1>2, <1>3, <1>7, <1>8, <1>9, <1>10, <1>11 DEF SearchInv

\* The search ends, or nothing changes.
LEMMA EndKeeps ==
  ASSUME SearchInv, AllExhausted \/ Expire \/ Throw \/ UNCHANGED searchVars
  PROVE  SearchInv'
<1>1. /\ UNCHANGED <<input, worker, stack, tree, excluded, result>>
      /\ exhausted' \in BOOLEAN /\ phase' \in {"searching", "done", "failed"}
  BY DEF AllExhausted, Expire, Throw, searchVars, SearchInv, WorkerInv
<1>2. /\ InputInv' /\ worker' \in 0 .. Workers' - 1
      /\ UNCHANGED <<problem, flow, broker, best, layout, overall, placed>>
  BY <1>1, InputKept DEF result, tree
<1>3. DeviceInv'
  BY <1>1, DeviceKept DEF tree
<1>4. PathInv' /\ BoundInv'
  BY <1>1, <1>2
     DEF SearchInv, PathInv, BoundInv, Workers, RootFirst, Parts
<1>5. ResultInv' /\ ExcludedInv' /\ WorkerInv'
  BY <1>1, <1>2 DEF SearchInv, ResultInv, ExcludedInv, WorkerInv
<1> QED
  BY <1>2, <1>3, <1>4, <1>5 DEF SearchInv

\* The search starts in the invariant.
LEMMA InitSearchInv == SearchInit => SearchInv
<1> SUFFICES ASSUME SearchInit PROVE SearchInv
  OBVIOUS
<1>1. InputInv
  BY SearchAssumption DEF SearchAssumption, SearchInit, InputInv
<1>2. /\ stack \in Seq(Frames) /\ Len(stack) = 1 /\ stack[1] = Frame
  BY FrameFacts DEF SearchInit
<1>3. \A d \in 1 .. Len(stack) : ~stack[d].skipVisited /\ stack[d].flags = <<>>
  BY <1>2, FrameFacts
<1>4. PathInv
  BY <1>1, <1>2, <1>3, InputFacts DEF PathInv, Sound, SearchInit
<1>5. BoundInv
  BY <1>3 DEF BoundInv
<1>6. ResultInv
  BY <1>1, InputFacts, FS_EmptySet DEF SearchInit, ResultInv, Sound
<1>7. ExcludedInv
  <2>1. \A k : Skipped(stack, problem, k) = {}
    BY <1>3 DEF Skipped
  <2>2. Cardinality({}) = 0
    BY FS_EmptySet
  <2> QED
    BY <2>1, <2>2 DEF SearchInit, ExcludedInv, Parts
<1>8. DeviceInv
  <2>1. /\ gpu = [on |-> gpu.on, sheet |-> gpu.sheet, bits |-> gpu.bits,
                  updates |-> gpu.updates]
        /\ gpu.updates = NoUpdates /\ gpu.on = broker /\ gpu.sheet = 0
    BY DEF Gpu, SearchInit
  <2>2. gpu.updates = [u \in 1 .. Len(problem.sheets) |-> gpu.updates[u]]
    BY <1>1, <2>1, NoUpdatesFacts
  <2>3. occupied = [u \in 1 .. Len(problem.sheets) |-> occupied[u]]
    BY <1>1, InputFacts DEF SearchInit, Sheets
  <2>4. gpu.on \in BOOLEAN /\ gpu.sheet \in 0 .. Len(problem.sheets)
    BY <1>1, <2>1, NoUpdatesFacts DEF InputInv
  <2> QED
    BY <2>1, <2>2, <2>3, <2>4 DEF DeviceInv
<1>9. WorkerInv
  BY <1>1, WorkerFacts DEF SearchInit, WorkerInv
<1> QED
  BY <1>1, <1>4, <1>5, <1>6, <1>7, <1>8, <1>9 DEF SearchInv

\* Every step preserves it.
LEMMA StepSearchInv == SearchInv /\ [SearchNext]_searchVars => SearchInv'
<1> SUFFICES ASSUME SearchInv, [SearchNext]_searchVars PROVE SearchInv'
  OBVIOUS
<1>1. CASE Backtrack BY <1>1, BacktrackKeeps
<1>2. CASE Cut BY <1>2, CutKeeps
<1>3. CASE Begin BY <1>3, BeginKeeps
<1>4. CASE SkipNotOwned BY <1>4, SkipNotOwnedKeeps
<1>5. CASE Skip BY <1>5, SkipKeeps
<1>6. CASE Leave BY <1>6, LeaveKeeps
<1>7. CASE NextSheet BY <1>7, NextSheetKeeps
<1>8. CASE Filter BY <1>8, FilterKeeps
<1>9. CASE FilterOnDevice BY <1>9, FilterOnDeviceKeeps
<1>10. CASE NoHit \/ RejectHit BY <1>10, HitsKeep
<1>11. CASE Commit BY <1>11, CommitKeeps
<1>12. CASE NextWorker BY <1>12, NextWorkerKeeps
<1>13. CASE DeviceFails BY <1>13, DeviceFailsKeeps
<1>14. CASE AllExhausted \/ Expire \/ Throw \/ UNCHANGED searchVars
  BY <1>14, EndKeeps
<1> QED
  BY <1>1, <1>2, <1>3, <1>4, <1>5, <1>6, <1>7, <1>8, <1>9, <1>10, <1>11, <1>12,
     <1>13, <1>14 DEF SearchNext, Step

\* The inductive invariant of the search, for every input and in every
\* direction of filling.
LEMMA SearchInvAlways == SearchSpec => []SearchInv
BY InitSearchInv, StepSearchInv, PTL DEF SearchSpec

\* It contains the types.
LEMMA SearchInvTypes == SearchInv => SearchTyped
<1> SUFFICES ASSUME SearchInv PROVE SearchTyped
  OBVIOUS
<1>1. /\ worker \in 0 .. Workers - 1 /\ exhausted \in BOOLEAN
      /\ phase \in {"searching", "done", "failed"}
  BY DEF SearchInv, WorkerInv
<1>2. Len(stack) <= Len(Parts) + 1 /\ placed \subseteq PlacementsOf(problem)
  BY DEF SearchInv, PathInv, Sound, Parts
<1>3. (gpu.on => broker) /\ gpu.sheet \in 0 .. Len(Sheets)
  BY DEF SearchInv, DeviceInv, Sheets
<1>4. excluded \in [Range(Parts) -> Nat]
  BY DEF SearchInv, ExcludedInv, Parts
<1>5. best \in 0 .. Len(Parts) /\ overall \in 0 .. Len(Parts)
  BY SoundCount DEF SearchInv, ResultInv, Parts
<1> QED
  BY <1>1, <1>2, <1>3, <1>4, <1>5 DEF SearchTyped, PlacementsOf, Parts, Sheets

\* It contains the soundness of the reported layout.
LEMMA SearchInvBest == SearchInv => BestValid
BY DEF SearchInv, ResultInv, BestValid, Sound, Core, CoreOf, Halo, HaloOf, Parts,
       Sheets

\* Whatever is undone, cut, skipped or interrupted, and in every direction of
\* filling: the reported layout counts its parts, places none of them twice and
\* keeps every clearance (publish and the exact tests before a commit).
THEOREM BestValidAlways == SearchSpec => []BestValid
BY SearchInvAlways, SearchInvBest, PTL

-----------------------------------------------------------------------------
(* Flags and the bitmap.                                                   *)

\* The candidate of an index is its mask at its origin.
LEMMA CandidateIs ==
  ASSUME NEW s, NEW i
  PROVE  CandidateOf(problem, flow, worker, Depth, s, i) =
           [r |-> FirstMask + (i % MaskCount),
            x |-> Origin(s, i \div MaskCount).x, y |-> Origin(s, i \div MaskCount).y]
<1>1. /\ Columns(s) = ColumnsOf(problem, Depth, s)
      /\ Rows(s) = RowsOf(problem, Depth, s)
      /\ Edge = EdgeOf(problem)
  BY DEF Columns, Rows, Edge
<1>2. /\ Workers = Min({Threads, Len(problem.parts[1])})
      /\ RootFirst = (Len(problem.parts[1]) * worker) \div Workers
      /\ RootCount = ((Len(problem.parts[1]) * (worker + 1)) \div Workers) - RootFirst
      /\ FirstMask = IF Depth = 1 /\ Workers > 1 THEN RootFirst ELSE 0
      /\ MaskCount = IF Depth = 1 /\ Workers > 1 THEN RootCount
                 ELSE Len(problem.parts[Depth])
  BY DEF Workers, RootFirst, RootCount, FirstMask, MaskCount, Shares, Parts
<1>3. \A cell :
        LET byColumn == flow \in {"automatic", "left", "right"}
            x == IF byColumn THEN cell \div Rows(s) ELSE cell % Columns(s)
            y == IF byColumn THEN cell % Rows(s) ELSE cell \div Columns(s)
        IN Origin(s, cell) =
             [x |-> (IF flow = "right" THEN Columns(s) - 1 - x ELSE x) * problem.step
                      + Edge,
              y |-> (IF flow = "top" THEN Rows(s) - 1 - y ELSE y) * problem.step
                      + Edge]
  BY DEF Origin, Lattice
<1> QED
  BY <1>1, <1>2, <1>3 DEF CandidateOf

\* The flag of a candidate says whether it fits.
LEMMA FlagIs ==
  ASSUME NEW s, NEW i
  PROVE  Flag(s, i) <=> FitsAt(problem, Depth, s, occupied[s],
                               CandidateOf(problem, flow, worker, Depth, s, i))
<1> DEFINE c == CandidateOf(problem, flow, worker, Depth, s, i)
           o == Origin(s, i \div MaskCount)
           r == FirstMask + (i % MaskCount)
<1>1. c = [r |-> r, x |-> o.x, y |-> o.y]
  BY CandidateIs
<1> HIDE DEF c, o, r
<1>2. c.r = r /\ c.x = o.x /\ c.y = o.y
  BY <1>1
<1>3. \A ps : Shifted(ps, c) = Shifted(ps, o)
  BY <1>2 DEF Shifted
<1>4. FitsAt(problem, Depth, s, occupied[s], c) <=> MaskFits(occupied[s], s, r, o)
  BY <1>2, <1>3 DEF FitsAt, MaskFits, Parts, Sheets
<1> QED
  BY <1>4 DEF Flag, c, o, r

\* From the left, what is tested is also what is committed; the device tests
\* what the CPU tests in every direction.
LEMMA OriginIs ==
  ASSUME NEW s, NEW cell
  PROVE  /\ flow \in {"automatic", "left"} => Origin(s, cell) = Decode(s, cell)
         /\ DeviceOrigin(s, cell) = Origin(s, cell)
<1>1. ASSUME flow \in {"automatic", "left"}
      PROVE  Origin(s, cell) = Decode(s, cell)
  <2>1. flow \in {"automatic", "left", "right"} /\ flow # "right" /\ flow # "top"
    BY <1>1
  <2> QED
    BY <2>1 DEF Origin, Decode
<1>2. DeviceOrigin(s, cell) = Origin(s, cell)
  <2>1. CASE flow = "automatic"
    BY <1>1, <2>1 DEF DeviceOrigin, Decode
  <2>2. CASE flow # "automatic"
    BY <2>2 DEF DeviceOrigin
  <2> QED
    BY <2>1, <2>2
<1> QED
  BY <1>1, <1>2

\* Without them the placement of a hit is the candidate of its flag.
LEMMA HitIs ==
  ASSUME flow \in {"automatic", "left"}
  PROVE  LET c == CandidateOf(problem, flow, worker, Depth, Top.sheet, Hit)
         IN /\ c.r = HitPlacement.r /\ c.x = HitPlacement.x /\ c.y = HitPlacement.y
            /\ HitPlacement.part = Depth /\ HitPlacement.sheet = Top.sheet
<1> DEFINE o == Origin(Top.sheet, Hit \div MaskCount)
           d == Decode(Top.sheet, Hit \div MaskCount)
<1>1. o = d
  BY OriginIs
<1>2. HitPlacement = [part |-> Depth, sheet |-> Top.sheet, r |-> HitMask,
                      x |-> d.x, y |-> d.y]
  BY DEF HitPlacement
<1>3. CandidateOf(problem, flow, worker, Depth, Top.sheet, Hit) =
        [r |-> HitMask, x |-> o.x, y |-> o.y]
  BY CandidateIs DEF HitMask
<1> HIDE DEF o, d
<1> QED
  BY <1>1, <1>2, <1>3

\* The flags of a frame stay right while its sheet and the parts below stay.
LEMMA FlagsKept ==
  ASSUME FlagsInv, UNCHANGED <<problem, flow, worker>>,
         \A d \in 1 .. Len(stack') :
           \/ stack'[d].flags = <<>>
           \/ /\ d \in 1 .. Len(stack)
              /\ stack'[d].flags = stack[d].flags
              /\ stack'[d].sheet = stack[d].sheet
              /\ stack'[d].first = stack[d].first
              /\ Below(placed', d) = Below(placed, d)
  PROVE  FlagsInv'
<1> SUFFICES ASSUME NEW d \in 1 .. Len(stack'), NEW c \in 1 .. Len(stack'[d].flags)
             PROVE  stack'[d].flags[c] <=>
                      FitsAt(problem, d, stack'[d].sheet,
                             Toggled(problem, Below(placed', d), stack'[d].sheet),
                             CandidateOf(problem, flow, worker, d, stack'[d].sheet,
                                         stack'[d].first + c - 1))
  BY DEF FlagsInv
<1>1. CASE stack'[d].flags = <<>>
  <2>1. Len(stack'[d].flags) = 0
    BY <1>1
  <2> QED
    BY <2>1
<1>2. CASE stack'[d].flags # <<>>
  BY <1>2, Zenon DEF FlagsInv
<1> QED
  BY <1>1, <1>2

\* A step that leaves the placements alone and moves the top frame on.
LEMMA TopFlags ==
  ASSUME SearchInv, TreeInv, Searching, NEW f \in Frames, stack' = SetTop(f),
         \/ f.flags = <<>>
         \/ f.flags = Top.flags /\ f.sheet = Top.sheet /\ f.first = Top.first,
         UNCHANGED <<input, worker, placed, occupied>>
  PROVE  TreeInv'
<1>1. /\ stack \in Seq(Frames) /\ Depth \in Nat \ {0} /\ Depth = Len(stack)
      /\ Top = stack[Depth] /\ stack' = [stack EXCEPT ![Len(stack)] = f]
      /\ Len(stack) # 0
  BY TopFacts, InputFacts DEF SetTop, Depth, Top, SearchInv
<1>2. /\ Len(stack') = Depth /\ stack'[Depth] = f
      /\ \A d \in 1 .. Depth - 1 : stack'[d] = stack[d]
  BY <1>1, SetTopFacts
<1>3. \A d \in 1 .. Depth : d = Depth \/ stack'[d] = stack[d]
  BY <1>1, <1>2
<1>4. UNCHANGED <<problem, flow, worker, placed, occupied>>
  BY DEF input
<1>5. FlagsInv'
  BY <1>1, <1>2, <1>3, <1>4, FlagsKept DEF TreeInv
<1> QED
  BY <1>4, <1>5 DEF TreeInv

\* The placements below the top frame are all there are: its flags are those
\* of the occupied pixels.
LEMMA TopToggled ==
  ASSUME SearchInv, TreeInv, OnSheet
  PROVE  /\ Top.sheet \in 1 .. Len(problem.sheets)
         /\ Below(placed, Depth) = placed
         /\ Toggled(problem, Below(placed, Depth), Top.sheet) = occupied[Top.sheet]
<1>1. Top.sheet \in 1 .. Len(problem.sheets) /\ Below(placed, Depth) = placed
  BY OnSheetFacts, PlacedBelow DEF OnSheet
<1> QED
  BY <1>1 DEF TreeInv

\* A new batch is right, whoever computed its flags.
LEMMA BatchFlags ==
  ASSUME SearchInv, TreeInv, Filtering, NEW flags \in Seq(BOOLEAN),
         stack' = SetTop(Filtered(flags)),
         \A i \in 1 .. Len(flags) : flags[i] <=> Flag(Top.sheet, Top.next + i - 1),
         UNCHANGED <<input, worker, placed, occupied>>
  PROVE  TreeInv'
<1> DEFINE f == Filtered(flags)
<1>1. /\ f \in Frames /\ f.sheet = Top.sheet /\ f.flags = flags
      /\ f.first = Top.next
  BY FilteredFacts
<1>2. Searching /\ OnSheet
  BY DEF Filtering, OnSheet, Ready
<1>3. stack' = SetTop(f)
  OBVIOUS
<1> HIDE DEF f
<1>4. /\ stack \in Seq(Frames) /\ Depth \in Nat \ {0} /\ Depth = Len(stack)
      /\ stack' = [stack EXCEPT ![Len(stack)] = f]
      /\ Len(stack) # 0
  BY <1>2, <1>3, TopFacts, InputFacts DEF SetTop, Depth, SearchInv
<1>5. /\ Len(stack') = Depth /\ stack'[Depth] = f
      /\ \A d \in 1 .. Depth - 1 : stack'[d] = stack[d]
  BY <1>1, <1>4, SetTopFacts
<1>6. UNCHANGED <<problem, flow, worker, placed, occupied>>
  BY DEF input
<1>7. FlagsInv'
  <2> SUFFICES ASSUME NEW d \in 1 .. Depth, NEW c \in 1 .. Len(stack'[d].flags)
               PROVE  stack'[d].flags[c] <=>
                        FitsAt(problem, d, stack'[d].sheet,
                               Toggled(problem, Below(placed, d), stack'[d].sheet),
                               CandidateOf(problem, flow, worker, d, stack'[d].sheet,
                                           stack'[d].first + c - 1))
    BY <1>5, <1>6 DEF FlagsInv
  <2>1. CASE d \in 1 .. Depth - 1
    <3>1. stack'[d] = stack[d] /\ d \in 1 .. Len(stack)
      BY <1>4, <1>5, <2>1
    <3> QED
      BY <3>1 DEF TreeInv, FlagsInv
  <2>2. CASE d = Depth
    <3> DEFINE s == Top.sheet
               cand == CandidateOf(problem, flow, worker, Depth, s, Top.next + c - 1)
    <3>1. c \in 1 .. Len(flags) /\ stack'[d].flags = flags
          /\ stack'[d].sheet = s /\ stack'[d].first = Top.next
      BY <1>1, <1>5, <2>2
    <3>2. flags[c] <=> Flag(s, Top.next + c - 1)
      BY <3>1
    <3>3. Flag(s, Top.next + c - 1) <=> FitsAt(problem, Depth, s, occupied[s], cand)
      BY FlagIs
    <3>4. Toggled(problem, Below(placed, Depth), s) = occupied[s]
      BY <1>2, TopToggled
    <3> QED
      BY <2>2, <3>1, <3>2, <3>3, <3>4, Zenon
  <2> QED
    BY <1>4, <2>1, <2>2
<1> QED
  BY <1>6, <1>7 DEF TreeInv

\* On the CPU.
LEMMA FilterTree ==
  ASSUME SearchInv, TreeInv, Filter
  PROVE  TreeInv'
<1> DEFINE flags == [i \in 1 .. Batch |-> Flag(Top.sheet, Top.next + i - 1)]
<1>1. Filtering /\ stack' = SetTop(Filtered(flags))
      /\ UNCHANGED <<input, worker, placed, occupied>>
  BY DEF Filter, tree
<1>2. Batch \in Nat
  BY <1>1, BatchFacts
<1>3. \A i \in 1 .. Batch : Flag(Top.sheet, Top.next + i - 1) \in BOOLEAN
  BY DEF Flag, MaskFits
<1>4. flags \in Seq(BOOLEAN) /\ Len(flags) = Batch
  BY <1>2, <1>3
<1>5. \A i \in 1 .. Len(flags) : flags[i] <=> Flag(Top.sheet, Top.next + i - 1)
  BY <1>4
<1> HIDE DEF flags
<1> QED
  BY <1>1, <1>4, <1>5, BatchFlags

\* On the device, which has the same bits and tests the same origins.
LEMMA FilterOnDeviceTree ==
  ASSUME SearchInv, TreeInv, FilterOnDevice
  PROVE  TreeInv'
<1>1. PICK bits \in DeviceBits :
        stack' = SetTop(Filtered(
          [i \in 1 .. Batch |-> DeviceFlag(bits, Top.sheet, Top.next + i - 1)]))
  BY DEF FilterOnDevice
<1> DEFINE flags == [i \in 1 .. Batch |->
                       DeviceFlag(bits, Top.sheet, Top.next + i - 1)]
<1>2. Filtering /\ OnSheet /\ gpu.on /\ stack' = SetTop(Filtered(flags))
      /\ UNCHANGED <<input, worker, placed, occupied>>
  BY <1>1 DEF FilterOnDevice, Filtering
<1>3. Batch \in Nat
  BY <1>2, BatchFacts
<1>4. bits = occupied[Top.sheet]
  BY <1>1, <1>2, DeviceBitsTrue
<1>5. \A i : DeviceFlag(bits, Top.sheet, i) <=> Flag(Top.sheet, i)
  <2>1. \A cell : DeviceOrigin(Top.sheet, cell) = Origin(Top.sheet, cell)
    BY OriginIs
  <2> QED
    BY <1>4, <2>1 DEF DeviceFlag, Flag
<1>6. \A i : DeviceFlag(bits, Top.sheet, i) \in BOOLEAN
  BY DEF DeviceFlag, MaskFits
<1>7. flags \in Seq(BOOLEAN) /\ Len(flags) = Batch
  BY <1>3, <1>6
<1>8. \A i \in 1 .. Len(flags) : flags[i] <=> Flag(Top.sheet, Top.next + i - 1)
  BY <1>5, <1>7
<1> HIDE DEF flags
<1> QED
  BY <1>2, <1>7, <1>8, BatchFlags

\* One more placement toggles its pixels.
LEMMA ToggledMore ==
  ASSUME NEW P, IsFiniteSet(P), NEW h, h \notin P, NEW s
  PROVE  Toggled(problem, P \cup {h}, s) =
           IF s = h.sheet
           THEN SymDiff(Toggled(problem, P, s), PixelsOf(problem, h))
           ELSE Toggled(problem, P, s)
<1> DEFINE X == PixelsOf(problem, h)
           At(Q, x) == {p \in Q : p.sheet = s /\ x \in PixelsOf(problem, p)}
<1>1. \A Q, x : x \in Toggled(problem, Q, s) <=>
                  x \in Covered(problem, Q, s) /\ Cardinality(At(Q, x)) % 2 = 1
  BY DEF Toggled
<1>2. \A Q, x : x \in Covered(problem, Q, s) <=> At(Q, x) # {}
  BY DEF Covered
<1>3. \A x : At(P \cup {h}, x) = IF s = h.sheet /\ x \in X THEN At(P, x) \cup {h}
                                 ELSE At(P, x)
  OBVIOUS
<1>4. \A x : /\ h \notin At(P, x) /\ IsFiniteSet(At(P, x))
             /\ At(P, x) # {} \/ Cardinality(At(P, x)) = 0
  <2> TAKE x
  <2>1. At(P, x) \subseteq P
    OBVIOUS
  <2>2. IsFiniteSet(At(P, x))
    BY <2>1, FS_Subset
  <2> QED
    BY <2>1, <2>2, FS_EmptySet
<1> HIDE DEF At, X
<1>5. \A x : /\ Cardinality(At(P, x)) \in Nat
             /\ Cardinality(At(P, x) \cup {h}) = Cardinality(At(P, x)) + 1
  BY <1>4, FS_AddElement, FS_CardinalityType
<1>6. \A n \in Nat : (n + 1) % 2 = 1 <=> n % 2 # 1
  OBVIOUS
<1>7. \A x : x \in Toggled(problem, P, s) <=> Cardinality(At(P, x)) % 2 = 1
  BY <1>1, <1>2, <1>4
<1>8. \A x : x \in Toggled(problem, P \cup {h}, s) <=>
               IF s = h.sheet /\ x \in X THEN ~(x \in Toggled(problem, P, s))
               ELSE x \in Toggled(problem, P, s)
  <2> TAKE x
  <2>1. CASE s = h.sheet /\ x \in X
    <3>1. At(P \cup {h}, x) = At(P, x) \cup {h} /\ At(P, x) \cup {h} # {}
      BY <1>3, <2>1
    <3>2. x \in Toggled(problem, P \cup {h}, s) <=>
            (Cardinality(At(P, x)) + 1) % 2 = 1
      BY <1>1, <1>2, <1>5, <3>1
    <3> QED
      BY <1>5, <1>6, <1>7, <2>1, <3>2
  <2>2. CASE ~(s = h.sheet /\ x \in X)
    <3>1. At(P \cup {h}, x) = At(P, x)
      BY <1>3, <2>2
    <3>2. x \in Toggled(problem, P \cup {h}, s) <=>
            Cardinality(At(P, x)) % 2 = 1
      BY <1>1, <1>2, <1>4, <3>1
    <3> QED
      BY <1>7, <2>2, <3>2
  <2> QED
    BY <2>1, <2>2
<1>9. Toggled(problem, P \cup {h}, s) \subseteq
        Toggled(problem, P, s) \cup X
  BY <1>8
<1> QED
  <2>1. CASE s = h.sheet
    BY <1>8, <2>1 DEF SymDiff, X
  <2>2. CASE s # h.sheet
    BY <1>8, <2>2
  <2> QED
    BY <2>1, <2>2

\* A commit toggles its mask, above all flags there are.
LEMMA CommitTree ==
  ASSUME SearchInv, TreeInv, Commit
  PROVE  TreeInv'
<1> DEFINE h == HitPlacement
           N == 1 .. Len(problem.sheets)
<1>1. /\ OnSheet /\ Hits # {} /\ Toggle(h) /\ placed' = placed \cup {h}
      /\ ExactlyFits(h) /\ UNCHANGED <<input, worker>>
  BY DEF Commit
<1>2. h \in PlacementsOf(problem) /\ h.part = Depth /\ h \notin placed
  BY <1>1, HitSound
<1>3. UNCHANGED <<problem, flow, worker>>
  BY <1>1 DEF input
<1>4. \A s \in N : occupied'[s] = IF s = h.sheet
                                  THEN SymDiff(occupied[s], PixelsOf(problem, h))
                                  ELSE occupied[s]
  BY <1>1, <1>2, ToggleKeeps
<1>5. IsFiniteSet(placed)
  BY SoundCount DEF SearchInv, PathInv
<1> HIDE DEF h
<1>6. \A s \in N : occupied'[s] = Toggled(problem, placed \cup {h}, s)
  <2> SUFFICES ASSUME NEW s \in N
               PROVE  occupied'[s] = Toggled(problem, placed \cup {h}, s)
    OBVIOUS
  <2>1. occupied[s] = Toggled(problem, placed, s)
    BY DEF TreeInv
  <2>2. Toggled(problem, placed \cup {h}, s) =
          IF s = h.sheet
          THEN SymDiff(Toggled(problem, placed, s), PixelsOf(problem, h))
          ELSE Toggled(problem, placed, s)
    BY <1>2, <1>5, ToggledMore
  <2> QED
    BY <1>4, <2>1, <2>2
<1>7. FlagsInv'
  <2>1. /\ Len(stack') = Depth + 1
        /\ \A d \in 1 .. Depth - 1 : stack'[d] = stack[d]
        /\ stack'[Depth + 1] = Frame
        /\ stack'[Depth].sheet = Top.sheet /\ stack'[Depth].flags = Top.flags
        /\ stack'[Depth].first = Top.first
    BY CommitStack
  <2>2. Depth \in 1 .. Len(problem.parts) /\ Depth = Len(stack) /\ Top = stack[Depth]
    BY <1>1, OnSheetFacts DEF Depth, Top
  <2>3. \A d \in 1 .. Depth : Below(placed', d) = Below(placed, d)
    BY <1>1, <1>2, <2>2 DEF Below
  <2> SUFFICES ASSUME NEW d \in 1 .. Depth + 1
               PROVE  \/ stack'[d].flags = <<>>
                      \/ /\ d \in 1 .. Len(stack)
                         /\ stack'[d].flags = stack[d].flags
                         /\ stack'[d].sheet = stack[d].sheet
                         /\ stack'[d].first = stack[d].first
                         /\ Below(placed', d) = Below(placed, d)
    BY <1>3, <2>1, FlagsKept DEF TreeInv
  <2>4. CASE d \in 1 .. Depth - 1
    BY <2>1, <2>2, <2>3, <2>4
  <2>5. CASE d = Depth
    <3>1. Depth \in 1 .. Len(stack) /\ Depth \in 1 .. Depth
      BY <2>2
    <3> QED
      BY <2>1, <2>2, <2>3, <2>5, <3>1
  <2>6. CASE d = Depth + 1
    BY <2>1, <2>6, FrameFacts
  <2> QED
    BY <2>2, <2>4, <2>5, <2>6
<1> QED
  BY <1>1, <1>3, <1>6, <1>7 DEF TreeInv

\* What is taken back was toggled twice, so that the bitmap is the one that the
\* flags of the frame were computed for.
LEMMA BacktrackTree ==
  ASSUME SearchInv, TreeInv, Backtrack
  PROVE  TreeInv'
<1> DEFINE N == 1 .. Len(problem.sheets)
<1>1. PICK p \in placed :
        /\ p.part = Depth /\ p \in PlacementsOf(problem)
        /\ Toggle(p) /\ placed' = placed \ {p}
        /\ \A q \in placed' : q.part \in 1 .. Depth - 1
        /\ \A d \in 1 .. Depth : Below(placed', d) = Below(placed, d)
  BY BacktrackStep
<1>2. Searching /\ UNCHANGED <<input, problem, flow, worker>>
  BY DEF Backtrack, input
<1> DEFINE X == PixelsOf(problem, p)
           Q == placed \ {p}
<1>3. \A s \in N : occupied'[s] = IF s = p.sheet THEN SymDiff(occupied[s], X)
                                  ELSE occupied[s]
  BY <1>1, <1>2, ToggleKeeps
<1>4. IsFiniteSet(Q) /\ p \notin Q /\ Q \cup {p} = placed
  <2>1. IsFiniteSet(placed)
    BY SoundCount DEF SearchInv, PathInv
  <2> QED
    BY <1>1, <2>1, FS_Subset
<1> HIDE DEF Q
<1>5. \A s \in N : Toggled(problem, placed, s) =
                     IF s = p.sheet THEN SymDiff(Toggled(problem, Q, s), X)
                     ELSE Toggled(problem, Q, s)
  BY <1>4, ToggledMore
<1>6. \A A, B : SymDiff(SymDiff(A, B), B) = A
  BY DEF SymDiff
<1> HIDE DEF X, N
<1>7. \A s \in N : occupied'[s] = Toggled(problem, Q, s)
  BY <1>3, <1>5, <1>6 DEF TreeInv, N
<1>8. FlagsInv'
  <2>1. /\ Len(stack') = Depth
        /\ \A d \in 1 .. Depth - 1 : stack'[d] = stack[d]
        /\ stack'[Depth].sheet = Top.sheet /\ stack'[Depth].flags = Top.flags
        /\ stack'[Depth].first = Top.first
    BY BacktrackStack
  <2>2. Depth \in Nat \ {0} /\ Depth = Len(stack) /\ Top = stack[Depth]
    BY <1>2, TopFacts, InputFacts DEF SearchInv, Depth, Top
  <2>3. \A d \in 1 .. Depth :
          /\ stack'[d].flags = stack[d].flags
          /\ stack'[d].sheet = stack[d].sheet
          /\ stack'[d].first = stack[d].first
    <3> TAKE d \in 1 .. Depth
    <3>1. CASE d = Depth
      BY <2>1, <2>2, <3>1
    <3>2. CASE d # Depth
      BY <2>1, <2>2, <3>2
    <3> QED
      BY <3>1, <3>2
  <2> QED
    BY <1>1, <1>2, <2>1, <2>2, <2>3, FlagsKept DEF TreeInv
<1> QED
  BY <1>1, <1>2, <1>7, <1>8 DEF TreeInv, N, Q

\* A step that pops the top frame.
LEMMA PopTree ==
  ASSUME SearchInv, TreeInv, Ready, stack' = Pop, UNCHANGED <<input, worker, tree>>
  PROVE  TreeInv'
<1>1. UNCHANGED <<problem, flow, worker, placed, occupied>>
  BY DEF input, tree
<1>2. /\ stack \in Seq(Frames) /\ Depth \in Nat \ {0} /\ Depth = Len(stack)
      /\ stack' = SubSeq(stack, 1, Len(stack) - 1)
  BY TopFacts, InputFacts DEF Ready, SearchInv, Depth, Pop
<1>3. /\ Len(stack') = Depth - 1
      /\ \A d \in 1 .. Depth - 1 : stack'[d] = stack[d]
  BY <1>2, PopFacts
<1>4. \A d \in 1 .. Len(stack') : d \in 1 .. Len(stack) /\ stack'[d] = stack[d]
  BY <1>2, <1>3
<1>5. FlagsInv'
  BY <1>1, <1>4, FlagsKept DEF TreeInv
<1> QED
  BY <1>1, <1>5 DEF TreeInv

\* The new frame has no flags.
LEMMA SkipTree ==
  ASSUME SearchInv, TreeInv, Skip
  PROVE  TreeInv'
<1>1. UNCHANGED <<problem, flow, worker, placed, occupied>> /\ Searching
  BY DEF Skip, SkipOwned, OffSheets, Ready, input, tree
<1>2. /\ Len(stack') = Depth + 1
      /\ \A d \in 1 .. Depth - 1 : stack'[d] = stack[d]
      /\ stack'[Depth + 1] = Frame
      /\ stack'[Depth].sheet = Top.sheet /\ stack'[Depth].flags = Top.flags
      /\ stack'[Depth].first = Top.first
  BY SkipStack
<1>3. Depth \in Nat \ {0} /\ Depth = Len(stack) /\ Top = stack[Depth]
  BY <1>1, TopFacts, InputFacts DEF SearchInv, Depth, Top
<1>4. FlagsInv'
  <2> SUFFICES ASSUME NEW d \in 1 .. Depth + 1
               PROVE  \/ stack'[d].flags = <<>>
                      \/ /\ d \in 1 .. Len(stack)
                         /\ stack'[d].flags = stack[d].flags
                         /\ stack'[d].sheet = stack[d].sheet
                         /\ stack'[d].first = stack[d].first
    BY <1>1, <1>2, FlagsKept DEF TreeInv
  <2>1. CASE d \in 1 .. Depth - 1
    BY <1>2, <1>3, <2>1
  <2>2. CASE d = Depth
    BY <1>2, <1>3, <2>2
  <2>3. CASE d = Depth + 1
    BY <1>2, <2>3, FrameFacts
  <2> QED
    BY <1>3, <2>1, <2>2, <2>3
<1> QED
  BY <1>1, <1>4 DEF TreeInv

\* The steps that only move the top frame on.
LEMMA TopStepTree ==
  ASSUME SearchInv, TreeInv, Begin \/ NextSheet \/ NoHit \/ RejectHit
  PROVE  TreeInv'
<1>1. UNCHANGED <<input, worker, placed, occupied>>
  BY DEF Begin, NextSheet, NoHit, RejectHit, tree
<1>2. CASE Begin
  <2>1. PICK f \in Frames : stack' = SetTop(f) /\ f.flags = Top.flags
    BY <1>2, BeginFrame
  <2>2. Searching /\ Top.flags = <<>>
    BY <1>2, BeginFrame
  <2> QED
    BY <1>1, <2>1, <2>2, TopFlags
<1>3. CASE NextSheet
  <2>1. PICK f \in Frames : stack' = SetTop(f) /\ f.flags = <<>>
    BY <1>3, NextSheetFrame
  <2>2. Searching
    BY <1>3, NextSheetFrame
  <2> QED
    BY <1>1, <2>1, <2>2, TopFlags
<1>4. CASE NoHit \/ RejectHit
  <2>1. OnSheet /\ Searching
    BY <1>4 DEF NoHit, RejectHit, OnSheet, Ready
  <2>2. \E c \in Nat : stack' = SetTop([Top EXCEPT !.cursor = c])
    <3>1. CASE NoHit
      <4>1. Len(Top.flags) \in Nat
        BY <2>1, TopFacts DEF Frames
      <4> QED
        BY <3>1, <4>1 DEF NoHit
    <3>2. CASE RejectHit
      <4>1. Hits # {}
        BY <3>2 DEF RejectHit
      <4>2. Min(Hits) \in 1 .. Len(Top.flags)
        BY <2>1, <4>1, HitFacts
      <4>3. Min(Hits) \in Nat
        BY <4>2
      <4> QED
        BY <3>2, <4>3 DEF RejectHit
    <3> QED
      BY <1>4, <3>1, <3>2
  <2>3. PICK c \in Nat : stack' = SetTop([Top EXCEPT !.cursor = c])
    BY <2>2
  <2>4. PICK f \in Frames :
          /\ stack' = SetTop(f)
          /\ f.flags = Top.flags /\ f.sheet = Top.sheet /\ f.first = Top.first
    BY <2>1, <2>3, CursorFrame
  <2> QED
    BY <1>1, <2>1, <2>4, TopFlags
<1> QED
  BY <1>2, <1>3, <1>4

\* The steps that touch neither stack nor bitmap.
LEMMA OtherTree ==
  ASSUME SearchInv, TreeInv,
         \/ DeviceFails \/ AllExhausted \/ Expire \/ Throw
         \/ UNCHANGED searchVars
  PROVE  TreeInv'
<1>1. UNCHANGED <<problem, flow, worker, stack, placed, occupied>>
  BY DEF DeviceFails, AllExhausted, Expire, Throw, searchVars, input, tree
<1> QED
  BY <1>1 DEF TreeInv, FlagsInv

\* The next worker has no flags.
LEMMA NextWorkerTree ==
  ASSUME SearchInv, TreeInv, NextWorker
  PROVE  TreeInv'
<1>1. UNCHANGED <<problem, flow, placed, occupied>> /\ stack' = <<Frame>>
  BY DEF NextWorker, input
<1>2. Len(stack') = 1 /\ stack'[1] = Frame
  BY <1>1
<1>3. \A d \in 1 .. Len(stack') : Len(stack'[d].flags) = 0
  BY <1>2, FrameFacts
<1>4. FlagsInv'
  BY <1>3 DEF FlagsInv
<1> QED
  BY <1>1, <1>4 DEF TreeInv

\* The search starts with empty sheets and without flags.
LEMMA InitTreeInv == SearchInit => TreeInv
<1> SUFFICES ASSUME SearchInit PROVE TreeInv
  OBVIOUS
<1>1. stack = <<Frame>> /\ placed = {}
      /\ occupied = [s \in DOMAIN problem.sheets |-> {}]
  BY DEF SearchInit, Sheets
<1>2. Len(stack) = 1 /\ stack[1] = Frame
  BY <1>1
<1>3. \A d \in 1 .. Len(stack) : Len(stack[d].flags) = 0
  BY <1>2, FrameFacts
<1>4. DOMAIN problem.sheets = 1 .. Len(problem.sheets)
  BY InitSearchInv, InputFacts DEF SearchInv
<1>5. \A s \in 1 .. Len(problem.sheets) :
        occupied[s] = {} /\ Toggled(problem, placed, s) = {}
  BY <1>1, <1>4 DEF Toggled, Covered
<1> QED
  BY <1>1, <1>3, <1>5 DEF TreeInv, FlagsInv

\* Every step preserves this.
LEMMA StepTreeInv == SearchInv /\ TreeInv /\ [SearchNext]_searchVars => TreeInv'
<1> SUFFICES ASSUME SearchInv, TreeInv, [SearchNext]_searchVars PROVE TreeInv'
  OBVIOUS
<1>1. CASE Backtrack BY <1>1, BacktrackTree
<1>2. CASE Cut \/ SkipNotOwned \/ Leave
  BY <1>2, PopTree DEF Cut, SkipNotOwned, Leave, SkipOwned, OffSheets
<1>3. CASE Begin \/ NextSheet \/ NoHit \/ RejectHit BY <1>3, TopStepTree
<1>4. CASE Skip BY <1>4, SkipTree
<1>5. CASE Filter BY <1>5, FilterTree
<1>6. CASE FilterOnDevice BY <1>6, FilterOnDeviceTree
<1>7. CASE Commit BY <1>7, CommitTree
<1>8. CASE NextWorker BY <1>8, NextWorkerTree
<1>9. CASE DeviceFails \/ AllExhausted \/ Expire \/ Throw \/ UNCHANGED searchVars
  BY <1>9, OtherTree
<1> QED
  BY <1>1, <1>2, <1>3, <1>4, <1>5, <1>6, <1>7, <1>8, <1>9 DEF SearchNext, Step

\* So it holds throughout.
LEMMA TreeInvAlways == SearchSpec => []TreeInv
<1>1. SearchInv /\ TreeInv /\ [SearchNext]_searchVars => SearchInv' /\ TreeInv'
  BY StepSearchInv, StepTreeInv
<1> QED
  BY <1>1, InitSearchInv, InitTreeInv, PTL DEF SearchSpec

\* The flags that the top frame has not used yet are right.
LEMMA TreeInvFlags == SearchInv /\ TreeInv => FlagsFresh
<1> SUFFICES ASSUME SearchInv, TreeInv, OnSheet,
                    NEW c \in Top.cursor + 1 .. Len(Top.flags)
             PROVE  Top.flags[c] = Flag(Top.sheet, Top.first + c - 1)
  BY DEF FlagsFresh
<1>1. /\ Depth \in 1 .. Len(stack) /\ Top = stack[Depth] /\ Top \in Frames
  BY TopFacts DEF OnSheet, Ready, Depth, Top
<1>2. c \in 1 .. Len(Top.flags) /\ Top.flags[c] \in BOOLEAN
  BY <1>1 DEF Frames
<1>3. Toggled(problem, Below(placed, Depth), Top.sheet) = occupied[Top.sheet]
  BY TopToggled
<1>4. Top.flags[c] <=>
        FitsAt(problem, Depth, Top.sheet, occupied[Top.sheet],
               CandidateOf(problem, flow, worker, Depth, Top.sheet,
                           Top.first + c - 1))
  BY <1>1, <1>2, <1>3 DEF TreeInv, FlagsInv
<1>5. Top.flags[c] <=> Flag(Top.sheet, Top.first + c - 1)
  BY <1>4, FlagIs
<1>6. Flag(Top.sheet, Top.first + c - 1) \in BOOLEAN
  BY DEF Flag, MaskFits
<1> QED
  BY <1>2, <1>5, <1>6

\* "A frame retains its GPU flags while all child branches are explored": for
\* every input and every direction of filling, whichever of device and CPU
\* computed them, they are right when the frame goes on.
THEOREM FramesSoundAlways == SearchSpec => []FramesSound
<1>1. SearchInv /\ TreeInv => FramesSound
  BY SearchInvTypes, TreeInvFlags DEF FramesSound
<1> QED
  BY <1>1, SearchInvAlways, TreeInvAlways, PTL

-----------------------------------------------------------------------------
(* Masks from the left.                                                    *)

\* The mask of the next set flag overlaps no other.
LEMMA HitFree ==
  ASSUME SearchInv, TreeInv, OnSheet, Hits # {}, flow \in {"automatic", "left"}
  PROVE  PixelsOf(problem, HitPlacement) \cap occupied[Top.sheet] = {}
<1> DEFINE c == CandidateOf(problem, flow, worker, Depth, Top.sheet, Hit)
           k == Min(Hits)
<1>1. k \in 1 .. Len(Top.flags) /\ Top.flags[k] /\ Hit = Top.first + k - 1
  BY HitFacts
<1>2. Depth \in 1 .. Len(stack) /\ Top = stack[Depth]
  BY TopFacts DEF OnSheet, Ready, Depth, Top
<1>3. Toggled(problem, Below(placed, Depth), Top.sheet) = occupied[Top.sheet]
  BY TopToggled
<1> HIDE DEF k
<1>4. FitsAt(problem, Depth, Top.sheet, occupied[Top.sheet], c)
  BY <1>1, <1>2, <1>3 DEF TreeInv, FlagsInv
<1>5. /\ c.r = HitPlacement.r /\ c.x = HitPlacement.x /\ c.y = HitPlacement.y
      /\ HitPlacement.part = Depth /\ HitPlacement.sheet = Top.sheet
  BY HitIs
<1> HIDE DEF c
<1>6. \A ps : Shifted(ps, c) = Shifted(ps, HitPlacement)
  BY <1>5 DEF Shifted
<1> QED
  BY <1>4, <1>5, <1>6 DEF FitsAt, PixelsOf

\* A commit adds a mask that overlaps no other.
LEMMA CommitCover ==
  ASSUME SearchInv, TreeInv, CoverInv, Commit
  PROVE  CoverInv'
<1> DEFINE h == HitPlacement
           X == PixelsOf(problem, h)
           N == 1 .. Len(problem.sheets)
<1>1. /\ OnSheet /\ Hits # {} /\ Toggle(h) /\ placed' = placed \cup {h}
      /\ ExactlyFits(h) /\ UNCHANGED <<input, worker>>
  BY DEF Commit
<1>2. h \in PlacementsOf(problem) /\ h.part = Depth /\ h \notin placed
      /\ h.sheet = Top.sheet
  BY <1>1, HitSound, HitFacts
<1>3. /\ UNCHANGED <<problem, flow>>
      /\ h.sheet \in N
  BY <1>1, <1>2 DEF input, PlacementsOf
<1>4. \A s \in N : occupied'[s] = IF s = h.sheet THEN SymDiff(occupied[s], X)
                                  ELSE occupied[s]
  BY <1>1, <1>2, ToggleKeeps
<1> SUFFICES ASSUME flow \in {"automatic", "left"}
             PROVE  /\ \A s \in N : occupied'[s] = Covered(problem, placed', s)
                    /\ \A p, q \in placed' : p # q /\ p.sheet = q.sheet =>
                         PixelsOf(problem, p) \cap PixelsOf(problem, q) = {}
  BY <1>3 DEF CoverInv
<1>5. X \cap occupied[h.sheet] = {}
  BY <1>1, <1>2, HitFree
<1>6. \A s \in N : occupied[s] = Covered(problem, placed, s)
  BY DEF CoverInv
<1> HIDE DEF h, X, N
<1>7. \A s \in N : occupied'[s] = Covered(problem, placed \cup {h}, s)
  <2> SUFFICES ASSUME NEW s \in N
               PROVE  occupied'[s] = Covered(problem, placed \cup {h}, s)
    OBVIOUS
  <2>1. CASE s # h.sheet
    <3>1. {q \in placed \cup {h} : q.sheet = s} = {q \in placed : q.sheet = s}
      BY <2>1
    <3> QED
      BY <1>4, <1>6, <2>1, <3>1 DEF Covered
  <2>2. CASE s = h.sheet
    <3>1. SymDiff(occupied[s], X) = occupied[s] \cup X
      BY <1>5, <2>2 DEF SymDiff
    <3>2. Covered(problem, placed \cup {h}, s) = Covered(problem, placed, s) \cup X
      BY <2>2 DEF Covered, X
    <3> QED
      BY <1>4, <1>6, <2>2, <3>1, <3>2
  <2> QED
    BY <2>1, <2>2
<1>8. \A p \in placed : p.sheet = h.sheet => PixelsOf(problem, p) \cap X = {}
  <2> SUFFICES ASSUME NEW p \in placed, p.sheet = h.sheet
               PROVE  PixelsOf(problem, p) \cap X = {}
    OBVIOUS
  <2>1. PixelsOf(problem, p) \subseteq Covered(problem, placed, h.sheet)
    BY DEF Covered
  <2> QED
    BY <1>3, <1>5, <1>6, <2>1
<1>9. \A p, q \in placed \cup {h} : p # q /\ p.sheet = q.sheet =>
        PixelsOf(problem, p) \cap PixelsOf(problem, q) = {}
  <2> SUFFICES ASSUME NEW p \in placed \cup {h}, NEW q \in placed \cup {h},
                      p # q, p.sheet = q.sheet
               PROVE  PixelsOf(problem, p) \cap PixelsOf(problem, q) = {}
    OBVIOUS
  <2>1. CASE p \in placed /\ q \in placed
    BY <2>1 DEF CoverInv
  <2>2. CASE p = h /\ q \in placed
    BY <1>8, <2>2 DEF X
  <2>3. CASE p \in placed /\ q = h
    BY <1>8, <2>3 DEF X
  <2> QED
    BY <2>1, <2>2, <2>3
<1> QED
  BY <1>1, <1>7, <1>9

\* And it can be taken back alone.
LEMMA BacktrackCover ==
  ASSUME SearchInv, CoverInv, Backtrack
  PROVE  CoverInv'
<1> DEFINE N == 1 .. Len(problem.sheets)
<1>1. PICK p \in placed :
        p \in PlacementsOf(problem) /\ Toggle(p) /\ placed' = placed \ {p}
  BY BacktrackStep
<1>2. UNCHANGED <<input, problem, flow>>
  BY DEF Backtrack, input
<1> DEFINE X == PixelsOf(problem, p)
<1>3. \A s \in N : occupied'[s] = IF s = p.sheet THEN SymDiff(occupied[s], X)
                                  ELSE occupied[s]
  BY <1>1, <1>2, ToggleKeeps
<1> SUFFICES ASSUME flow \in {"automatic", "left"}
             PROVE  /\ \A s \in N : occupied'[s] = Covered(problem, placed', s)
                    /\ \A q, r \in placed' : q # r /\ q.sheet = r.sheet =>
                         PixelsOf(problem, q) \cap PixelsOf(problem, r) = {}
  BY <1>2 DEF CoverInv
<1>4. /\ \A s \in N : occupied[s] = Covered(problem, placed, s)
      /\ \A q \in placed : q # p /\ q.sheet = p.sheet =>
           PixelsOf(problem, q) \cap X = {}
  BY <1>1 DEF CoverInv
<1> HIDE DEF X, N
<1>5. \A s \in N : occupied'[s] = Covered(problem, placed \ {p}, s)
  <2> SUFFICES ASSUME NEW s \in N
               PROVE  occupied'[s] = Covered(problem, placed \ {p}, s)
    OBVIOUS
  <2>1. CASE s # p.sheet
    <3>1. {q \in placed \ {p} : q.sheet = s} = {q \in placed : q.sheet = s}
      BY <2>1
    <3> QED
      BY <1>3, <1>4, <2>1, <3>1 DEF Covered
  <2>2. CASE s = p.sheet
    <3> DEFINE C == Covered(problem, placed \ {p}, s)
    <3>1. Covered(problem, placed, s) = C \cup X
      BY <1>1, <2>2 DEF Covered, X
    <3>2. C \cap X = {}
      BY <1>4, <2>2 DEF Covered
    <3> HIDE DEF C
    <3>3. SymDiff(C \cup X, X) = C
      BY <3>2 DEF SymDiff
    <3> QED
      BY <1>3, <1>4, <2>2, <3>1, <3>3 DEF C
  <2> QED
    BY <2>1, <2>2
<1>6. \A q, r \in placed' : q # r /\ q.sheet = r.sheet =>
        PixelsOf(problem, q) \cap PixelsOf(problem, r) = {}
  BY <1>1 DEF CoverInv
<1> QED
  BY <1>1, <1>5, <1>6

\* Nothing is covered at first.
LEMMA InitCoverInv == SearchInit => CoverInv
<1> SUFFICES ASSUME SearchInit PROVE CoverInv
  OBVIOUS
<1>1. placed = {} /\ occupied = [s \in DOMAIN problem.sheets |-> {}]
  BY DEF SearchInit, Sheets
<1>2. DOMAIN problem.sheets = 1 .. Len(problem.sheets)
  BY InitSearchInv, InputFacts DEF SearchInv
<1> QED
  BY <1>1, <1>2 DEF CoverInv, Covered

\* Only these two steps change what is covered.
LEMMA StepCoverInv ==
  SearchInv /\ TreeInv /\ CoverInv /\ [SearchNext]_searchVars => CoverInv'
<1> SUFFICES ASSUME SearchInv, TreeInv, CoverInv, [SearchNext]_searchVars
             PROVE  CoverInv'
  OBVIOUS
<1>1. CASE Commit BY <1>1, CommitCover
<1>2. CASE Backtrack BY <1>2, BacktrackCover
<1>3. CASE ~Commit /\ ~Backtrack
  <2>1. UNCHANGED <<problem, flow, placed, occupied>>
    BY <1>3
       DEF SearchNext, Step, Cut, Begin, SkipNotOwned, SkipOwned, OffSheets, Skip,
           Leave, NextSheet, Filter, FilterOnDevice, DeviceFails, NoHit, RejectHit,
           NextWorker, AllExhausted, Expire, Throw, searchVars, input, tree
  <2> QED
    BY <2>1 DEF CoverInv
<1> QED
  BY <1>1, <1>2, <1>3

\* So masks never overlap when sheets are filled from the left.
LEMMA CoverInvAlways == SearchSpec => []CoverInv
<1>1. SearchInv /\ TreeInv /\ CoverInv /\ [SearchNext]_searchVars =>
        SearchInv' /\ TreeInv' /\ CoverInv'
  BY StepSearchInv, StepTreeInv, StepCoverInv
<1> QED
  BY <1>1, InitSearchInv, InitTreeInv, InitCoverInv, PTL DEF SearchSpec

\* This is what the property says.
LEMMA CoverInvDisjoint ==
  ASSUME Flows \subseteq {"automatic", "left"}
  PROVE  SearchInv /\ CoverInv /\ flow \in Flows => MasksDisjoint
<1> SUFFICES ASSUME SearchInv, CoverInv, flow \in Flows PROVE MasksDisjoint
  OBVIOUS
<1>1. DOMAIN Sheets = 1 .. Len(problem.sheets)
  BY InputFacts DEF SearchInv, Sheets
<1>2. \A p : Pixels(p) = PixelsOf(problem, p)
  BY DEF Pixels, PixelsOf, Parts
<1>3. flow \in {"automatic", "left"}
  OBVIOUS
<1> QED
  BY <1>1, <1>2, <1>3 DEF CoverInv, Covered, MasksDisjoint

\* "XOR is reversible because a committed mask never overlaps occupied
\* pixels": so it is when sheets are filled from the left.  In the other
\* directions a commit decodes another position than was tested, and the
\* assumption cannot be dropped.
THEOREM MasksDisjointAlways ==
  ASSUME Flows \subseteq {"automatic", "left"}
  PROVE  SearchSpec => []MasksDisjoint
<1>1. SearchInv /\ CoverInv => MasksDisjoint
  BY CoverInvDisjoint DEF SearchInv, InputInv
<1> QED
  BY <1>1, SearchInvAlways, CoverInvAlways, PTL

-----------------------------------------------------------------------------
(* An exhausted search is complete.  Layouts of the lattice, the           *)
(* layouts that are left for a frame, and what it has explored of them.    *)

\* A mask, its core and its halo at a place.
MaskAt(pr, i, g) == Shifted(pr.parts[i][g.r + 1].pixels, g)
CoreAt(pr, i, g) == Shifted(pr.parts[i][g.r + 1].core, g)
HaloAt(pr, i, g) == Shifted(pr.parts[i][g.r + 1].halo, g)

\* A place is a position of the lattice.
OnGrid(pr, i, g) ==
  /\ \E c \in 0 .. ColumnsOf(pr, i, g.sheet) - 1 : g.x = c * pr.step + EdgeOf(pr)
  /\ \E c \in 0 .. RowsOf(pr, i, g.sheet) - 1 : g.y = c * pr.step + EdgeOf(pr)

PlaceRecords(pr) == [sheet : 1 .. Len(pr.sheets), r : Nat, x : Nat, y : Nat]

\* The layouts that the lattice has a place for: parts fit on their sheets and
\* beside one another, and two copies are not at the same place.
LayoutsOf(pr) ==
  {f \in [1 .. Len(pr.parts) -> {Nowhere} \cup PlaceRecords(pr)] :
     /\ \A i \in 1 .. Len(pr.parts) : f[i] # Nowhere =>
          /\ f[i].r < Len(pr.parts[i])
          /\ OnGrid(pr, i, f[i])
          /\ MaskAt(pr, i, f[i]) \subseteq pr.sheets[f[i].sheet].pixels
          /\ CoreAt(pr, i, f[i]) \subseteq pr.sheets[f[i].sheet].inner
     /\ \A i, j \in 1 .. Len(pr.parts) :
          i # j /\ f[i] # Nowhere /\ f[j] # Nowhere /\ f[i].sheet = f[j].sheet =>
            /\ MaskAt(pr, i, f[i]) \cap MaskAt(pr, j, f[j]) = {}
            /\ HaloAt(pr, i, f[i]) \cap HaloAt(pr, j, f[j]) = {}
            /\ pr.parts[i] = pr.parts[j] => f[i] # f[j]}

\* How many parts a layout places.
Chosen(f, S) == {i \in S : f[i] # Nowhere}
PartCount(pr, f) == Cardinality(Chosen(f, 1 .. Len(pr.parts)))

\* The order in which a frame tries places.
Earlier(a, b) ==
  \/ a.sheet < b.sheet
  \/ a.sheet = b.sheet /\ a.x < b.x
  \/ a.sheet = b.sheet /\ a.x = b.x /\ a.y < b.y
  \/ a.sheet = b.sheet /\ a.x = b.x /\ a.y = b.y /\ a.r < b.r

\* The layouts that the search looks for below a depth, with these placements
\* on the frames before it: they place the same parts there, and the copies of
\* those parts only behind them.
PlaceOf(p) == [sheet |-> p.sheet, r |-> p.r, x |-> p.x, y |-> p.y]
Agrees(P, d, f) ==
  /\ \A p \in P : p.part < d => f[p.part] = PlaceOf(p)
  /\ \A i \in 1 .. d - 1 : f[i] # Nowhere => \E p \in P : p.part = i
Ordered(pr, d, f) ==
  \A i \in 1 .. d - 1, k \in d .. Len(pr.parts) :
    pr.parts[i] = pr.parts[k] /\ f[k] # Nowhere =>
      f[i] # Nowhere /\ Earlier(f[i], f[k])
Remaining(pr, P, d) ==
  {f \in LayoutsOf(pr) : Agrees(P, d, f) /\ Ordered(pr, d, f)}

\* The first of the copies of part d that a layout places from d on.
Copied(pr, d, f) == {k \in d .. Len(pr.parts) : pr.parts[k] = pr.parts[d] /\ f[k] # Nowhere}
FirstCopy(pr, d, f, j) ==
  j \in Copied(pr, d, f) /\ \A k \in Copied(pr, d, f) \ {j} : Earlier(f[j], f[k])

\* The masks that a worker tries for the part at a depth.
WorkersOf(pr) == Min({Threads, Len(pr.parts[1])})
FirstOf(pr, wk, d) ==
  IF d = 1 THEN (Len(pr.parts[1]) * wk) \div WorkersOf(pr) ELSE 0
EndOf(pr, wk, d) ==
  IF d = 1 THEN (Len(pr.parts[1]) * (wk + 1)) \div WorkersOf(pr)
  ELSE Len(pr.parts[d])
Mine(pr, wk, d, r) == FirstOf(pr, wk, d) <= r /\ r < EndOf(pr, wk, d)

\* The candidates in this order.
GridCandidate(pr, d, s, first, masks, i) ==
  [r |-> first + (i % masks),
   x |-> ((i \div masks) \div RowsOf(pr, d, s)) * pr.step + EdgeOf(pr),
   y |-> ((i \div masks) % RowsOf(pr, d, s)) * pr.step + EdgeOf(pr)]

\* A frame is past a place.
ScannedOf(F) == IF F.flags = <<>> THEN F.next ELSE F.first + F.cursor
CandidateAt(pr, wk, d, s, i) ==
  GridCandidate(pr, d, s, FirstOf(pr, wk, d), EndOf(pr, wk, d) - FirstOf(pr, wk, d), i)
SpotOf(g) == [r |-> g.r, x |-> g.x, y |-> g.y]
Passed(pr, wk, d, F, g) ==
  \/ g.sheet < F.sheet
  \/ g.sheet = F.sheet /\ \E i \in Nat : i < ScannedOf(F) /\ SpotOf(g) = CandidateAt(pr, wk, d, F.sheet, i)
ChosenOf(F) == [sheet |-> F.sheet, r |-> F.chosen.r, x |-> F.chosen.x, y |-> F.chosen.y]

\* A frame has explored the layouts whose first copy it is past, except for
\* the place that its child is exploring; one whose skip branch is done has
\* also explored those without a copy.
ExploredAt(pr, wk, P, d, F, open, most) ==
  \A f \in Remaining(pr, P, d) : \A j \in 1 .. Len(pr.parts) :
    /\ FirstCopy(pr, d, f, j)
    /\ Mine(pr, wk, d, f[j].r)
    /\ Passed(pr, wk, d, F, f[j])
    /\ ~(open /\ F.active /\ f[j] = ChosenOf(F))
    => PartCount(pr, f) <= most
SkippedAt(pr, P, d, F, most) ==
  F.skipVisited =>
    \A f \in Remaining(pr, P, d) : Copied(pr, d, f) = {} => PartCount(pr, f) <= most

ExploredInv ==
  \A d \in 1 .. Len(stack) : d <= Len(problem.parts) =>
    /\ ExploredAt(problem, worker, placed, d, stack[d], d < Len(stack), overall)
    /\ d = Len(stack) => SkippedAt(problem, placed, d, stack[d], overall)

\* The layouts of a worker: worker 0 has also those without the first part.
Owns(pr, v, f) ==
  \/ Copied(pr, 1, f) = {} /\ FirstOf(pr, v, 1) = 0
  \/ \E j \in 1 .. Len(pr.parts) : FirstCopy(pr, 1, f, j) /\ Mine(pr, v, 1, f[j].r)

\* The workers that are done have explored their layouts.
ExhaustedInv ==
  /\ \A f \in LayoutsOf(problem), v \in 0 .. worker :
       (v < worker \/ stack = <<>>) /\ Owns(problem, v, f) =>
         PartCount(problem, f) <= overall
  /\ phase = "done" /\ exhausted => stack = <<>> /\ worker = Workers - 1

\* How far the frames are, and where the active ones have placed their part.
ScannedAt(pr, P, d, F) ==
  /\ F.flags # <<>> => F.cursor <= Len(F.flags) /\ F.next = F.first + Len(F.flags)
  /\ F.flags = <<>> => F.cursor = 0
  /\ ~F.initialized => F.sheet = 1 /\ F.next = 0 /\ F.flags = <<>>
  /\ F.active =>
       /\ d <= Len(pr.parts) /\ F.sheet <= Len(pr.sheets)
       /\ RowsOf(pr, d, F.sheet) > 0
       /\ \E p \in P : p.part = d /\ PlaceOf(p) = ChosenOf(F)
       /\ F.chosen = GridCandidate(pr, d, F.sheet, 0, Len(pr.parts[d]), F.index)
ScannedInv ==
  /\ best <= overall
  /\ \A d \in 1 .. Len(stack) : ScannedAt(problem, placed, d, stack[d])

CompleteInv == ExploredInv /\ ExhaustedInv /\ ScannedInv

-----------------------------------------------------------------------------
(* The order of places.                                                    *)

\* Quotient and remainder are ordered as their number.
LEMMA DivisionOrder ==
  ASSUME NEW b \in Nat \ {0}, NEW i \in Nat, NEW k \in Nat, i < k
  PROVE  i \div b < k \div b \/ (i \div b = k \div b /\ i % b < k % b)
<1> DEFINE p == i \div b
           q == k \div b
           u == i % b
           v == k % b
<1>1. /\ p \in Nat /\ u \in 0 .. b - 1 /\ i = b * p + u
      /\ q \in Nat /\ v \in 0 .. b - 1 /\ k = b * q + v
  OBVIOUS
<1> HIDE DEF p, q, u, v
<1>2. CASE q < p
  <2>1. b * (q + 1) <= b * p /\ b * (q + 1) = b * q + b
    BY <1>1, <1>2
  <2> QED
    BY <1>1, <2>1
<1> QED
  BY <1>1, <1>2 DEF p, q, u, v

\* A number is given by its quotient and its remainder.
LEMMA DivisionBack ==
  ASSUME NEW b \in Nat \ {0}, NEW q \in Nat, NEW u \in 0 .. b - 1
  PROVE  /\ q * b + u \in Nat
         /\ (q * b + u) \div b = q /\ (q * b + u) % b = u
<1> DEFINE n == q * b + u
           p == n \div b
           v == n % b
<1>1. n \in Nat
  OBVIOUS
<1>2. p \in Nat /\ v \in 0 .. b - 1 /\ n = b * p + v
  BY <1>1
<1> HIDE DEF p, v
<1>3. n = b * q + u
  OBVIOUS
<1> HIDE DEF n
<1>4. CASE p < q
  <2>1. b * (p + 1) <= b * q /\ b * (p + 1) = b * p + b
    BY <1>2, <1>4
  <2> QED
    BY <1>2, <1>3, <2>1
<1>5. CASE q < p
  <2>1. b * (q + 1) <= b * p /\ b * (q + 1) = b * q + b
    BY <1>2, <1>5
  <2> QED
    BY <1>2, <1>3, <2>1
<1>6. CASE p = q
  BY <1>2, <1>3, <1>6, <1>1 DEF n, p, v
<1> QED
  BY <1>2, <1>4, <1>5, <1>6

\* A product is ordered as its factor.
LEMMA ScaledOrder ==
  ASSUME NEW a \in Nat, NEW b \in Nat, a < b, NEW step \in Nat \ {0}, NEW e \in Nat
  PROVE  a * step + e < b * step + e
<1>1. (a + 1) * step <= b * step /\ (a + 1) * step = a * step + step
  OBVIOUS
<1>2. a * step \in Nat /\ b * step \in Nat
  OBVIOUS
<1> QED
  BY <1>1, <1>2

\* The candidates come in the order of their places.
LEMMA GridOrder ==
  ASSUME NEW pr, NEW d, NEW s, pr.step \in Nat \ {0}, EdgeOf(pr) \in Nat,
         RowsOf(pr, d, s) \in Nat \ {0}, NEW first \in Nat,
         NEW masks \in Nat \ {0}, NEW i \in Nat, NEW k \in Nat, i < k,
         NEW a, NEW b, a.sheet = s, b.sheet = s,
         SpotOf(a) = GridCandidate(pr, d, s, first, masks, i),
         SpotOf(b) = GridCandidate(pr, d, s, first, masks, k)
  PROVE  Earlier(a, b)
<1> DEFINE h == RowsOf(pr, d, s)
           e == EdgeOf(pr)
           ci == i \div masks
           ck == k \div masks
           xi == ci \div h
           yi == ci % h
           xk == ck \div h
           yk == ck % h
<1>1. /\ a.r = first + (i % masks) /\ a.x = xi * pr.step + e /\ a.y = yi * pr.step + e
      /\ b.r = first + (k % masks) /\ b.x = xk * pr.step + e /\ b.y = yk * pr.step + e
  BY DEF SpotOf, GridCandidate
<1>2. ci \in Nat /\ ck \in Nat /\ (i % masks) \in Nat /\ (k % masks) \in Nat
  OBVIOUS
<1>3. ci < ck \/ (ci = ck /\ i % masks < k % masks)
  BY DivisionOrder
<1>4. h \in Nat \ {0} /\ e \in Nat
  OBVIOUS
<1> HIDE DEF ci, ck, h, e
<1>5. xi \in Nat /\ yi \in Nat /\ xk \in Nat /\ yk \in Nat
  BY <1>2, <1>4
<1>6. ci < ck => xi < xk \/ (xi = xk /\ yi < yk)
  BY <1>2, <1>4, DivisionOrder
<1> DEFINE ri == i % masks
           rk == k % masks
<1>7. ci = ck => xi = xk /\ yi = yk
  OBVIOUS
<1> HIDE DEF xi, yi, xk, yk, ri, rk
<1>8. CASE xi < xk
  BY <1>1, <1>4, <1>5, <1>8, ScaledOrder DEF Earlier
<1>9. CASE xi = xk /\ yi < yk
  BY <1>1, <1>4, <1>5, <1>9, ScaledOrder DEF Earlier
<1>10. CASE ci = ck /\ ri < rk
  <2>1. a.r < b.r /\ a.x = b.x /\ a.y = b.y
    BY <1>1, <1>2, <1>7, <1>10 DEF ri, rk
  <2> QED
    BY <2>1 DEF Earlier
<1> QED
  BY <1>3, <1>6, <1>8, <1>9, <1>10 DEF ri, rk

\* A place is not earlier than itself, nor are two places than each other.
LEMMA EarlierStrict ==
  ASSUME NEW a, NEW b, a.sheet \in Nat, a.r \in Nat, a.x \in Nat, a.y \in Nat,
         b.sheet \in Nat, b.r \in Nat, b.x \in Nat, b.y \in Nat,
         Earlier(a, b)
  PROVE  ~Earlier(b, a) /\ ~Earlier(a, a)
BY DEF Earlier


\* A position of the lattice, with a mask of the share, is a candidate.
LEMMA GridReached ==
  ASSUME NEW pr, NEW d, NEW g, g.r \in Nat, OnGrid(pr, d, g),
         ColumnsOf(pr, d, g.sheet) \in Nat, RowsOf(pr, d, g.sheet) \in Nat,
         NEW first \in Nat, NEW masks \in Nat, first <= g.r, g.r < first + masks
  PROVE  \E i \in Nat :
           /\ i < ColumnsOf(pr, d, g.sheet) * RowsOf(pr, d, g.sheet) * masks
           /\ SpotOf(g) = GridCandidate(pr, d, g.sheet, first, masks, i)
<1> DEFINE w == ColumnsOf(pr, d, g.sheet)
           h == RowsOf(pr, d, g.sheet)
           e == EdgeOf(pr)
           r == g.r - first
<1>1. PICK c \in 0 .. w - 1 : g.x = c * pr.step + e
  BY DEF OnGrid
<1>2. PICK k \in 0 .. h - 1 : g.y = k * pr.step + e
  BY DEF OnGrid
<1>3. /\ w \in Nat \ {0} /\ h \in Nat \ {0} /\ masks \in Nat \ {0}
      /\ r \in 0 .. masks - 1 /\ g.r = first + r /\ c \in Nat
  OBVIOUS
<1> HIDE DEF w, h, e, r
<1> DEFINE cell == c * h + k
           i == cell * masks + r
<1>4. cell \in Nat /\ cell \div h = c /\ cell % h = k
  BY <1>3, DivisionBack
<1>5. cell < w * h
  <2>1. (c + 1) * h <= w * h /\ (c + 1) * h = c * h + h
    BY <1>1, <1>3
  <2> QED
    BY <1>2, <1>3, <2>1
<1>6. w * h \in Nat
  BY <1>3
<1> HIDE DEF cell
<1>7. i \in Nat /\ i \div masks = cell /\ i % masks = r
  BY <1>3, <1>4, DivisionBack
<1>8. i < (w * h) * masks
  <2> DEFINE t == w * h
  <2>1. t \in Nat /\ cell < t
    BY <1>5, <1>6
  <2> HIDE DEF t
  <2>2. (cell + 1) * masks <= t * masks /\ (cell + 1) * masks = cell * masks + masks
    BY <1>3, <1>4, <2>1
  <2>3. cell * masks \in Nat /\ t * masks \in Nat
    BY <1>3, <1>4, <2>1
  <2> QED
    BY <1>3, <2>2, <2>3 DEF t
<1> HIDE DEF i
<1>9. SpotOf(g) = GridCandidate(pr, d, g.sheet, first, masks, i)
  BY <1>1, <1>2, <1>3, <1>4, <1>7 DEF SpotOf, GridCandidate, h, e
<1> QED
  BY <1>7, <1>8, <1>9 DEF w, h

-----------------------------------------------------------------------------
(* Layouts and their copies.                                               *)

\* What a layout is.
LEMMA LayoutFacts ==
  ASSUME NEW pr, NEW f \in LayoutsOf(pr), NEW i \in 1 .. Len(pr.parts),
         f[i] # Nowhere
  PROVE  /\ f[i] \in PlaceRecords(pr)
         /\ f[i].sheet \in 1 .. Len(pr.sheets) /\ f[i].sheet \in Nat
         /\ f[i].r \in Nat /\ f[i].x \in Nat /\ f[i].y \in Nat
         /\ f[i].r < Len(pr.parts[i])
         /\ OnGrid(pr, i, f[i])
         /\ MaskAt(pr, i, f[i]) \subseteq pr.sheets[f[i].sheet].pixels
         /\ CoreAt(pr, i, f[i]) \subseteq pr.sheets[f[i].sheet].inner
<1>1. f[i] \in PlaceRecords(pr)
  BY DEF LayoutsOf
<1>2. /\ f[i].r < Len(pr.parts[i])
      /\ OnGrid(pr, i, f[i])
      /\ MaskAt(pr, i, f[i]) \subseteq pr.sheets[f[i].sheet].pixels
      /\ CoreAt(pr, i, f[i]) \subseteq pr.sheets[f[i].sheet].inner
  BY DEF LayoutsOf
<1> QED
  BY <1>1, <1>2 DEF PlaceRecords

\* A placement is a place.
LEMMA PlaceIs ==
  ASSUME NEW pr, NEW p \in PlacementsOf(pr)
  PROVE  PlaceOf(p) \in PlaceRecords(pr) /\ PlaceOf(p) # Nowhere
<1>1. /\ p.sheet \in 1 .. Len(pr.sheets) /\ p.r \in Nat /\ p.x \in Nat /\ p.y \in Nat
  BY DEF PlacementsOf
<1>2. p.sheet # 0
  BY <1>1
<1> QED
  BY <1>1, <1>2 DEF PlaceOf, PlaceRecords, Nowhere

\* Of two different places one is the earlier.
LEMMA EarlierTotal ==
  ASSUME NEW pr, NEW a \in PlaceRecords(pr), NEW b \in PlaceRecords(pr), a # b
  PROVE  Earlier(a, b) \/ Earlier(b, a)
<1>1. /\ a.sheet \in Nat /\ a.r \in Nat /\ a.x \in Nat /\ a.y \in Nat
      /\ b.sheet \in Nat /\ b.r \in Nat /\ b.x \in Nat /\ b.y \in Nat
      /\ a = [sheet |-> a.sheet, r |-> a.r, x |-> a.x, y |-> a.y]
      /\ b = [sheet |-> b.sheet, r |-> b.r, x |-> b.x, y |-> b.y]
  BY DEF PlaceRecords
<1>2. a.sheet # b.sheet \/ a.x # b.x \/ a.y # b.y \/ a.r # b.r
  BY <1>1
<1> QED
  BY <1>1, <1>2 DEF Earlier

\* Among some things there is one with the least number.
LEMMA LeastBy ==
  ASSUME NEW S, S # {}, NEW g \in [S -> Nat]
  PROVE  \E a \in S : \A b \in S : g[a] <= g[b]
<1> DEFINE T == {g[a] : a \in S}
<1>1. T \in SUBSET Nat /\ T # {} /\ \A b \in S : g[b] \in T
  OBVIOUS
<1> HIDE DEF T
<1>2. PICK n \in T : \A m \in T : n <= m
  BY <1>1, LeastNatural
<1>3. PICK a \in S : n = g[a]
  BY <1>2 DEF T
<1> QED
  BY <1>1, <1>2, <1>3

\* A set of places has an earliest one.
LEMMA EarliestPlace ==
  ASSUME NEW pr, NEW S \in SUBSET PlaceRecords(pr), S # {}
  PROVE  \E a \in S : \A b \in S : b # a => Earlier(a, b)
<1>1. \A a \in S : a.sheet \in Nat /\ a.x \in Nat /\ a.y \in Nat /\ a.r \in Nat
  BY DEF PlaceRecords
<1>2. PICK a1 \in S : \A b \in S : a1.sheet <= b.sheet
  <2> DEFINE g == [a \in S |-> a.sheet]
  <2>1. g \in [S -> Nat]
    BY <1>1
  <2>2. PICK a \in S : \A b \in S : g[a] <= g[b]
    BY <2>1, LeastBy
  <2> QED
    BY <2>2
<1> DEFINE S1 == {b \in S : b.sheet = a1.sheet}
<1>3. PICK a2 \in S1 : \A b \in S1 : a2.x <= b.x
  <2> DEFINE g == [a \in S1 |-> a.x]
  <2>1. g \in [S1 -> Nat] /\ S1 # {}
    BY <1>1, <1>2
  <2> HIDE DEF S1
  <2>2. PICK a \in S1 : \A b \in S1 : g[a] <= g[b]
    BY <2>1, LeastBy
  <2> QED
    BY <2>2
<1> DEFINE S2 == {b \in S1 : b.x = a2.x}
<1>4. PICK a3 \in S2 : \A b \in S2 : a3.y <= b.y
  <2> DEFINE g == [a \in S2 |-> a.y]
  <2>1. g \in [S2 -> Nat] /\ S2 # {}
    BY <1>1, <1>3
  <2> HIDE DEF S2
  <2>2. PICK a \in S2 : \A b \in S2 : g[a] <= g[b]
    BY <2>1, LeastBy
  <2> QED
    BY <2>2
<1> DEFINE S3 == {b \in S2 : b.y = a3.y}
<1>5. PICK a4 \in S3 : \A b \in S3 : a4.r <= b.r
  <2> DEFINE g == [a \in S3 |-> a.r]
  <2>1. g \in [S3 -> Nat] /\ S3 # {}
    BY <1>1, <1>4
  <2> HIDE DEF S3
  <2>2. PICK a \in S3 : \A b \in S3 : g[a] <= g[b]
    BY <2>1, LeastBy
  <2> QED
    BY <2>2
<1>6. ASSUME NEW b \in S, b # a4 PROVE Earlier(a4, b)
  <2>1. ~Earlier(b, a4)
    <3>1. b.sheet \in Nat /\ b.x \in Nat /\ b.y \in Nat /\ b.r \in Nat
          /\ a4.sheet \in Nat /\ a4.x \in Nat /\ a4.y \in Nat /\ a4.r \in Nat
      BY <1>1, <1>5
    <3>2. a4.sheet = a1.sheet /\ a4.x = a2.x /\ a4.y = a3.y
      BY <1>5
    <3>3. ~(b.sheet < a4.sheet)
      BY <1>1, <1>2, <3>1, <3>2
    <3>4. b.sheet = a4.sheet => ~(b.x < a4.x)
      BY <1>1, <1>3, <3>1, <3>2
    <3>5. b.sheet = a4.sheet /\ b.x = a4.x => ~(b.y < a4.y)
      BY <1>1, <1>4, <3>1, <3>2
    <3>6. b.sheet = a4.sheet /\ b.x = a4.x /\ b.y = a4.y => ~(b.r < a4.r)
      BY <1>1, <1>5, <3>1, <3>2
    <3> QED
      BY <3>3, <3>4, <3>5, <3>6 DEF Earlier
  <2>2. a4 \in PlaceRecords(pr) /\ b \in PlaceRecords(pr)
    BY <1>5
  <2> QED
    BY <1>6, <2>1, <2>2, EarlierTotal
<1> QED
  BY <1>5, <1>6

\* If a layout places a copy of a part, there is a first one.
LEMMA FirstCopyExists ==
  ASSUME NEW pr, NEW f \in LayoutsOf(pr), NEW d \in 1 .. Len(pr.parts),
         Len(pr.parts) \in Nat, Copied(pr, d, f) # {}
  PROVE  \E j \in d .. Len(pr.parts) : FirstCopy(pr, d, f, j)
<1> DEFINE S == {f[k] : k \in Copied(pr, d, f)}
<1>1. \A k \in Copied(pr, d, f) : k \in 1 .. Len(pr.parts) /\ f[k] # Nowhere
                                    /\ pr.parts[k] = pr.parts[d]
  BY DEF Copied
<1>2. S \in SUBSET PlaceRecords(pr) /\ S # {}
  BY <1>1, LayoutFacts
<1> HIDE DEF S
<1>3. PICK a \in S : \A b \in S : b # a => Earlier(a, b)
  BY <1>2, EarliestPlace
<1>4. PICK j \in Copied(pr, d, f) : a = f[j]
  BY <1>3 DEF S
<1>5. ASSUME NEW k \in Copied(pr, d, f), k # j PROVE Earlier(f[j], f[k])
  <2>1. f[k] # f[j]
    <3>1. f[k].sheet = f[j].sheet => f[k] # f[j]
      BY <1>1, <1>5 DEF LayoutsOf
    <3> QED
      BY <3>1
  <2> QED
    BY <1>3, <1>4, <2>1 DEF S
<1>6. j \in d .. Len(pr.parts)
  BY <1>4 DEF Copied
<1> QED
  BY <1>4, <1>5, <1>6 DEF FirstCopy


\* Two parts of the same policy change places.
Other(d, j, i) == IF i = d THEN j ELSE IF i = j THEN d ELSE i
Swapped(pr, f, d, j) == [i \in 1 .. Len(pr.parts) |-> f[Other(d, j, i)]]

LEMMA OtherFacts ==
  ASSUME NEW pr, NEW d \in 1 .. Len(pr.parts), NEW j \in 1 .. Len(pr.parts),
         pr.parts[d] = pr.parts[j], NEW i \in 1 .. Len(pr.parts)
  PROVE  /\ Other(d, j, i) \in 1 .. Len(pr.parts)
         /\ pr.parts[Other(d, j, i)] = pr.parts[i]
         /\ Other(d, j, Other(d, j, i)) = i
BY DEF Other

\* What a place is for a part, it is for every copy.
LEMMA SamePolicy ==
  ASSUME NEW pr, NEW i, NEW k, pr.parts[i] = pr.parts[k], NEW g
  PROVE  /\ MaskAt(pr, i, g) = MaskAt(pr, k, g)
         /\ CoreAt(pr, i, g) = CoreAt(pr, k, g)
         /\ HaloAt(pr, i, g) = HaloAt(pr, k, g)
         /\ OnGrid(pr, i, g) <=> OnGrid(pr, k, g)
         /\ ColumnsOf(pr, i, g.sheet) = ColumnsOf(pr, k, g.sheet)
         /\ RowsOf(pr, i, g.sheet) = RowsOf(pr, k, g.sheet)
<1>1. /\ ColumnsOf(pr, i, g.sheet) = ColumnsOf(pr, k, g.sheet)
      /\ RowsOf(pr, i, g.sheet) = RowsOf(pr, k, g.sheet)
  BY DEF ColumnsOf, RowsOf
<1> QED
  BY <1>1 DEF MaskAt, CoreAt, HaloAt, OnGrid

\* When copies change places, a layout stays one and places as many parts.
LEMMA SwapLayout ==
  ASSUME NEW pr, Len(pr.parts) \in Nat,
         NEW f \in LayoutsOf(pr), NEW d \in 1 .. Len(pr.parts),
         NEW j \in 1 .. Len(pr.parts), pr.parts[d] = pr.parts[j]
  PROVE  /\ Swapped(pr, f, d, j) \in LayoutsOf(pr)
         /\ PartCount(pr, Swapped(pr, f, d, j)) = PartCount(pr, f)
<1> DEFINE N == 1 .. Len(pr.parts)
           g == Swapped(pr, f, d, j)
           P(i) == Other(d, j, i)
<1>1. \A i \in N : P(i) \in N /\ pr.parts[P(i)] = pr.parts[i] /\ P(P(i)) = i
                   /\ g[i] = f[P(i)]
  BY OtherFacts DEF Swapped
<1>2. g \in [N -> {Nowhere} \cup PlaceRecords(pr)]
  <2>1. f \in [N -> {Nowhere} \cup PlaceRecords(pr)]
    BY DEF LayoutsOf
  <2>2. g = [i \in N |-> f[P(i)]]
    BY DEF Swapped
  <2> QED
    BY <1>1, <2>1, <2>2
<1> HIDE DEF g, P
<1>3. ASSUME NEW i \in N, g[i] # Nowhere
      PROVE  /\ g[i].r < Len(pr.parts[i])
             /\ OnGrid(pr, i, g[i])
             /\ MaskAt(pr, i, g[i]) \subseteq pr.sheets[g[i].sheet].pixels
             /\ CoreAt(pr, i, g[i]) \subseteq pr.sheets[g[i].sheet].inner
  <2>1. PICK u \in N : pr.parts[u] = pr.parts[i] /\ g[i] = f[u]
    BY <1>1
  <2>2. /\ f[u].r < Len(pr.parts[u])
        /\ OnGrid(pr, u, f[u])
        /\ MaskAt(pr, u, f[u]) \subseteq pr.sheets[f[u].sheet].pixels
        /\ CoreAt(pr, u, f[u]) \subseteq pr.sheets[f[u].sheet].inner
    BY <1>3, <2>1, LayoutFacts
  <2>3. /\ MaskAt(pr, u, f[u]) = MaskAt(pr, i, f[u])
        /\ CoreAt(pr, u, f[u]) = CoreAt(pr, i, f[u])
        /\ OnGrid(pr, u, f[u]) <=> OnGrid(pr, i, f[u])
    BY <2>1, SamePolicy
  <2> QED
    BY <2>1, <2>2, <2>3
<1>4. ASSUME NEW i \in N, NEW k \in N, i # k, g[i] # Nowhere, g[k] # Nowhere,
             g[i].sheet = g[k].sheet
      PROVE  /\ MaskAt(pr, i, g[i]) \cap MaskAt(pr, k, g[k]) = {}
             /\ HaloAt(pr, i, g[i]) \cap HaloAt(pr, k, g[k]) = {}
             /\ pr.parts[i] = pr.parts[k] => g[i] # g[k]
  <2>1. PICK u \in N, v \in N :
          /\ pr.parts[u] = pr.parts[i] /\ g[i] = f[u]
          /\ pr.parts[v] = pr.parts[k] /\ g[k] = f[v]
          /\ u # v
    <3>1. P(i) # P(k)
      BY <1>1, <1>4
    <3> QED
      BY <1>1, <3>1
  <2>2. /\ MaskAt(pr, u, f[u]) \cap MaskAt(pr, v, f[v]) = {}
        /\ HaloAt(pr, u, f[u]) \cap HaloAt(pr, v, f[v]) = {}
        /\ pr.parts[u] = pr.parts[v] => f[u] # f[v]
    BY <1>4, <2>1 DEF LayoutsOf
  <2>3. /\ MaskAt(pr, u, f[u]) = MaskAt(pr, i, f[u])
        /\ HaloAt(pr, u, f[u]) = HaloAt(pr, i, f[u])
    BY <2>1, SamePolicy
  <2>4. /\ MaskAt(pr, v, f[v]) = MaskAt(pr, k, f[v])
        /\ HaloAt(pr, v, f[v]) = HaloAt(pr, k, f[v])
    BY <2>1, SamePolicy
  <2> QED
    BY <2>1, <2>2, <2>3, <2>4
<1>5. g \in LayoutsOf(pr)
  BY <1>2, <1>3, <1>4 DEF LayoutsOf
<1>6. Cardinality(Chosen(g, N)) = Cardinality(Chosen(f, N))
  <2> DEFINE A == Chosen(g, N)
             B == Chosen(f, N)
             m == [i \in A |-> P(i)]
  <2>1. \A i \in N : i \in A <=> P(i) \in B
    BY <1>1 DEF Chosen
  <2>2. A \subseteq N /\ B \subseteq N
    BY DEF Chosen
  <2>3. IsFiniteSet(B) /\ IsFiniteSet(A)
    <3>1. 1 \in Int /\ Len(pr.parts) \in Int
      OBVIOUS
    <3>2. IsFiniteSet(N)
      BY <3>1, FS_Interval, Zenon
    <3> QED
      BY <2>2, <3>2, FS_Subset
  <2> HIDE DEF A, B
  <2>4. m \in [A -> B]
    BY <2>1, <2>2
  <2>5. \A i, k \in A : m[i] = m[k] => i = k
    BY <1>1, <2>2
  <2>6. \A k \in B : \E i \in A : m[i] = k
    <3> SUFFICES ASSUME NEW k \in B PROVE \E i \in A : m[i] = k
      OBVIOUS
    <3>1. P(k) \in N /\ P(P(k)) = k /\ k \in N
      BY <1>1, <2>2
    <3>2. P(k) \in A
      BY <2>1, <3>1
    <3> QED
      BY <3>1, <3>2
  <2> HIDE DEF m
  <2>7. m \in Bijection(A, B)
    BY <2>4, <2>5, <2>6 DEF Bijection, Injection, Surjection, IsInjective
  <2>8. ExistsBijection(A, B)
    BY <2>7 DEF ExistsBijection
  <2> QED
    BY <2>3, <2>8, FS_Bijection DEF A, B
<1> QED
  BY <1>5, <1>6 DEF PartCount, g

\* When the first copy takes the place of part d, the frame above goes on with
\* a layout that has as many parts.
LEMMA SwapRemaining ==
  ASSUME NEW pr, Len(pr.parts) \in Nat, NEW P, Sound(pr, P),
         NEW d \in 1 .. Len(pr.parts), NEW f \in Remaining(pr, P, d),
         NEW j \in 1 .. Len(pr.parts), FirstCopy(pr, d, f, j),
         NEW p \in P, p.part = d, PlaceOf(p) = f[j]
  PROVE  /\ Swapped(pr, f, d, j) \in Remaining(pr, P, d + 1)
         /\ PartCount(pr, Swapped(pr, f, d, j)) = PartCount(pr, f)
<1> DEFINE n == Len(pr.parts)
           g == Swapped(pr, f, d, j)
           O(i) == Other(d, j, i)
<1>1. /\ f \in LayoutsOf(pr) /\ Agrees(P, d, f) /\ Ordered(pr, d, f)
      /\ j \in d .. n /\ pr.parts[j] = pr.parts[d] /\ f[j] # Nowhere
  BY DEF Remaining, FirstCopy, Copied
<1>2. g \in LayoutsOf(pr) /\ PartCount(pr, g) = PartCount(pr, f)
  BY <1>1, SwapLayout
<1>3. \A i \in 1 .. n : /\ O(i) \in 1 .. n /\ pr.parts[O(i)] = pr.parts[i]
                        /\ g[i] = f[O(i)]
  BY <1>1, OtherFacts DEF Swapped
<1>4. /\ \A i \in 1 .. d - 1 : g[i] = f[i]
      /\ g[d] = f[j]
      /\ \A i \in d + 1 .. n : O(i) \in d .. n /\ O(i) # j
  <2>1. \A i \in 1 .. d - 1 : O(i) = i /\ i \in 1 .. n
    BY <1>1 DEF Other
  <2>2. O(d) = j
    BY DEF Other
  <2>3. \A i \in d + 1 .. n : O(i) \in d .. n /\ O(i) # j
    BY <1>1 DEF Other
  <2> QED
    BY <1>3, <2>1, <2>2, <2>3
<1> HIDE DEF g, O
<1>5. Agrees(P, d + 1, g)
  <2>1. ASSUME NEW q \in P, q.part < d + 1 PROVE g[q.part] = PlaceOf(q)
    <3>1. q.part \in 1 .. n
      BY DEF Sound, PlacementsOf
    <3>2. CASE q.part = d
      <4>1. q = p
        BY <3>2 DEF Sound
      <4> QED
        BY <1>4, <4>1
    <3>3. CASE q.part # d
      <4>1. q.part \in 1 .. d - 1 /\ q.part < d
        BY <2>1, <3>1, <3>3
      <4>2. f[q.part] = PlaceOf(q)
        BY <1>1, <4>1 DEF Agrees
      <4> QED
        BY <1>4, <4>1, <4>2
    <3> QED
      BY <3>2, <3>3
  <2>2. ASSUME NEW i \in 1 .. d, g[i] # Nowhere PROVE \E q \in P : q.part = i
    <3>1. CASE i = d
      BY <3>1
    <3>2. CASE i # d
      <4>1. i \in 1 .. d - 1
        BY <3>2
      <4> QED
        BY <1>1, <1>4, <2>2, <4>1 DEF Agrees
    <3> QED
      BY <3>1, <3>2
  <2>3. d + 1 - 1 = d
    OBVIOUS
  <2> QED
    BY <2>1, <2>2, <2>3 DEF Agrees
<1>6. Ordered(pr, d + 1, g)
  <2> SUFFICES ASSUME NEW i \in 1 .. d, NEW k \in d + 1 .. n,
                      pr.parts[i] = pr.parts[k], g[k] # Nowhere
               PROVE  g[i] # Nowhere /\ Earlier(g[i], g[k])
    BY DEF Ordered
  <2>1. PICK u \in d .. n : u # j /\ g[k] = f[u] /\ pr.parts[u] = pr.parts[k]
    <3>1. k \in 1 .. n
      OBVIOUS
    <3> QED
      BY <1>3, <1>4, <3>1
  <2>2. CASE i = d
    <3>1. u \in Copied(pr, d, f) \ {j}
      BY <2>1, <2>2 DEF Copied
    <3>2. Earlier(f[j], f[u])
      BY <3>1 DEF FirstCopy
    <3> QED
      BY <1>1, <1>4, <2>1, <2>2, <3>2
  <2>3. CASE i # d
    <3>1. i \in 1 .. d - 1
      BY <2>3
    <3>2. f[i] # Nowhere /\ Earlier(f[i], f[u])
      BY <1>1, <2>1, <3>1 DEF Ordered
    <3> QED
      BY <1>4, <2>1, <3>1, <3>2
  <2> QED
    BY <2>2, <2>3
<1> QED
  BY <1>2, <1>5, <1>6 DEF Remaining, g

\* A layout without copies of part d is left for the frame above a skipped one.
LEMMA SkipRemaining ==
  ASSUME NEW pr, Len(pr.parts) \in Nat, NEW P, Sound(pr, P),
         NEW d \in 1 .. Len(pr.parts), NEW f \in Remaining(pr, P, d),
         Copied(pr, d, f) = {}, \A p \in P : p.part # d
  PROVE  f \in Remaining(pr, P, d + 1)
<1> DEFINE n == Len(pr.parts)
<1>1. /\ f \in LayoutsOf(pr) /\ Agrees(P, d, f) /\ Ordered(pr, d, f)
      /\ \A k \in d .. n : pr.parts[k] = pr.parts[d] => f[k] = Nowhere
  BY DEF Remaining, Copied
<1>2. Agrees(P, d + 1, f)
  <2>1. ASSUME NEW q \in P, q.part < d + 1 PROVE f[q.part] = PlaceOf(q)
    <3>1. q.part \in 1 .. n /\ q.part # d
      BY DEF Sound, PlacementsOf
    <3>2. q.part < d
      BY <2>1, <3>1
    <3> QED
      BY <1>1, <3>2 DEF Agrees
  <2>2. ASSUME NEW i \in 1 .. d, f[i] # Nowhere PROVE \E q \in P : q.part = i
    <3>1. i # d
      BY <1>1, <2>2
    <3>2. i \in 1 .. d - 1
      BY <3>1
    <3> QED
      BY <1>1, <2>2, <3>2 DEF Agrees
  <2>3. d + 1 - 1 = d
    OBVIOUS
  <2> QED
    BY <2>1, <2>2, <2>3 DEF Agrees
<1>3. Ordered(pr, d + 1, f)
  <2> SUFFICES ASSUME NEW i \in 1 .. d, NEW k \in d + 1 .. n,
                      pr.parts[i] = pr.parts[k], f[k] # Nowhere
               PROVE  f[i] # Nowhere /\ Earlier(f[i], f[k])
    BY DEF Ordered
  <2>1. i # d
    BY <1>1
  <2>2. i \in 1 .. d - 1 /\ k \in d .. n
    BY <2>1
  <2> QED
    BY <1>1, <2>2 DEF Ordered
<1> QED
  BY <1>1, <1>2, <1>3 DEF Remaining

\* It places no more than the frames before have, and what is in a set that
\* holds all parts it places from here on.
LEMMA RemainingCount ==
  ASSUME InputInv, NEW P, Sound(problem, P), NEW d \in Nat \ {0},
         \A p \in P : p.part < d,
         NEW f \in Remaining(problem, P, d),
         NEW A, IsFiniteSet(A),
         \A k \in d .. Len(problem.parts) : f[k] # Nowhere => k \in A
  PROVE  /\ Cardinality(P) \in Nat /\ Cardinality(A) \in Nat
         /\ PartCount(problem, f) \in Nat
         /\ PartCount(problem, f) <= Cardinality(P) + Cardinality(A)
<1> DEFINE n == Len(problem.parts)
           B == {p.part : p \in P}
           C == Chosen(f, 1 .. n)
<1>1. n \in Nat /\ IsFiniteSet(P)
  BY InputFacts, SoundCount
<1>2. IsFiniteSet(B) /\ Cardinality(B) <= Cardinality(P)
  <2> DEFINE m == [p \in P |-> p.part]
  <2>1. m \in Surjection(P, B)
    BY DEF Surjection
  <2> HIDE DEF m, B
  <2> QED
    BY <1>1, <2>1, FS_Surjection
<1>3. C \subseteq B \cup A
  <2> SUFFICES ASSUME NEW i \in 1 .. n, f[i] # Nowhere PROVE i \in B \cup A
    BY DEF Chosen
  <2>1. CASE i \in 1 .. d - 1
    BY <2>1 DEF Remaining, Agrees
  <2>2. CASE i \in d .. n
    BY <2>2
  <2> QED
    BY <1>1, <2>1, <2>2
<1> HIDE DEF B, C
<1>4. /\ IsFiniteSet(B \cup A)
      /\ Cardinality(B \cup A) = Cardinality(B) + Cardinality(A) - Cardinality(B \cap A)
  BY <1>2, FS_Union
<1>5. IsFiniteSet(B \cap A)
  BY <1>2, FS_Subset
<1>6. IsFiniteSet(C) /\ Cardinality(C) <= Cardinality(B \cup A)
  BY <1>3, <1>4, FS_Subset
<1>7. /\ Cardinality(B \cap A) \in Nat /\ Cardinality(A) \in Nat
      /\ Cardinality(P) \in Nat /\ Cardinality(B) \in Nat /\ Cardinality(C) \in Nat
      /\ Cardinality(B \cup A) \in Nat
  BY <1>1, <1>2, <1>4, <1>5, <1>6, FS_CardinalityType
<1> QED
  BY <1>2, <1>4, <1>6, <1>7 DEF PartCount, C, n

-----------------------------------------------------------------------------
(* The frames and their candidates.                                        *)

\* The masks of the top frame are the worker's share of them.
LEMMA ShareIs ==
  ASSUME SearchInv, Depth \in 1 .. Len(problem.parts)
  PROVE  /\ FirstMask = FirstOf(problem, worker, Depth)
         /\ MaskCount = EndOf(problem, worker, Depth) - FirstOf(problem, worker, Depth)
         /\ FirstMask \in Nat /\ MaskCount \in Nat \ {0}
         /\ FirstMask + MaskCount = EndOf(problem, worker, Depth)
         /\ EndOf(problem, worker, Depth) <= Len(problem.parts[Depth])
<1> DEFINE L == Len(problem.parts[1])
           W == Workers
           q == (L * worker) \div W
           r == (L * (worker + 1)) \div W
<1>1. /\ InputInv /\ worker \in 0 .. W - 1 /\ W \in Nat \ {0} /\ L \in Nat \ {0}
      /\ Len(problem.parts[Depth]) \in Nat \ {0}
  <2>1. InputInv /\ worker \in 0 .. W - 1
    BY DEF SearchInv, WorkerInv
  <2>2. 1 \in 1 .. Len(problem.parts)
    BY <2>1, InputFacts
  <2> QED
    BY <2>1, <2>2, WorkerFacts, PolicyFacts
<1>2. RootFirst = q /\ RootCount = r - q /\ q \in Nat /\ r - q \in Nat \ {0}
  BY <1>1, RootFacts DEF RootFirst, RootCount, Parts
<1>3. WorkersOf(problem) = W
  BY DEF WorkersOf, Workers, Parts
<1> HIDE DEF L, W
<1>4. r \in Nat /\ r <= L
  <2>1. L * (worker + 1) \in Nat
    BY <1>1
  <2>2. r \in Nat
    BY <1>1, <2>1, Quotient
  <2>3. ~(L + 1 <= r)
    <3>1. L * (worker + 1) <= L * W /\ W * (L + 1) = L * W + W /\ L * W \in Nat
      BY <1>1
    <3>2. ~(W * (L + 1) <= L * (worker + 1))
      BY <1>1, <2>1, <3>1
    <3> QED
      BY <1>1, <2>1, <3>2, QuotientAtLeast
  <2> QED
    BY <1>1, <2>2, <2>3
<1> HIDE DEF q, r
<1>5. CASE Depth = 1
  <2>1. FirstOf(problem, worker, Depth) = q /\ EndOf(problem, worker, Depth) = r
    BY <1>3, <1>5 DEF FirstOf, EndOf, L, q, r
  <2>2. CASE W > 1
    BY <1>2, <1>4, <1>5, <2>1, <2>2 DEF FirstMask, MaskCount, Shares, L, W
  <2>3. CASE ~(W > 1)
    <3>1. W = 1 /\ worker = 0
      BY <1>1, <2>3
    <3>2. q = 0 /\ r = L
      BY <1>1, <3>1 DEF q, r
    <3> QED
      BY <1>1, <1>5, <2>1, <2>3, <3>2 DEF FirstMask, MaskCount, Shares, L, W, Parts
  <2> QED
    BY <2>2, <2>3
<1>6. CASE Depth # 1
  <2>1. /\ FirstOf(problem, worker, Depth) = 0
        /\ EndOf(problem, worker, Depth) = Len(problem.parts[Depth])
    BY <1>6 DEF FirstOf, EndOf
  <2> QED
    BY <1>1, <1>6, <2>1 DEF FirstMask, MaskCount, Shares, Parts
<1> QED
  BY <1>5, <1>6

\* From the left the candidates are those of the lattice in its order.
LEMMA CandidateGrid ==
  ASSUME SearchInv, Depth \in 1 .. Len(problem.parts),
         flow \in {"automatic", "left"}, NEW s, NEW i
  PROVE  CandidateOf(problem, flow, worker, Depth, s, i) =
           CandidateAt(problem, worker, Depth, s, i)
<1>1. /\ FirstMask = FirstOf(problem, worker, Depth)
      /\ MaskCount = EndOf(problem, worker, Depth) - FirstOf(problem, worker, Depth)
  BY ShareIs
<1>2. \A cell : Origin(s, cell) = Decode(s, cell)
  BY OriginIs
<1>3. CandidateOf(problem, flow, worker, Depth, s, i) =
        [r |-> FirstMask + (i % MaskCount),
         x |-> Decode(s, i \div MaskCount).x, y |-> Decode(s, i \div MaskCount).y]
  BY <1>2, CandidateIs
<1> QED
  BY <1>1, <1>3 DEF CandidateAt, GridCandidate, Decode, Lattice, Rows, Edge

\* The placement of a hit is its candidate.
LEMMA HitSpot ==
  ASSUME SearchInv, OnSheet, Hits # {}, flow \in {"automatic", "left"}
  PROVE  /\ SpotOf(HitPlacement) = CandidateAt(problem, worker, Depth, Top.sheet, Hit)
         /\ HitPlacement.sheet = Top.sheet /\ HitPlacement.part = Depth
         /\ HitPlacement.r = HitMask
<1>1. CandidateOf(problem, flow, worker, Depth, Top.sheet, Hit) =
        CandidateAt(problem, worker, Depth, Top.sheet, Hit)
  BY OnSheetFacts, CandidateGrid
<1>2. LET c == CandidateAt(problem, worker, Depth, Top.sheet, Hit)
      IN /\ c.r = HitPlacement.r /\ c.x = HitPlacement.x /\ c.y = HitPlacement.y
         /\ HitPlacement.part = Depth /\ HitPlacement.sheet = Top.sheet
  BY <1>1, HitIs
<1>3. HitPlacement.r = HitMask
  BY DEF HitPlacement
<1> QED
  BY <1>2, <1>3 DEF SpotOf, CandidateAt, GridCandidate

\* A part count is a number.
LEMMA PartCountNat ==
  ASSUME NEW pr, Len(pr.parts) \in Nat, NEW f
  PROVE  PartCount(pr, f) \in Nat
<1> DEFINE N == 1 .. Len(pr.parts)
<1>1. 1 \in Int /\ Len(pr.parts) \in Int
  OBVIOUS
<1>2. IsFiniteSet(N)
  BY <1>1, FS_Interval, Zenon
<1>3. IsFiniteSet(Chosen(f, N))
  BY <1>2, FS_Subset DEF Chosen
<1> QED
  BY <1>3, FS_CardinalityType DEF PartCount

\* What remains depends on what the frames before have placed.
LEMMA RemainingBelow ==
  ASSUME NEW pr, NEW P, NEW Q, NEW d \in Nat, Below(P, d) = Below(Q, d)
  PROVE  Remaining(pr, P, d) = Remaining(pr, Q, d)
<1>1. \A p : p \in P /\ p.part < d <=> p \in Q /\ p.part < d
  BY DEF Below
<1>2. \A f : Agrees(P, d, f) <=> Agrees(Q, d, f)
  <2>1. \A i \in 1 .. d - 1 : (\E p \in P : p.part = i) <=> (\E p \in Q : p.part = i)
    BY <1>1
  <2> QED
    BY <1>1, <2>1 DEF Agrees
<1> QED
  BY <1>2 DEF Remaining

\* More placed parts do not undo what a frame has explored.
LEMMA ExploredKept ==
  ASSUME NEW pr, Len(pr.parts) \in Nat, NEW wk, NEW P, NEW Q, NEW d \in Nat,
         Below(P, d) = Below(Q, d), NEW F, NEW open,
         NEW most \in Nat, NEW more \in Nat, most <= more
  PROVE  /\ ExploredAt(pr, wk, P, d, F, open, most) => ExploredAt(pr, wk, Q, d, F, open, more)
         /\ SkippedAt(pr, P, d, F, most) => SkippedAt(pr, Q, d, F, more)
<1>1. Remaining(pr, P, d) = Remaining(pr, Q, d)
  BY RemainingBelow
<1>2. \A f : PartCount(pr, f) <= most => PartCount(pr, f) <= more
  BY PartCountNat
<1>3. ExploredAt(pr, wk, P, d, F, open, most) => ExploredAt(pr, wk, Q, d, F, open, more)
  BY <1>1, <1>2 DEF ExploredAt
<1>4. SkippedAt(pr, P, d, F, most) => SkippedAt(pr, Q, d, F, more)
  BY <1>1, <1>2 DEF SkippedAt
<1> QED
  BY <1>3, <1>4

\* A copy that a remaining layout places keeps clear of what is placed.
LEMMA ClearOfPlaced ==
  ASSUME SearchInv, OnSheet, NEW f \in Remaining(problem, placed, Depth),
         NEW j \in Copied(problem, Depth, f), NEW q \in placed,
         q.sheet = f[j].sheet
  PROVE  /\ MaskAt(problem, Depth, f[j]) \cap PixelsOf(problem, q) = {}
         /\ HaloAt(problem, Depth, f[j]) \cap HaloOf(problem, q) = {}
<1> DEFINE i == q.part
<1>1. /\ Depth \in 1 .. Len(problem.parts) /\ Len(problem.parts) \in Nat
      /\ i \in 1 .. Depth - 1
      /\ j \in Depth .. Len(problem.parts) /\ problem.parts[j] = problem.parts[Depth]
      /\ f[j] # Nowhere
      /\ f \in LayoutsOf(problem) /\ Agrees(placed, Depth, f)
  BY OnSheetFacts, PlacedBelow, InputFacts DEF OnSheet, SearchInv, Copied, Remaining
<1>2. q \in PlacementsOf(problem)
  BY DEF SearchInv, PathInv, Sound
<1> HIDE DEF i
<1>3. f[i] = PlaceOf(q) /\ f[i] # Nowhere /\ f[i].sheet = f[j].sheet
  <2>1. i < Depth
    BY <1>1
  <2>2. f[i] = PlaceOf(q)
    BY <1>1, <2>1 DEF Agrees, i
  <2> QED
    BY <1>2, <2>2, PlaceIs DEF PlaceOf
<1>4. /\ MaskAt(problem, j, f[j]) \cap MaskAt(problem, i, f[i]) = {}
      /\ HaloAt(problem, j, f[j]) \cap HaloAt(problem, i, f[i]) = {}
  <2>1. i # j /\ i \in 1 .. Len(problem.parts) /\ j \in 1 .. Len(problem.parts)
    BY <1>1
  <2> QED
    BY <1>1, <1>3, <2>1 DEF LayoutsOf
<1>5. /\ MaskAt(problem, i, f[i]) = PixelsOf(problem, q)
      /\ HaloAt(problem, i, f[i]) = HaloOf(problem, q)
  <2>1. f[i].r = q.r /\ f[i].x = q.x /\ f[i].y = q.y
    BY <1>3 DEF PlaceOf
  <2> QED
    BY <2>1 DEF MaskAt, HaloAt, PixelsOf, HaloOf, Shifted, i
<1>6. /\ MaskAt(problem, j, f[j]) = MaskAt(problem, Depth, f[j])
      /\ HaloAt(problem, j, f[j]) = HaloAt(problem, Depth, f[j])
  BY <1>1, SamePolicy
<1> QED
  BY <1>4, <1>5, <1>6

\* Where a remaining layout places a copy, the mask fits.
LEMMA CopyFits ==
  ASSUME SearchInv, TreeInv, OnSheet, flow \in {"automatic", "left"},
         NEW f \in Remaining(problem, placed, Depth),
         NEW j \in Copied(problem, Depth, f), f[j].sheet = Top.sheet,
         NEW i, SpotOf(f[j]) = CandidateAt(problem, worker, Depth, Top.sheet, i)
  PROVE  FitsAt(problem, Depth, Top.sheet, occupied[Top.sheet],
                CandidateOf(problem, flow, worker, Depth, Top.sheet, i))
<1> DEFINE c == CandidateOf(problem, flow, worker, Depth, Top.sheet, i)
<1>1. /\ Depth \in 1 .. Len(problem.parts) /\ Top.sheet \in 1 .. Len(problem.sheets)
      /\ j \in 1 .. Len(problem.parts) /\ problem.parts[j] = problem.parts[Depth]
      /\ f[j] # Nowhere /\ f \in LayoutsOf(problem)
  BY OnSheetFacts DEF Copied, Remaining
<1>2. c = SpotOf(f[j])
  BY <1>1, CandidateGrid
<1> HIDE DEF c
<1>3. c.r = f[j].r /\ c.x = f[j].x /\ c.y = f[j].y
  BY <1>2 DEF SpotOf
<1>4. Shifted(problem.parts[Depth][c.r + 1].pixels, c) = MaskAt(problem, Depth, f[j])
  BY <1>3 DEF MaskAt, Shifted
<1>5. MaskAt(problem, Depth, f[j]) \subseteq problem.sheets[Top.sheet].pixels
  BY <1>1, LayoutFacts, SamePolicy
<1>6. MaskAt(problem, Depth, f[j]) \cap Covered(problem, placed, Top.sheet) = {}
  BY ClearOfPlaced DEF Covered
<1>7. occupied[Top.sheet] \subseteq Covered(problem, placed, Top.sheet)
  BY <1>1 DEF TreeInv, Toggled
<1> QED
  BY <1>4, <1>5, <1>6, <1>7 DEF FitsAt, c

\* So its flag is set.
LEMMA FlagSet ==
  ASSUME SearchInv, TreeInv, OnSheet, flow \in {"automatic", "left"},
         NEW f \in Remaining(problem, placed, Depth),
         NEW j \in Copied(problem, Depth, f), f[j].sheet = Top.sheet,
         NEW c \in 1 .. Len(Top.flags),
         SpotOf(f[j]) = CandidateAt(problem, worker, Depth, Top.sheet, Top.first + c - 1)
  PROVE  Top.flags[c]
<1>1. FitsAt(problem, Depth, Top.sheet, occupied[Top.sheet],
             CandidateOf(problem, flow, worker, Depth, Top.sheet, Top.first + c - 1))
  BY CopyFits
<1>2. Toggled(problem, Below(placed, Depth), Top.sheet) = occupied[Top.sheet]
  BY TopToggled
<1>3. Depth \in 1 .. Len(stack) /\ Top = stack[Depth]
  BY TopFacts DEF OnSheet, Ready, Depth, Top
<1> QED
  BY <1>1, <1>2, <1>3, Zenon DEF TreeInv, FlagsInv

\* And it passes the exact tests.
LEMMA CopyPasses ==
  ASSUME SearchInv, OnSheet, Hits # {}, flow \in {"automatic", "left"},
         NEW f \in Remaining(problem, placed, Depth),
         NEW j \in Copied(problem, Depth, f), f[j].sheet = Top.sheet,
         SpotOf(f[j]) = CandidateAt(problem, worker, Depth, Top.sheet, Hit)
  PROVE  ExactlyFits(HitPlacement)
<1> DEFINE h == HitPlacement
<1>1. /\ Depth \in 1 .. Len(problem.parts)
      /\ j \in 1 .. Len(problem.parts) /\ problem.parts[j] = problem.parts[Depth]
      /\ f[j] # Nowhere /\ f \in LayoutsOf(problem)
  BY OnSheetFacts DEF Copied, Remaining
<1>2. SpotOf(h) = SpotOf(f[j]) /\ h.sheet = Top.sheet /\ h.part = Depth
  BY HitSpot
<1> HIDE DEF h
<1>3. h.r = f[j].r /\ h.x = f[j].x /\ h.y = f[j].y
  BY <1>2 DEF SpotOf
<1>4. /\ Core(h) = CoreAt(problem, Depth, f[j])
      /\ Halo(h) = HaloAt(problem, Depth, f[j])
  BY <1>2, <1>3 DEF Core, Halo, CoreAt, HaloAt, Shifted, Parts
<1>5. CoreAt(problem, Depth, f[j]) \subseteq problem.sheets[Top.sheet].inner
  BY <1>1, LayoutFacts, SamePolicy
<1>6. \A q \in placed : q.sheet = Top.sheet =>
        HaloAt(problem, Depth, f[j]) \cap HaloOf(problem, q) = {}
  BY ClearOfPlaced
<1>7. \A q : Halo(q) = HaloOf(problem, q)
  BY DEF Halo, HaloOf, Parts
<1> QED
  BY <1>2, <1>4, <1>5, <1>6, <1>7 DEF ExactlyFits, Sheets, h

\* A copy that a remaining layout places is not excluded: a skipped copy
\* before it would have been placed first.
LEMMA CopyNotExcluded ==
  ASSUME SearchInv, Ready, ~Top.skipVisited,
         NEW f \in Remaining(problem, placed, Depth),
         NEW k \in Depth .. Len(problem.parts), f[k] # Nowhere
  PROVE  excluded[problem.parts[k]] = 0
<1> DEFINE n == Len(problem.parts)
           p == problem.parts[k]
           S == Skipped(stack, problem, p)
<1>1. /\ n \in Nat /\ Depth \in 1 .. n + 1 /\ Depth = Len(stack) /\ Top = stack[Depth]
      /\ k \in 1 .. n
  BY TopFacts, InputFacts DEF SearchInv, Ready, Depth, Top
<1>2. excluded[p] = Cardinality(S)
  <2>1. p \in Range(problem.parts)
    BY <1>1, PolicyFacts DEF SearchInv
  <2> QED
    BY <2>1 DEF SearchInv, ExcludedInv
<1>3. S = {}
  <2> SUFFICES ASSUME NEW i \in S PROVE FALSE
    OBVIOUS
  <2>1. i \in 1 .. Depth /\ stack[i].skipVisited /\ problem.parts[i] = p
    BY <1>1 DEF Skipped
  <2>2. i \in 1 .. Depth - 1
    BY <1>1, <2>1
  <2>3. ~stack[i].active
    BY <1>1, <2>1 DEF SearchInv, PathInv
  <2>4. \A q \in placed : q.part # i
    BY <2>3 DEF SearchInv, PathInv
  <2>5. f[i] = Nowhere
    BY <2>2, <2>4 DEF Remaining, Agrees
  <2> QED
    BY <2>1, <2>2, <2>5 DEF Remaining, Ordered
<1> QED
  BY <1>2, <1>3, FS_EmptySet

-----------------------------------------------------------------------------
(* What the frames have explored.                                          *)

\* The workers' record changes with the stack's end only.
LEMMA TopExplores ==
  ASSUME SearchInv, ExploredInv, Searching,
         NEW F \in Frames, stack' = SetTop(F), F.skipVisited = Top.skipVisited,
         UNCHANGED <<problem, worker, placed, overall>>,
         \A f \in Remaining(problem, placed, Depth) :
           \A j \in 1 .. Len(problem.parts) :
             /\ FirstCopy(problem, Depth, f, j)
             /\ Mine(problem, worker, Depth, f[j].r)
             /\ Passed(problem, worker, Depth, F, f[j])
             => Passed(problem, worker, Depth, Top, f[j])
  PROVE  ExploredInv'
<1>1. /\ stack \in Seq(Frames) /\ Depth \in Nat \ {0} /\ Depth = Len(stack)
      /\ Top = stack[Depth] /\ stack' = [stack EXCEPT ![Len(stack)] = F]
      /\ Len(stack) # 0
  BY TopFacts, InputFacts DEF SetTop, Depth, Top, SearchInv
<1>2. /\ Len(stack') = Depth /\ stack'[Depth] = F
      /\ \A d \in 1 .. Depth - 1 : stack'[d] = stack[d]
  BY <1>1, SetTopFacts
<1> SUFFICES ASSUME NEW d \in 1 .. Depth, d <= Len(problem.parts)
             PROVE  /\ ExploredAt(problem, worker, placed, d, stack'[d], d < Depth, overall)
                    /\ d = Depth => SkippedAt(problem, placed, d, stack'[d], overall)
  BY <1>2 DEF ExploredInv
<1>3. /\ ExploredAt(problem, worker, placed, d, stack[d], d < Depth, overall)
      /\ d = Depth => SkippedAt(problem, placed, d, stack[d], overall)
  BY <1>1 DEF ExploredInv
<1>4. CASE d < Depth
  <2>1. stack'[d] = stack[d]
    BY <1>1, <1>2, <1>4
  <2> QED
    BY <1>1, <1>3, <1>4, <2>1
<1>5. CASE d = Depth
  <2>1. SkippedAt(problem, placed, d, F, overall)
    BY <1>1, <1>3, <1>5 DEF SkippedAt
  <2>2. ExploredAt(problem, worker, placed, d, Top, FALSE, overall)
    BY <1>1, <1>3, <1>5 DEF ExploredAt
  <2>3. ExploredAt(problem, worker, placed, d, F, d < Depth, overall)
    BY <1>5, <2>2 DEF ExploredAt
  <2> QED
    BY <1>2, <1>5, <2>1, <2>3
<1> QED
  BY <1>1, <1>4, <1>5

\* How far the top frame is.
LEMMA TopScanned ==
  ASSUME SearchInv, ScannedInv, Searching
  PROVE  ScannedAt(problem, placed, Depth, Top)
<1>1. Depth \in 1 .. Len(stack) /\ Top = stack[Depth]
  BY TopFacts DEF Depth, Top
<1> QED
  BY <1>1 DEF ScannedInv

\* A frame that continues behind the nearest copy has passed no place that is
\* left for it.
LEMMA BehindCopy ==
  ASSUME SearchInv, ScannedInv, Ready, Depth <= Len(problem.parts), Copies # {},
         NEW f \in Remaining(problem, placed, Depth),
         NEW j \in Copied(problem, Depth, f),
         NEW F, F.flags = <<>>, F.sheet = stack[Max(Copies)].sheet,
         F.next = stack[Max(Copies)].index + 1
  PROVE  ~Passed(problem, worker, Depth, F, f[j])
<1> DEFINE c == Max(Copies)
           s == F.sheet
           L == Len(problem.parts[Depth])
<1>1. /\ Depth \in 1 .. Len(problem.parts) /\ Len(problem.parts) \in Nat
      /\ Depth = Len(stack) /\ InputInv
  BY TopFacts, InputFacts DEF SearchInv, Ready, Depth
<1>2. /\ c \in 1 .. Depth - 1 /\ stack[c] \in Frames
      /\ stack[c].active /\ problem.parts[c] = problem.parts[Depth]
  <2>1. c \in 1 .. Depth - 1 /\ stack[c] \in Frames
    BY CopyFacts DEF Ready
  <2>2. Copies \in SUBSET Nat /\ Depth - 1 \in Nat /\ \A y \in Copies : y <= Depth - 1
    BY <1>1 DEF Copies
  <2>3. c \in Copies
    BY <2>2, MaxIs
  <2> QED
    BY <2>1, <2>3 DEF Copies, Parts
<1> HIDE DEF c
<1>3. /\ j \in Depth .. Len(problem.parts) /\ problem.parts[j] = problem.parts[Depth]
      /\ f[j] # Nowhere /\ f \in LayoutsOf(problem)
      /\ Agrees(placed, Depth, f) /\ Ordered(problem, Depth, f)
  BY DEF Copied, Remaining
<1>4. ScannedAt(problem, placed, c, stack[c])
  <2>1. c \in 1 .. Len(stack)
    BY <1>1, <1>2
  <2> QED
    BY <2>1 DEF ScannedInv
<1>5. PICK p \in placed : p.part = c /\ PlaceOf(p) = ChosenOf(stack[c])
  BY <1>2, <1>4 DEF ScannedAt
<1>6. f[c] = ChosenOf(stack[c]) /\ f[c] # Nowhere /\ Earlier(f[c], f[j])
  <2>1. c < Depth
    BY <1>1, <1>2
  <2>2. f[c] = PlaceOf(p)
    BY <1>3, <1>5, <2>1 DEF Agrees
  <2>3. f[c] # Nowhere /\ Earlier(f[c], f[j])
    BY <1>1, <1>2, <1>3 DEF Ordered
  <2> QED
    BY <1>5, <2>2, <2>3
<1>7. /\ f[c].sheet \in 1 .. Len(problem.sheets) /\ f[c].sheet \in Nat
      /\ f[c].r \in Nat /\ f[c].x \in Nat /\ f[c].y \in Nat
      /\ f[j].sheet \in Nat /\ f[j].r \in Nat /\ f[j].x \in Nat /\ f[j].y \in Nat
  <2>1. c \in 1 .. Len(problem.parts) /\ j \in 1 .. Len(problem.parts)
    BY <1>1, <1>2, <1>3
  <2> QED
    BY <1>3, <1>6, <2>1, LayoutFacts
<1>8. f[c].sheet = s /\ SpotOf(f[c]) =
        GridCandidate(problem, Depth, s, 0, L, stack[c].index)
  <2>1. stack[c].chosen = GridCandidate(problem, c, s, 0, L, stack[c].index)
    BY <1>2, <1>4 DEF ScannedAt, c
  <2>2. RowsOf(problem, c, s) = RowsOf(problem, Depth, s)
    BY <1>2 DEF RowsOf
  <2>3. stack[c].chosen = GridCandidate(problem, Depth, s, 0, L, stack[c].index)
    BY <2>1, <2>2 DEF GridCandidate
  <2>4. SpotOf(f[c]) = [r |-> stack[c].chosen.r, x |-> stack[c].chosen.x,
                        y |-> stack[c].chosen.y]
    BY <1>6 DEF SpotOf, ChosenOf
  <2>5. f[c].sheet = s
    BY <1>6 DEF ChosenOf, c
  <2> QED
    BY <2>3, <2>4, <2>5 DEF GridCandidate
<1>9. ~Earlier(f[j], f[c])
  BY <1>6, <1>7, EarlierStrict
<1>10. ASSUME Passed(problem, worker, Depth, F, f[j]) PROVE FALSE
  <2>1. CASE f[j].sheet < s
    BY <1>7, <1>8, <1>9, <2>1 DEF Earlier
  <2>2. CASE f[j].sheet = s /\ \E i \in Nat : i < ScannedOf(F) /\
               SpotOf(f[j]) = CandidateAt(problem, worker, Depth, s, i)
    <3>1. PICK i \in Nat : i < ScannedOf(F) /\
            SpotOf(f[j]) = CandidateAt(problem, worker, Depth, s, i)
      BY <2>2
    <3>2. SpotOf(f[j]) = GridCandidate(problem, Depth, s, 0, L, i)
      <4>1. Depth # 1 /\ L \in Nat /\ L - 0 = L
        BY <1>1, <1>2, PolicyFacts
      <4>2. /\ FirstOf(problem, worker, Depth) = 0
            /\ EndOf(problem, worker, Depth) = L
        BY <4>1 DEF FirstOf, EndOf
      <4> QED
        BY <3>1, <4>1, <4>2 DEF CandidateAt
    <3>3. i <= stack[c].index /\ stack[c].index \in Nat
      <4>1. stack[c].index \in Nat
        BY <1>2 DEF Frames
      <4>2. ScannedOf(F) = stack[c].index + 1
        BY DEF ScannedOf, c
      <4> QED
        BY <3>1, <4>1, <4>2
    <3>4. CASE i = stack[c].index
      <4>1. SpotOf(f[j]) = SpotOf(f[c])
        BY <1>8, <3>2, <3>4
      <4>2. f[j].r = f[c].r /\ f[j].x = f[c].x /\ f[j].y = f[c].y
        BY <4>1 DEF SpotOf
      <4> QED
        BY <1>6, <1>7, <1>8, <2>2, <4>2 DEF Earlier
    <3>5. CASE i # stack[c].index
      <4>1. i < stack[c].index
        BY <3>1, <3>3, <3>5
      <4>2. s \in 1 .. Len(problem.sheets)
        BY <1>7, <1>8
      <4>3. /\ problem.step \in Nat \ {0} /\ EdgeOf(problem) \in Nat
            /\ RowsOf(problem, Depth, s) \in Nat \ {0} /\ L \in Nat \ {0}
        <5>1. RowsOf(problem, c, s) > 0
          BY <1>2, <1>4 DEF ScannedAt, c
        <5>2. RowsOf(problem, c, s) = RowsOf(problem, Depth, s)
          BY <1>2 DEF RowsOf
        <5>3. RowsOf(problem, Depth, s) \in Nat
          BY <1>1, <4>2, GridFacts
        <5>4. EdgeOf(problem) \in Nat
          BY <1>1, <4>2, GridFacts
        <5>5. problem.step \in Nat \ {0}
          BY <1>1, InputFacts
        <5>6. L \in Nat \ {0}
          BY <1>1, PolicyFacts
        <5>7. RowsOf(problem, Depth, s) \in Nat \ {0}
          BY <5>1, <5>2, <5>3
        <5> QED
          BY <5>4, <5>5, <5>6, <5>7
      <4> HIDE DEF s, L
      <4>4. Earlier(f[j], f[c])
        BY <1>8, <2>2, <3>1, <3>2, <3>3, <4>1, <4>3, GridOrder
      <4> QED
        BY <1>9, <4>4
    <3> QED
      BY <3>4, <3>5
  <2> QED
    BY <1>10, <2>1, <2>2 DEF Passed
<1> QED
  BY <1>10

\* Begin: nothing that is left for the frame lies before where it begins.
LEMMA BeginExplores ==
  ASSUME SearchInv, ScannedInv, ExploredInv, Begin
  PROVE  ExploredInv'
<1>1. PICK F \in Frames :
        /\ stack' = SetTop(F)
        /\ F.skipVisited = Top.skipVisited /\ F.active = Top.active
        /\ F.flags = Top.flags
        /\ F.initialized /\ F.cursor = Top.cursor
        /\ BeginsAt(F.sheet, F.next)
  BY BeginFrame
<1>2. /\ Searching /\ ~Top.skipVisited /\ Top.flags = <<>> /\ Ready /\ ~Top.initialized
      /\ Depth <= Len(problem.parts)
  <2>1. Ready /\ ~Hopeless /\ ~Top.initialized
    BY DEF Begin
  <2>2. Depth <= Len(problem.parts)
    BY <2>1, TopFacts, InputFacts DEF Hopeless, Bounded, Parts, Ready, SearchInv
  <2> QED
    BY <2>1, <2>2, BeginFrame
<1>3. Top.sheet = 1 /\ Top.next = 0
  BY <1>2, TopScanned DEF ScannedAt
<1>4. UNCHANGED <<problem, worker, placed, overall>>
  BY DEF Begin, input, tree, result
<1>5. ASSUME NEW f \in Remaining(problem, placed, Depth),
             NEW j \in 1 .. Len(problem.parts), FirstCopy(problem, Depth, f, j),
             Passed(problem, worker, Depth, F, f[j])
      PROVE  FALSE
  <2>1. /\ j \in Copied(problem, Depth, f) /\ f[j] # Nowhere
        /\ j \in Depth .. Len(problem.parts) /\ problem.parts[j] = problem.parts[Depth]
        /\ f \in LayoutsOf(problem)
    BY <1>5 DEF FirstCopy, Copied, Remaining
  <2>2. CASE excluded[Parts[Depth]] > 0
    BY <1>2, <2>1, <2>2, CopyNotExcluded DEF Parts
  <2>3. CASE /\ Copies # {} /\ F.sheet = stack[Max(Copies)].sheet
             /\ F.next = stack[Max(Copies)].index + 1
    BY <1>1, <1>2, <1>5, <2>1, <2>3, BehindCopy
  <2>4. CASE F.sheet = Top.sheet /\ F.next = Top.next
    <3>1. F.sheet = 1 /\ ScannedOf(F) = 0
      BY <1>1, <1>2, <1>3, <2>4 DEF ScannedOf
    <3>2. f[j].sheet \in 1 .. Len(problem.sheets)
      BY <2>1, LayoutFacts
    <3>3. ~(f[j].sheet < 1) /\ \A i \in Nat : ~(i < 0)
      BY <3>2
    <3> QED
      BY <1>5, <3>1, <3>3 DEF Passed
  <2> QED
    BY <1>1, <2>2, <2>3, <2>4 DEF BeginsAt
<1> QED
  BY <1>1, <1>2, <1>4, <1>5, TopExplores

\* A frame whose flags are used up has scanned all candidates so far.
LEMMA AllScannedIs ==
  ASSUME SearchInv, ScannedInv, Searching, AllScanned
  PROVE  ScannedOf(Top) = Top.next
<1>1. /\ Top.flags # <<>> => Top.next = Top.first + Len(Top.flags)
      /\ Top.cursor = Len(Top.flags)
  BY TopScanned DEF ScannedAt, AllScanned
<1> QED
  BY <1>1 DEF ScannedOf

\* NextSheet: every place on the sheet has been scanned.
LEMMA NextSheetExplores ==
  ASSUME SearchInv, ScannedInv, ExploredInv, NextSheet
  PROVE  ExploredInv'
<1>1. PICK F \in Frames :
        /\ stack' = SetTop(F)
        /\ F.skipVisited = Top.skipVisited
        /\ F.flags = <<>> /\ F.sheet = Top.sheet + 1 /\ F.next = 0
  BY NextSheetFrame
<1>2. /\ Searching /\ OnSheet /\ UNCHANGED <<problem, worker, placed, overall>>
      /\ Total(Top.sheet) = 0 \/ (AllScanned /\ Top.next = Total(Top.sheet))
  BY DEF NextSheet, OnSheet, Ready, input, tree, result
<1>3. /\ Depth \in 1 .. Len(problem.parts) /\ Top.sheet \in 1 .. Len(problem.sheets)
      /\ Len(problem.sheets) \in Nat /\ Top.sheet \in Nat
  BY <1>2, OnSheetFacts, InputFacts DEF SearchInv
<1>4. ASSUME NEW f \in Remaining(problem, placed, Depth),
             NEW j \in 1 .. Len(problem.parts), FirstCopy(problem, Depth, f, j),
             Mine(problem, worker, Depth, f[j].r),
             Passed(problem, worker, Depth, F, f[j])
      PROVE  Passed(problem, worker, Depth, Top, f[j])
  <2>1. /\ f[j] # Nowhere /\ problem.parts[j] = problem.parts[Depth]
        /\ f \in LayoutsOf(problem)
    BY <1>4 DEF FirstCopy, Copied, Remaining
  <2>2. /\ f[j].sheet \in Nat /\ f[j].r \in Nat /\ OnGrid(problem, Depth, f[j])
    BY <2>1, LayoutFacts, SamePolicy
  <2>3. ScannedOf(F) = 0
    BY <1>1 DEF ScannedOf
  <2>4. f[j].sheet < Top.sheet + 1
    <3>1. \A i \in Nat : ~(i < 0)
      OBVIOUS
    <3> QED
      BY <1>1, <1>4, <2>3, <3>1 DEF Passed
  <2>5. CASE f[j].sheet < Top.sheet
    BY <2>5 DEF Passed
  <2>6. CASE f[j].sheet = Top.sheet
    <3>1. /\ Total(Top.sheet) = ColumnsOf(problem, Depth, Top.sheet)
                                  * RowsOf(problem, Depth, Top.sheet) * MaskCount
          /\ ColumnsOf(problem, Depth, Top.sheet) \in Nat
          /\ RowsOf(problem, Depth, Top.sheet) \in Nat
      BY <1>2, CandidateFacts DEF Total
    <3>2. /\ FirstMask = FirstOf(problem, worker, Depth)
          /\ MaskCount = EndOf(problem, worker, Depth) - FirstOf(problem, worker, Depth)
          /\ FirstMask \in Nat /\ MaskCount \in Nat \ {0}
          /\ FirstMask + MaskCount = EndOf(problem, worker, Depth)
      BY <1>3, ShareIs
    <3>3. FirstMask <= f[j].r /\ f[j].r < FirstMask + MaskCount
      BY <1>4, <3>2 DEF Mine
    <3>4. PICK i \in Nat :
            /\ i < ColumnsOf(problem, Depth, Top.sheet)
                     * RowsOf(problem, Depth, Top.sheet) * MaskCount
            /\ SpotOf(f[j]) = GridCandidate(problem, Depth, Top.sheet, FirstMask, MaskCount, i)
      <4>1. /\ ColumnsOf(problem, Depth, f[j].sheet) \in Nat
            /\ RowsOf(problem, Depth, f[j].sheet) \in Nat
        BY <2>6, <3>1
      <4>2. PICK i \in Nat :
              /\ i < ColumnsOf(problem, Depth, f[j].sheet)
                       * RowsOf(problem, Depth, f[j].sheet) * MaskCount
              /\ SpotOf(f[j]) = GridCandidate(problem, Depth, f[j].sheet, FirstMask, MaskCount, i)
        <5> DEFINE g == f[j]
                   first == FirstMask
                   masks == MaskCount
        <5>1. /\ g.r \in Nat /\ OnGrid(problem, Depth, g)
              /\ ColumnsOf(problem, Depth, g.sheet) \in Nat
              /\ RowsOf(problem, Depth, g.sheet) \in Nat
              /\ first \in Nat /\ masks \in Nat \ {0}
              /\ first <= g.r /\ g.r < first + masks
          BY <2>2, <3>2, <3>3, <4>1
        <5> HIDE DEF g, first, masks
        <5>2. \E i \in Nat :
                /\ i < ColumnsOf(problem, Depth, g.sheet)
                         * RowsOf(problem, Depth, g.sheet) * masks
                /\ SpotOf(g) = GridCandidate(problem, Depth, g.sheet, first, masks, i)
          BY <5>1, GridReached
        <5> QED
          BY <5>2 DEF g, first, masks
      <4>3. /\ ColumnsOf(problem, Depth, f[j].sheet) = ColumnsOf(problem, Depth, Top.sheet)
            /\ RowsOf(problem, Depth, f[j].sheet) = RowsOf(problem, Depth, Top.sheet)
            /\ GridCandidate(problem, Depth, f[j].sheet, FirstMask, MaskCount, i)
                 = GridCandidate(problem, Depth, Top.sheet, FirstMask, MaskCount, i)
        BY <2>6
      <4> QED
        BY <4>2, <4>3
    <3>5. i < Total(Top.sheet)
      BY <3>1, <3>4
    <3>6. SpotOf(f[j]) = CandidateAt(problem, worker, Depth, Top.sheet, i)
      BY <3>2, <3>4 DEF CandidateAt
    <3>7. i < ScannedOf(Top)
      <4>1. Total(Top.sheet) # 0
        BY <3>4, <3>5
      <4>2. ScannedOf(Top) = Top.next /\ Top.next = Total(Top.sheet)
        BY <1>2, <4>1, AllScannedIs
      <4> QED
        BY <3>5, <4>2
    <3> QED
      BY <2>6, <3>6, <3>7 DEF Passed
  <2> QED
    BY <1>3, <2>2, <2>4, <2>5, <2>6
<1> QED
  BY <1>1, <1>2, <1>4, TopExplores

\* Filter and FilterOnDevice: a batch begins where the last one has ended.
LEMMA BatchExplores ==
  ASSUME SearchInv, ScannedInv, ExploredInv, Filtering,
         NEW flags \in Seq(BOOLEAN), Len(flags) = Batch,
         stack' = SetTop(Filtered(flags)),
         UNCHANGED <<problem, worker, placed, overall>>
  PROVE  ExploredInv'
<1>1. PICK F \in Frames :
        /\ F = Filtered(flags)
        /\ F.skipVisited = Top.skipVisited /\ F.sheet = Top.sheet
        /\ F.flags = flags /\ F.first = Top.next /\ F.cursor = 0
  BY FilteredFacts
<1>2. Searching /\ AllScanned
  BY DEF Filtering, OnSheet, Ready
<1>3. flags # <<>> /\ Top.next \in Nat
  <2>1. Batch \in Nat \ {0} /\ Len(<<>>) = 0
    BY BatchFacts
  <2>2. Top \in Frames
    BY <1>2, TopFacts
  <2> QED
    BY <2>1, <2>2 DEF Frames
<1>4. ScannedOf(F) = ScannedOf(Top)
  <2>1. ScannedOf(F) = Top.next
    BY <1>1, <1>3 DEF ScannedOf
  <2> QED
    BY <1>2, <2>1, AllScannedIs
<1>5. \A g : Passed(problem, worker, Depth, F, g) => Passed(problem, worker, Depth, Top, g)
  BY <1>1, <1>4 DEF Passed
<1> QED
  BY <1>1, <1>2, <1>5, TopExplores

\* When the cursor moves on, a copy that is left for the frame is behind it
\* only at a candidate whose flag is set.
LEMMA CursorPasses ==
  ASSUME SearchInv, TreeInv, ScannedInv, OnSheet, Top.flags # <<>>,
         flow \in {"automatic", "left"},
         NEW c \in Top.cursor .. Len(Top.flags),
         NEW F, F.sheet = Top.sheet, F.flags = Top.flags, F.first = Top.first,
         F.cursor = c,
         NEW f \in Remaining(problem, placed, Depth),
         NEW j \in Copied(problem, Depth, f),
         Passed(problem, worker, Depth, F, f[j])
  PROVE  \/ Passed(problem, worker, Depth, Top, f[j])
         \/ /\ f[j].sheet = Top.sheet
            /\ \E k \in Top.cursor + 1 .. c :
                 /\ Top.flags[k]
                 /\ SpotOf(f[j]) = CandidateAt(problem, worker, Depth, Top.sheet,
                                               Top.first + k - 1)
<1>1. CASE f[j].sheet < Top.sheet
  BY <1>1 DEF Passed
<1>2. CASE /\ f[j].sheet = Top.sheet
           /\ \E i \in Nat : i < ScannedOf(F) /\
                SpotOf(f[j]) = CandidateAt(problem, worker, Depth, Top.sheet, i)
  <2>1. PICK i \in Nat : i < ScannedOf(F) /\
               SpotOf(f[j]) = CandidateAt(problem, worker, Depth, Top.sheet, i)
    BY <1>2
  <2>2. /\ Top.first \in Nat /\ Top.cursor \in Nat /\ Len(Top.flags) \in Nat
    BY TopFacts DEF OnSheet, Ready, Frames
  <2>3. ScannedOf(F) = Top.first + c /\ ScannedOf(Top) = Top.first + Top.cursor
    BY DEF ScannedOf
  <2>4. CASE i < ScannedOf(Top)
    BY <1>2, <2>1, <2>4 DEF Passed
  <2>5. CASE ~(i < ScannedOf(Top))
    <3> DEFINE k == i - Top.first + 1
    <3>1. /\ k \in Top.cursor + 1 .. c /\ k \in 1 .. Len(Top.flags)
          /\ Top.first + k - 1 = i
      BY <2>1, <2>2, <2>3, <2>5
    <3> HIDE DEF k
    <3>2. Top.flags[k]
      BY <1>2, <2>1, <3>1, FlagSet
    <3> QED
      BY <1>2, <2>1, <3>1, <3>2
  <2> QED
    BY <2>4, <2>5
<1> QED
  BY <1>1, <1>2 DEF Passed

\* NoHit: no flag is set behind the cursor.
LEMMA NoHitExplores ==
  ASSUME SearchInv, TreeInv, ScannedInv, ExploredInv, NoHit,
         flow \in {"automatic", "left"}
  PROVE  ExploredInv'
<1>1. /\ OnSheet /\ Searching /\ ~AllScanned /\ Hits = {}
      /\ stack' = SetTop([Top EXCEPT !.cursor = Len(Top.flags)])
      /\ UNCHANGED <<problem, worker, placed, overall>>
  BY DEF NoHit, OnSheet, Ready, input, tree, result
<1>2. /\ Len(Top.flags) \in Nat /\ Top.cursor \in Nat
  BY <1>1, TopFacts DEF Frames
<1>3. Top.flags # <<>> /\ Top.cursor \in 0 .. Len(Top.flags)
  BY <1>1, <1>2, TopScanned DEF ScannedAt, AllScanned
<1>4. PICK F \in Frames :
        /\ stack' = SetTop(F)
        /\ F.skipVisited = Top.skipVisited /\ F.flags = Top.flags
        /\ F.sheet = Top.sheet /\ F.first = Top.first /\ F.cursor = Len(Top.flags)
  BY <1>1, <1>2, CursorFrame
<1>5. ASSUME NEW f \in Remaining(problem, placed, Depth),
             NEW j \in 1 .. Len(problem.parts), FirstCopy(problem, Depth, f, j),
             Passed(problem, worker, Depth, F, f[j])
      PROVE  Passed(problem, worker, Depth, Top, f[j])
  <2>1. j \in Copied(problem, Depth, f)
    BY <1>5 DEF FirstCopy
  <2>2. Len(Top.flags) \in Top.cursor .. Len(Top.flags)
    BY <1>2, <1>3
  <2>3. ~ \E k \in Top.cursor + 1 .. Len(Top.flags) : Top.flags[k]
    BY <1>1 DEF Hits
  <2> QED
    BY <1>1, <1>3, <1>4, <1>5, <2>1, <2>2, <2>3, CursorPasses
<1> QED
  BY <1>1, <1>4, <1>5, TopExplores

\* A copy that is left for the frame, and comes up to the hit, is the hit.
LEMMA HitPasses ==
  ASSUME SearchInv, TreeInv, ScannedInv, OnSheet, Hits # {},
         flow \in {"automatic", "left"},
         NEW F, F.sheet = Top.sheet, F.flags = Top.flags, F.first = Top.first,
         F.cursor = Min(Hits),
         NEW f \in Remaining(problem, placed, Depth),
         NEW j \in Copied(problem, Depth, f),
         Passed(problem, worker, Depth, F, f[j])
  PROVE  \/ Passed(problem, worker, Depth, Top, f[j])
         \/ /\ f[j].sheet = Top.sheet
            /\ SpotOf(f[j]) = CandidateAt(problem, worker, Depth, Top.sheet, Hit)
<1>1. /\ Min(Hits) \in 1 .. Len(Top.flags) /\ Hit = Top.first + Min(Hits) - 1
      /\ Len(Top.flags) \in Nat /\ Top.cursor \in Nat
  <2>1. Min(Hits) \in 1 .. Len(Top.flags) /\ Hit = Top.first + Min(Hits) - 1
    BY HitFacts
  <2>2. Searching
    BY DEF OnSheet, Ready
  <2>3. Len(Top.flags) \in Nat /\ Top.cursor \in Nat
    BY <2>2, TopFacts DEF Frames
  <2> QED
    BY <2>1, <2>3
<1>2. Hits \in SUBSET Nat /\ \A k \in Hits : k \in Top.cursor + 1 .. Len(Top.flags)
  BY <1>1 DEF Hits
<1>3. Min(Hits) \in Hits /\ \A k \in Hits : Min(Hits) <= k
  BY <1>2, MinIs
<1> DEFINE c == Min(Hits)
<1>4. c \in Top.cursor .. Len(Top.flags) /\ c \in Top.cursor + 1 .. Len(Top.flags)
  BY <1>1, <1>2, <1>3
<1>5. Top.flags # <<>>
  BY <1>1
<1>6. \A k \in Top.cursor + 1 .. c : Top.flags[k] => k = c
  <2> SUFFICES ASSUME NEW k \in Top.cursor + 1 .. c, Top.flags[k] PROVE k = c
    OBVIOUS
  <2>1. k \in Hits
    BY <1>1, <1>4 DEF Hits
  <2> QED
    BY <1>1, <1>3, <1>4, <2>1
<1> HIDE DEF c
<1>7. \/ Passed(problem, worker, Depth, Top, f[j])
      \/ /\ f[j].sheet = Top.sheet
         /\ \E k \in Top.cursor + 1 .. c :
              /\ Top.flags[k]
              /\ SpotOf(f[j]) = CandidateAt(problem, worker, Depth, Top.sheet,
                                            Top.first + k - 1)
  BY <1>4, <1>5, CursorPasses DEF c
<1> QED
  BY <1>1, <1>6, <1>7 DEF c

\* The flags of a hit's frame.
LEMMA HitFrame ==
  ASSUME SearchInv, Searching, Hits # {}, OnSheet
  PROVE  Top.flags # <<>>
BY HitFacts DEF OnSheet

\* RejectHit: a copy there would have passed.
LEMMA RejectHitExplores ==
  ASSUME SearchInv, TreeInv, ScannedInv, ExploredInv, RejectHit,
         flow \in {"automatic", "left"}
  PROVE  ExploredInv'
<1>1. /\ OnSheet /\ Searching /\ Hits # {} /\ ~ExactlyFits(HitPlacement)
      /\ stack' = SetTop([Top EXCEPT !.cursor = Min(Hits)])
      /\ UNCHANGED <<problem, worker, placed, overall>>
  BY DEF RejectHit, OnSheet, Ready, input, tree, result
<1>2. Min(Hits) \in Nat
  BY <1>1, HitFacts
<1>3. PICK F \in Frames :
        /\ stack' = SetTop(F)
        /\ F.skipVisited = Top.skipVisited /\ F.flags = Top.flags
        /\ F.sheet = Top.sheet /\ F.first = Top.first /\ F.cursor = Min(Hits)
  BY <1>1, <1>2, CursorFrame
<1>4. ASSUME NEW f \in Remaining(problem, placed, Depth),
             NEW j \in 1 .. Len(problem.parts), FirstCopy(problem, Depth, f, j),
             Passed(problem, worker, Depth, F, f[j])
      PROVE  Passed(problem, worker, Depth, Top, f[j])
  <2>1. j \in Copied(problem, Depth, f)
    BY <1>4 DEF FirstCopy
  <2> QED
    BY <1>1, <1>3, <1>4, <2>1, HitPasses, CopyPasses
<1> QED
  BY <1>1, <1>3, <1>4, TopExplores

\* A fresh frame has explored nothing.
LEMMA FreshExplores ==
  ASSUME NEW pr, NEW wk, NEW P, NEW d \in Nat, NEW open, NEW most
  PROVE  /\ ExploredAt(pr, wk, P, d, Frame, open, most)
         /\ SkippedAt(pr, P, d, Frame, most)
<1>1. Frame.sheet = 1 /\ ScannedOf(Frame) = 0 /\ ~Frame.skipVisited
  BY DEF Frame, ScannedOf
<1>2. ASSUME NEW f \in Remaining(pr, P, d), NEW j \in 1 .. Len(pr.parts),
             FirstCopy(pr, d, f, j), Passed(pr, wk, d, Frame, f[j])
      PROVE  FALSE
  <2>1. f[j] # Nowhere /\ f \in LayoutsOf(pr)
    BY <1>2 DEF FirstCopy, Copied, Remaining
  <2>2. f[j].sheet \in Nat /\ f[j].sheet >= 1
    BY <2>1, LayoutFacts
  <2>3. \A i \in Nat : ~(i < 0)
    OBVIOUS
  <2> QED
    BY <1>1, <1>2, <2>2, <2>3 DEF Passed
<1>3. ExploredAt(pr, wk, P, d, Frame, open, most)
  BY <1>2 DEF ExploredAt
<1> QED
  BY <1>1, <1>3 DEF SkippedAt

\* What is published is no more than the workers' record.
LEMMA PublishGrows ==
  ASSUME SearchInv, ScannedInv, NEW P, Sound(problem, P), Publish(P)
  PROVE  /\ overall \in Nat /\ overall' \in Nat /\ best' \in Nat
         /\ overall <= overall' /\ best' <= overall'
         /\ Cardinality(P) <= overall'
<1>1. /\ overall \in Nat /\ Cardinality(P) \in Nat /\ best \in Nat /\ best <= overall
  BY InputFacts, SoundCount DEF SearchInv, ResultInv, ScannedInv
<1> DEFINE c == Cardinality(P)
           m == Max({overall, c})
<1>2. m \in Nat /\ m >= overall /\ m >= c
  BY <1>1, MaxOfTwo
<1>3. \/ best' = c /\ overall' = m
      \/ c <= best /\ best' = best /\ overall' = overall
  BY DEF Publish, result
<1> HIDE DEF c, m
<1> QED
  BY <1>1, <1>2, <1>3 DEF c

\* Commit: the frame is past the hit, whose layouts its child explores.
LEMMA CommitExplores ==
  ASSUME SearchInv, TreeInv, ScannedInv, ExploredInv, Commit,
         flow \in {"automatic", "left"}
  PROVE  ExploredInv'
<1> DEFINE h == HitPlacement
           N == Len(problem.parts)
           F == stack'[Depth]
<1>1. /\ OnSheet /\ Searching /\ Ready /\ Hits # {} /\ ExactlyFits(h)
      /\ placed' = placed \cup {h} /\ Publish(placed \cup {h})
      /\ UNCHANGED <<problem, worker>>
  BY DEF Commit, OnSheet, Ready, input
<1>2. h.part = Depth /\ Sound(problem, placed \cup {h})
  BY <1>1, HitSound
<1>3. /\ overall \in Nat /\ overall' \in Nat /\ overall <= overall'
  BY <1>1, <1>2, PublishGrows
<1>4. /\ Depth \in 1 .. N /\ N \in Nat /\ Depth = Len(stack) /\ Depth \in Nat
      /\ Top = stack[Depth]
  BY <1>1, OnSheetFacts, InputFacts DEF SearchInv, Depth, Top
<1>5. /\ Len(stack') = Depth + 1
      /\ \A d \in 1 .. Depth - 1 : stack'[d] = stack[d]
      /\ stack'[Depth + 1] = Frame
      /\ F.active /\ F.skipVisited = Top.skipVisited
      /\ F.sheet = Top.sheet /\ F.flags = Top.flags
      /\ F.first = Top.first /\ F.cursor = Min(Hits)
      /\ F.chosen = [x |-> h.x, y |-> h.y, r |-> HitMask]
  BY CommitStack
<1>6. \A d \in Nat : d <= Depth => Below(placed', d) = Below(placed, d)
  BY <1>1, <1>2, <1>4 DEF Below
<1>7. /\ SpotOf(h) = CandidateAt(problem, worker, Depth, Top.sheet, Hit)
      /\ h.sheet = Top.sheet /\ h.r = HitMask
  BY <1>1, HitSpot
<1> HIDE DEF h, F
<1>8. \A d \in 1 .. Depth : ExploredAt(problem, worker, placed, d, stack[d], d < Depth, overall)
  BY <1>4 DEF ExploredInv
<1>9. ASSUME NEW d \in 1 .. Depth - 1
      PROVE  ExploredAt(problem, worker, placed', d, stack'[d], d < Depth + 1, overall')
  <2>1. ExploredAt(problem, worker, placed, d, stack[d], d < Depth, overall)
    BY <1>4, <1>8
  <2>2. Below(placed, d) = Below(placed', d) /\ d \in Nat
    BY <1>4, <1>6
  <2>3. ExploredAt(problem, worker, placed', d, stack[d], d < Depth, overall')
    BY <1>3, <1>4, <2>1, <2>2, ExploredKept
  <2>4. (d < Depth) /\ (d < Depth + 1) /\ stack'[d] = stack[d]
    BY <1>4, <1>5
  <2> QED
    BY <2>3, <2>4 DEF ExploredAt
<1>10. ExploredAt(problem, worker, placed', Depth, F, TRUE, overall')
  <2>1. Remaining(problem, placed', Depth) = Remaining(problem, placed, Depth)
    BY <1>4, <1>6, RemainingBelow
  <2> SUFFICES ASSUME NEW f \in Remaining(problem, placed, Depth),
                      NEW j \in 1 .. N, FirstCopy(problem, Depth, f, j),
                      Mine(problem, worker, Depth, f[j].r),
                      Passed(problem, worker, Depth, F, f[j]),
                      f[j] # ChosenOf(F)
               PROVE  PartCount(problem, f) <= overall'
    BY <1>5, <2>1 DEF ExploredAt
  <2>2. j \in Copied(problem, Depth, f) /\ f[j] # Nowhere /\ f \in LayoutsOf(problem)
    BY DEF FirstCopy, Copied, Remaining
  <2>3. \/ Passed(problem, worker, Depth, Top, f[j])
        \/ /\ f[j].sheet = Top.sheet
           /\ SpotOf(f[j]) = CandidateAt(problem, worker, Depth, Top.sheet, Hit)
    BY <1>1, <1>5, <2>2, HitPasses
  <2>4. CASE /\ f[j].sheet = Top.sheet
             /\ SpotOf(f[j]) = CandidateAt(problem, worker, Depth, Top.sheet, Hit)
    <3>1. f[j].r = h.r /\ f[j].x = h.x /\ f[j].y = h.y
      BY <1>7, <2>4 DEF SpotOf
    <3>2. f[j] \in PlaceRecords(problem)
      BY <2>2, LayoutFacts
    <3>3. f[j] = [sheet |-> f[j].sheet, r |-> f[j].r, x |-> f[j].x, y |-> f[j].y]
      BY <3>2 DEF PlaceRecords
    <3>4. ChosenOf(F) = [sheet |-> Top.sheet, r |-> h.r, x |-> h.x, y |-> h.y]
      BY <1>5, <1>7 DEF ChosenOf
    <3>5. f[j] = ChosenOf(F)
      BY <2>4, <3>1, <3>3, <3>4
    <3> QED
      BY <3>5
  <2>5. CASE Passed(problem, worker, Depth, Top, f[j])
    <3>1. ExploredAt(problem, worker, placed, Depth, Top, Depth < Depth, overall)
      BY <1>4, <1>8
    <3>2. PartCount(problem, f) <= overall
      BY <1>4, <2>5, <3>1 DEF ExploredAt
    <3> QED
      BY <1>3, <1>4, <3>2, PartCountNat
  <2> QED
    BY <2>3, <2>4, <2>5
<1> SUFFICES ASSUME NEW d \in 1 .. Depth + 1, d <= N
             PROVE  /\ ExploredAt(problem, worker, placed', d, stack'[d], d < Depth + 1, overall')
                    /\ d = Depth + 1 => SkippedAt(problem, placed', d, stack'[d], overall')
  BY <1>1, <1>5 DEF ExploredInv
<1>11. CASE d \in 1 .. Depth - 1
  BY <1>4, <1>9, <1>11
<1>12. CASE d = Depth
  <2>1. (d < Depth + 1) = TRUE /\ d # Depth + 1
    BY <1>4, <1>12
  <2> QED
    BY <1>10, <1>12, <2>1 DEF F
<1>13. CASE d = Depth + 1
  <2>1. d \in Nat
    OBVIOUS
  <2> QED
    BY <1>5, <1>13, <2>1, FreshExplores
<1> QED
  BY <1>4, <1>11, <1>12, <1>13

\* Skip: the frame keeps what it has explored, and its child begins.
LEMMA SkipExplores ==
  ASSUME SearchInv, ScannedInv, ExploredInv, Skip
  PROVE  ExploredInv'
<1> DEFINE N == Len(problem.parts)
           F == stack'[Depth]
<1>1. /\ Ready /\ Searching /\ UNCHANGED <<problem, worker, placed, overall>>
  BY DEF Skip, SkipOwned, OffSheets, Ready, input, tree, result
<1>2. /\ N \in Nat /\ Depth = Len(stack) /\ Depth \in Nat \ {0}
      /\ Top = stack[Depth] /\ ~Top.active
  BY <1>1, TopFacts, InputFacts DEF SearchInv, Depth, Top, Ready
<1>3. /\ Len(stack') = Depth + 1
      /\ \A d \in 1 .. Depth - 1 : stack'[d] = stack[d]
      /\ stack'[Depth + 1] = Frame
      /\ F.active = Top.active
      /\ F.sheet = Top.sheet /\ F.flags = Top.flags /\ F.next = Top.next
      /\ F.first = Top.first /\ F.cursor = Top.cursor
  BY SkipStack
<1> HIDE DEF F
<1> SUFFICES ASSUME NEW d \in 1 .. Depth + 1, d <= N
             PROVE  /\ ExploredAt(problem, worker, placed, d, stack'[d], d < Depth + 1, overall)
                    /\ d = Depth + 1 => SkippedAt(problem, placed, d, stack'[d], overall)
  BY <1>1, <1>3 DEF ExploredInv
<1>4. d \in 1 .. Depth => ExploredAt(problem, worker, placed, d, stack[d], d < Depth, overall)
  BY <1>2 DEF ExploredInv
<1>5. CASE d \in 1 .. Depth - 1
  <2>1. d < Depth /\ d < Depth + 1 /\ stack'[d] = stack[d] /\ d \in 1 .. Depth /\ d # Depth + 1
    BY <1>2, <1>3, <1>5
  <2> QED
    BY <1>4, <2>1 DEF ExploredAt
<1>6. CASE d = Depth
  <2>1. d \in 1 .. Depth /\ d # Depth + 1 /\ ~F.active
    BY <1>2, <1>3, <1>6
  <2>2. ScannedOf(F) = ScannedOf(Top) /\ F.sheet = Top.sheet
    BY <1>3 DEF ScannedOf
  <2>3. \A g : Passed(problem, worker, Depth, F, g) <=> Passed(problem, worker, Depth, Top, g)
    BY <2>2 DEF Passed
  <2>4. ExploredAt(problem, worker, placed, Depth, Top, Depth < Depth, overall)
    BY <1>2, <1>4, <1>6, <2>1
  <2>5. ExploredAt(problem, worker, placed, Depth, F, d < Depth + 1, overall)
    BY <1>2, <2>1, <2>3, <2>4 DEF ExploredAt
  <2> QED
    BY <1>6, <2>1, <2>5 DEF F
<1>7. CASE d = Depth + 1
  <2>1. d \in Nat
    OBVIOUS
  <2> QED
    BY <1>3, <1>7, <2>1, FreshExplores
<1> QED
  BY <1>2, <1>5, <1>6, <1>7

\* Backtrack: the child has explored the layouts of the place that is given up.
LEMMA BacktrackExplores ==
  ASSUME SearchInv, ExploredInv, Backtrack
  PROVE  ExploredInv'
<1> DEFINE N == Len(problem.parts)
           F == stack'[Depth]
<1>1. /\ Searching /\ UNCHANGED <<problem, worker, overall>>
  BY DEF Backtrack, input, result
<1>2. /\ N \in Nat /\ Depth = Len(stack) /\ Depth \in Nat \ {0} /\ Top = stack[Depth]
      /\ overall \in Nat
  BY <1>1, TopFacts, InputFacts DEF SearchInv, ResultInv, Depth, Top
<1>3. \A d \in 1 .. Depth : Below(placed', d) = Below(placed, d)
  BY BacktrackStep
<1>4. /\ Len(stack') = Depth
      /\ \A d \in 1 .. Depth - 1 : stack'[d] = stack[d]
      /\ F.skipVisited = Top.skipVisited
      /\ F.sheet = Top.sheet /\ F.flags = Top.flags /\ F.next = Top.next
      /\ F.first = Top.first /\ F.cursor = Top.cursor
  BY BacktrackStack
<1> HIDE DEF F
<1> SUFFICES ASSUME NEW d \in 1 .. Depth, d <= N
             PROVE  /\ ExploredAt(problem, worker, placed', d, stack'[d], d < Depth, overall)
                    /\ d = Depth => SkippedAt(problem, placed', d, stack'[d], overall)
  BY <1>1, <1>4 DEF ExploredInv
<1>5. /\ ExploredAt(problem, worker, placed, d, stack[d], d < Depth, overall)
      /\ d = Depth => SkippedAt(problem, placed, d, stack[d], overall)
  BY <1>2 DEF ExploredInv
<1>6. d \in Nat /\ Below(placed, d) = Below(placed', d) /\ overall <= overall
  BY <1>2, <1>3
<1>7. /\ ExploredAt(problem, worker, placed', d, stack[d], d < Depth, overall)
      /\ d = Depth => SkippedAt(problem, placed', d, stack[d], overall)
  BY <1>2, <1>5, <1>6, ExploredKept
<1>8. CASE d \in 1 .. Depth - 1
  BY <1>2, <1>4, <1>7, <1>8
<1>9. CASE d = Depth
  <2>1. ScannedOf(F) = ScannedOf(Top) /\ F.sheet = Top.sheet
    BY <1>4 DEF ScannedOf
  <2>2. \A g : Passed(problem, worker, Depth, F, g) <=> Passed(problem, worker, Depth, Top, g)
    BY <2>1 DEF Passed
  <2>3. ~(d < Depth)
    BY <1>2, <1>9
  <2>4. ExploredAt(problem, worker, placed', d, F, d < Depth, overall)
    BY <1>2, <1>7, <1>9, <2>2, <2>3 DEF ExploredAt
  <2>5. SkippedAt(problem, placed', d, F, overall)
    BY <1>2, <1>4, <1>7, <1>9 DEF SkippedAt
  <2> QED
    BY <1>9, <2>4, <2>5 DEF F
<1> QED
  BY <1>2, <1>8, <1>9

\* A step that leaves the stack alone.
LEMMA StackKeepsExplored ==
  ASSUME ExploredInv, UNCHANGED <<problem, worker, stack, placed, overall>>
  PROVE  ExploredInv'
BY DEF ExploredInv

\* NextWorker: it begins with a fresh frame.
LEMMA NextWorkerExplores ==
  ASSUME SearchInv, NextWorker
  PROVE  ExploredInv'
<1>1. stack' = <<Frame>> /\ Len(<<Frame>>) = 1 /\ <<Frame>>[1] = Frame
  BY DEF NextWorker
<1>2. \A d \in 1 .. Len(stack') : d \in Nat /\ stack'[d] = Frame
  BY <1>1
<1> QED
  BY <1>2, FreshExplores DEF ExploredInv

\* All layouts are left for the first frame.
LEMMA RemainingRoot ==
  ASSUME NEW pr, Len(pr.parts) \in Nat, NEW P, Sound(pr, P), NEW f \in LayoutsOf(pr)
  PROVE  f \in Remaining(pr, P, 1)
<1>1. \A p \in P : ~(p.part < 1)
  BY DEF Sound, PlacementsOf
<1>2. 1 .. 1 - 1 = {}
  OBVIOUS
<1> QED
  BY <1>1, <1>2 DEF Remaining, Agrees, Ordered

\* When a frame is popped whose layouts have all been explored, the frame below
\* has explored those of its choice as well.
LEMMA PopExplores ==
  ASSUME SearchInv, ScannedInv, ExploredInv, Ready, stack' = Pop,
         UNCHANGED <<problem, worker, placed>>,
         overall \in Nat, overall' \in Nat, overall <= overall',
         \A f \in Remaining(problem, placed, Depth) :
           (Depth = 1 => Owns(problem, worker, f)) => PartCount(problem, f) <= overall'
  PROVE  /\ ExploredInv'
         /\ stack' = <<>> => \A f \in LayoutsOf(problem) :
              Owns(problem, worker, f) => PartCount(problem, f) <= overall'
<1> DEFINE N == Len(problem.parts)
           e == Depth - 1
<1>1. /\ N \in Nat /\ Depth = Len(stack) /\ Depth \in 1 .. N + 1
      /\ stack \in Seq(Frames) /\ stack' = SubSeq(stack, 1, Len(stack) - 1)
  BY TopFacts, InputFacts DEF SearchInv, Depth, Ready, Pop
<1>2. /\ Len(stack') = e /\ \A d \in 1 .. e : stack'[d] = stack[d]
      /\ e \in 0 .. N
  BY <1>1, PopFacts
<1> HIDE DEF e
<1>3. Depth = e + 1 /\ \A d \in 1 .. e : d \in 1 .. Len(stack) /\ d <= N /\ d < Len(stack) /\ d \in Nat
  BY <1>1, <1>2 DEF e
<1>4. Sound(problem, placed)
  BY DEF SearchInv, PathInv
<1>5. stack' = <<>> => \A f \in LayoutsOf(problem) :
        Owns(problem, worker, f) => PartCount(problem, f) <= overall'
  <2> SUFFICES ASSUME stack' = <<>>, NEW f \in LayoutsOf(problem), Owns(problem, worker, f)
               PROVE  PartCount(problem, f) <= overall'
    OBVIOUS
  <2>1. Depth = 1
    <3>1. Len(<<>>) = 0
      OBVIOUS
    <3> QED
      BY <1>2, <1>3, <3>1
  <2>2. f \in Remaining(problem, placed, 1)
    BY <1>1, <1>4, RemainingRoot
  <2> QED
    BY <2>1, <2>2
<1>6. ASSUME NEW d \in 1 .. e
      PROVE  ExploredAt(problem, worker, placed, d, stack[d], TRUE, overall)
  <2>1. d \in 1 .. Len(stack) /\ d <= N /\ d < Len(stack)
    BY <1>3
  <2>2. ExploredAt(problem, worker, placed, d, stack[d], d < Len(stack), overall)
    BY <2>1 DEF ExploredInv
  <2> QED
    BY <2>1, <2>2 DEF ExploredAt
<1>7. ASSUME NEW d \in 1 .. e
      PROVE  /\ ExploredAt(problem, worker, placed, d, stack[d], d < e, overall')
             /\ d = e => SkippedAt(problem, placed, d, stack[d], overall')
  <2>1. ExploredAt(problem, worker, placed, d, stack[d], TRUE, overall')
    BY <1>1, <1>3, <1>6, ExploredKept
  <2>2. CASE d # e
    <3>1. d < e
      BY <1>2, <2>2
    <3> QED
      BY <2>1, <2>2, <3>1 DEF ExploredAt
  <2>3. CASE d = e
    <3>1. /\ d \in 1 .. Len(stack) /\ d \in 1 .. N /\ d + 1 = Depth /\ Depth # 1
          /\ ~(d < e)
      BY <1>1, <1>3, <2>3
    <3>2. \A f \in Remaining(problem, placed, d + 1) : PartCount(problem, f) <= overall'
      BY <3>1
    <3>3. ScannedAt(problem, placed, d, stack[d])
      BY <3>1 DEF ScannedInv
    <3>4. SkippedAt(problem, placed, d, stack[d], overall')
      <4> SUFFICES ASSUME stack[d].skipVisited, NEW f \in Remaining(problem, placed, d),
                          Copied(problem, d, f) = {}
                   PROVE  PartCount(problem, f) <= overall'
        BY DEF SkippedAt
      <4>1. \A p \in placed : p.part # d
        BY <3>1 DEF SearchInv, PathInv
      <4> QED
        BY <1>1, <1>4, <3>1, <3>2, <4>1, SkipRemaining
    <3>5. ExploredAt(problem, worker, placed, d, stack[d], FALSE, overall')
      <4> SUFFICES ASSUME NEW f \in Remaining(problem, placed, d), NEW j \in 1 .. N,
                          FirstCopy(problem, d, f, j),
                          Mine(problem, worker, d, f[j].r),
                          Passed(problem, worker, d, stack[d], f[j])
                   PROVE  PartCount(problem, f) <= overall'
        BY DEF ExploredAt
      <4>1. CASE stack[d].active /\ f[j] = ChosenOf(stack[d])
        <5>1. PICK p \in placed : p.part = d /\ PlaceOf(p) = ChosenOf(stack[d])
          BY <3>3, <4>1 DEF ScannedAt
        <5>2. /\ Swapped(problem, f, d, j) \in Remaining(problem, placed, d + 1)
              /\ PartCount(problem, Swapped(problem, f, d, j)) = PartCount(problem, f)
          BY <1>1, <1>4, <3>1, <4>1, <5>1, SwapRemaining
        <5> QED
          BY <3>2, <5>2
      <4>2. CASE ~(stack[d].active /\ f[j] = ChosenOf(stack[d]))
        BY <2>1, <4>2 DEF ExploredAt
      <4> QED
        BY <4>1, <4>2
    <3> QED
      BY <2>3, <3>1, <3>4, <3>5 DEF ExploredAt
  <2> QED
    BY <2>2, <2>3
<1>8. ExploredInv'
  BY <1>2, <1>3, <1>7 DEF ExploredInv
<1> QED
  BY <1>5, <1>8

\* A frame that has left its sheets has explored the layouts with a copy.
LEMMA OffSheetsExplored ==
  ASSUME SearchInv, ExploredInv, OffSheets,
         NEW f \in Remaining(problem, placed, Depth),
         Depth = 1 => Owns(problem, worker, f),
         Copied(problem, Depth, f) # {}
  PROVE  PartCount(problem, f) <= overall
<1> DEFINE N == Len(problem.parts)
<1>1. /\ N \in Nat /\ Depth \in 1 .. N /\ Depth \in 1 .. Len(stack)
      /\ Top = stack[Depth] /\ Depth = Len(stack) /\ InputInv
  <2>1. Depth \in 1 .. N + 1 /\ N \in Nat /\ InputInv
    BY TopFacts, InputFacts DEF SearchInv, OffSheets, Ready
  <2>2. ~(Depth > N)
    BY DEF OffSheets, Bounded, Parts
  <2> QED
    BY <2>1, <2>2 DEF Depth, Top
<1>2. f \in LayoutsOf(problem)
  BY DEF Remaining
<1>3. ExploredAt(problem, worker, placed, Depth, Top, FALSE, overall)
  <2>1. ExploredAt(problem, worker, placed, Depth, Top, Depth < Len(stack), overall)
    BY <1>1 DEF ExploredInv
  <2>2. ~(Depth < Len(stack))
    BY <1>1
  <2> QED
    BY <2>1, <2>2 DEF ExploredAt
<1>4. PICK j \in 1 .. N : FirstCopy(problem, Depth, f, j) /\ Mine(problem, worker, Depth, f[j].r)
  <2>1. CASE Depth = 1
    BY <2>1 DEF Owns
  <2>2. CASE Depth # 1
    <3>1. PICK j \in Depth .. N : FirstCopy(problem, Depth, f, j)
      BY <1>1, <1>2, FirstCopyExists
    <3>2. j \in 1 .. N /\ f[j] # Nowhere /\ problem.parts[j] = problem.parts[Depth]
      BY <1>1, <3>1 DEF FirstCopy, Copied
    <3>3. f[j].r \in Nat /\ f[j].r < Len(problem.parts[Depth])
      BY <1>2, <3>2, LayoutFacts
    <3>4. Mine(problem, worker, Depth, f[j].r)
      BY <2>2, <3>3 DEF Mine, FirstOf, EndOf
    <3> QED
      BY <3>1, <3>2, <3>4
  <2> QED
    BY <2>1, <2>2
<1>5. f[j].sheet \in 1 .. Len(problem.sheets)
  BY <1>2, <1>4, LayoutFacts DEF FirstCopy, Copied
<1>6. Top.sheet > Len(problem.sheets) /\ Top.sheet \in Nat /\ Len(problem.sheets) \in Nat
  BY <1>1, TopFacts, InputFacts DEF OffSheets, Ready, Sheets, Frames
<1>7. Passed(problem, worker, Depth, Top, f[j])
  BY <1>5, <1>6 DEF Passed
<1> QED
  BY <1>3, <1>4, <1>7 DEF ExploredAt

\* Cut: no layout that is left has more parts than the record.
LEMMA CutExplored ==
  ASSUME SearchInv, ScannedInv, Cut, NEW f \in Remaining(problem, placed, Depth)
  PROVE  PartCount(problem, f) <= overall'
<1> DEFINE N == Len(problem.parts)
           c == Cardinality(placed)
<1>1. /\ N \in Nat /\ Depth \in 1 .. N + 1 /\ Depth \in Nat \ {0}
      /\ Top = stack[Depth] /\ Depth \in 1 .. Len(stack) /\ InputInv
      /\ Sound(problem, placed) /\ Ready
  BY TopFacts, InputFacts DEF SearchInv, PathInv, Cut, Ready, Depth, Top
<1>2. /\ best \in Nat /\ overall \in Nat /\ overall' \in Nat /\ c \in Nat
      /\ best <= overall /\ overall <= overall' /\ c <= overall'
  <2>1. best \in Nat /\ c \in Nat
    BY <1>1, SoundCount DEF SearchInv, ResultInv
  <2>2. best <= overall
    BY DEF ScannedInv
  <2>3. /\ overall \in Nat /\ overall' \in Nat /\ overall <= overall' /\ c <= overall'
    BY <1>1, PublishGrows DEF Cut
  <2> QED
    BY <2>1, <2>2, <2>3
<1>3. \A p \in placed : p.part < Depth
  BY <1>1, PlacedBelow
<1> HIDE DEF c
<1>4. ASSUME NEW A, IsFiniteSet(A),
             \A k \in Depth .. N : f[k] # Nowhere => k \in A,
             c + Cardinality(A) <= overall'
      PROVE  PartCount(problem, f) <= overall'
  <2>1. /\ Cardinality(A) \in Nat /\ PartCount(problem, f) \in Nat
        /\ PartCount(problem, f) <= Cardinality(placed) + Cardinality(A)
    BY <1>1, <1>3, <1>4, RemainingCount
  <2> QED
    BY <1>2, <1>4, <2>1 DEF c
<1>5. CASE Bounded
  <2> DEFINE A == Depth .. N
  <2>1. Depth \in Int /\ N \in Int
    BY <1>1
  <2>2. /\ IsFiniteSet(A)
        /\ Cardinality(A) = IF Depth > N THEN 0 ELSE N - Depth + 1
    BY <2>1, FS_Interval, Zenon
  <2>3. \A k \in Depth .. N : k \in A
    OBVIOUS
  <2> HIDE DEF A
  <2>4. c + Cardinality(A) <= overall'
    <3>1. Depth > N \/ c + (N + 1 - Depth) < best
      BY <1>5 DEF Bounded, Parts, c
    <3> QED
      BY <1>1, <1>2, <2>2, <3>1
  <2> QED
    BY <1>4, <2>2, <2>3, <2>4
<1>6. CASE ~Bounded
  <2> DEFINE A == Available
  <2>1. /\ ~Top.initialized
        /\ A = {} \/ c + Cardinality(A) < best
    BY <1>6 DEF Cut, Hopeless, c
  <2>2. ~Top.skipVisited
    BY <1>1, <2>1 DEF SearchInv, PathInv
  <2>3. \A k \in Depth .. N : f[k] # Nowhere => k \in A
    BY <1>1, <2>2, CopyNotExcluded DEF Available, Parts
  <2>4. IsFiniteSet(A)
    <3>1. Depth \in Int /\ N \in Int
      BY <1>1
    <3>2. IsFiniteSet(Depth .. N)
      BY <3>1, FS_Interval, Zenon
    <3>3. A \subseteq Depth .. N
      BY DEF Available, Parts
    <3> QED
      BY <3>2, <3>3, FS_Subset
  <2> HIDE DEF A
  <2>5. c + Cardinality(A) <= overall'
    <3>1. CASE A = {}
      <4>1. Cardinality(A) = 0
        BY <3>1, FS_EmptySet
      <4> QED
        BY <1>2, <4>1
    <3>2. CASE c + Cardinality(A) < best
      <4>1. Cardinality(A) \in Nat
        BY <2>4, FS_CardinalityType
      <4> QED
        BY <1>2, <3>2, <4>1
    <3> QED
      BY <2>1, <3>1, <3>2
  <2> QED
    BY <1>4, <2>3, <2>4, <2>5
<1> QED
  BY <1>5, <1>6

\* SkipNotOwned: the layouts without the first part belong to worker 0.
LEMMA NotOwnedExplored ==
  ASSUME SearchInv, ExploredInv, SkipNotOwned,
         NEW f \in Remaining(problem, placed, Depth), Owns(problem, worker, f)
  PROVE  PartCount(problem, f) <= overall
<1>1. OffSheets /\ Depth = 1 /\ RootFirst # 0
  BY DEF SkipNotOwned
<1>2. FirstOf(problem, worker, 1) = RootFirst
  BY DEF FirstOf, WorkersOf, RootFirst, Workers, Parts
<1>3. Copied(problem, 1, f) # {}
  BY <1>1, <1>2 DEF Owns, FirstCopy
<1> QED
  BY <1>1, <1>3, OffSheetsExplored

\* Leave: the skip branch has explored the layouts without a copy.
LEMMA LeaveExplored ==
  ASSUME SearchInv, ExploredInv, Leave,
         NEW f \in Remaining(problem, placed, Depth),
         Depth = 1 => Owns(problem, worker, f)
  PROVE  PartCount(problem, f) <= overall
<1>1. OffSheets /\ Top.skipVisited /\ Ready
  BY DEF Leave, SkipOwned, OffSheets
<1>2. CASE Copied(problem, Depth, f) # {}
  BY <1>1, <1>2, OffSheetsExplored
<1>3. CASE Copied(problem, Depth, f) = {}
  <2>1. /\ Depth \in 1 .. Len(stack) /\ Depth = Len(stack) /\ Top = stack[Depth]
        /\ Depth <= Len(problem.parts)
    <3>1. /\ Depth \in 1 .. Len(stack) /\ Depth = Len(stack) /\ Top = stack[Depth]
      BY <1>1, TopFacts DEF Ready, Depth, Top
    <3> QED
      BY <1>1, <3>1 DEF SearchInv, PathInv
  <2>2. SkippedAt(problem, placed, Depth, Top, overall)
    BY <2>1 DEF ExploredInv
  <2> QED
    BY <1>1, <1>3, <2>2 DEF SkippedAt
<1> QED
  BY <1>2, <1>3

\* A frame is popped when its layouts have been explored.
LEMMA LeavesExplore ==
  ASSUME SearchInv, ScannedInv, ExploredInv, Cut \/ SkipNotOwned \/ Leave
  PROVE  /\ ExploredInv'
         /\ stack' = <<>> => \A f \in LayoutsOf(problem) :
              Owns(problem, worker, f) => PartCount(problem, f) <= overall'
<1>1. Ready /\ stack' = Pop /\ UNCHANGED <<problem, worker, placed>>
  BY DEF Cut, SkipNotOwned, Leave, SkipOwned, OffSheets, input, tree
<1>2. overall \in Nat /\ overall' \in Nat /\ overall <= overall'
  <2>1. CASE Cut
    BY <2>1, PublishGrows DEF Cut, SearchInv, PathInv
  <2>2. CASE SkipNotOwned \/ Leave
    <3>1. overall' = overall
      BY <2>2 DEF SkipNotOwned, Leave, result
    <3>2. overall \in Nat
      BY InputFacts DEF SearchInv, ResultInv
    <3> QED
      BY <3>1, <3>2
  <2> QED
    BY <2>1, <2>2
<1>3. ASSUME NEW f \in Remaining(problem, placed, Depth),
             Depth = 1 => Owns(problem, worker, f)
      PROVE  PartCount(problem, f) <= overall'
  <2>1. CASE Cut
    BY <2>1, CutExplored
  <2>2. CASE SkipNotOwned
    <3>1. overall' = overall /\ Depth = 1
      BY <2>2 DEF SkipNotOwned, result
    <3> QED
      BY <1>3, <2>2, <3>1, NotOwnedExplored
  <2>3. CASE Leave
    <3>1. overall' = overall
      BY <2>3 DEF Leave, result
    <3> QED
      BY <1>3, <2>3, <3>1, LeaveExplored
  <2> QED
    BY <2>1, <2>2, <2>3
<1> QED
  BY <1>1, <1>2, <1>3, PopExplores

\* The frames explore their trees.
LEMMA StepExploredInv ==
  ASSUME SearchInv, TreeInv, ScannedInv, ExploredInv, [SearchNext]_searchVars,
         flow \in {"automatic", "left"}
  PROVE  ExploredInv'
<1>1. CASE Backtrack
  BY <1>1, BacktrackExplores
<1>2. CASE Cut \/ SkipNotOwned \/ Leave
  BY <1>2, LeavesExplore
<1>3. CASE Begin
  BY <1>3, BeginExplores
<1>4. CASE Skip
  BY <1>4, SkipExplores
<1>5. CASE NextSheet
  BY <1>5, NextSheetExplores
<1>6. CASE Filter
  <2> DEFINE flags == [i \in 1 .. Batch |-> Flag(Top.sheet, Top.next + i - 1)]
  <2>1. Filtering /\ stack' = SetTop(Filtered(flags))
        /\ UNCHANGED <<problem, worker, placed, overall>>
    BY <1>6 DEF Filter, input, tree, result
  <2>2. flags \in Seq(BOOLEAN) /\ Len(flags) = Batch
    <3>1. Batch \in Nat
      BY <2>1, BatchFacts
    <3>2. \A i \in 1 .. Batch : Flag(Top.sheet, Top.next + i - 1) \in BOOLEAN
      BY DEF Flag, MaskFits
    <3>3. flags \in Seq(BOOLEAN)
      BY <3>1, <3>2
    <3>4. Len(flags) = Batch
      BY <3>1
    <3> QED
      BY <3>3, <3>4
  <2> HIDE DEF flags
  <2> QED
    BY <2>1, <2>2, BatchExplores
<1>7. CASE FilterOnDevice
  <2>1. PICK bits \in DeviceBits : stack' = SetTop(Filtered(
          [i \in 1 .. Batch |-> DeviceFlag(bits, Top.sheet, Top.next + i - 1)]))
    BY <1>7 DEF FilterOnDevice
  <2> DEFINE flags == [i \in 1 .. Batch |-> DeviceFlag(bits, Top.sheet, Top.next + i - 1)]
  <2>2. Filtering /\ stack' = SetTop(Filtered(flags))
        /\ UNCHANGED <<problem, worker, placed, overall>>
    BY <1>7, <2>1 DEF FilterOnDevice, input, result
  <2>3. flags \in Seq(BOOLEAN) /\ Len(flags) = Batch
    <3>1. Batch \in Nat
      BY <2>2, BatchFacts
    <3>2. \A i \in 1 .. Batch : DeviceFlag(bits, Top.sheet, Top.next + i - 1) \in BOOLEAN
      BY DEF DeviceFlag, MaskFits
    <3>3. flags \in Seq(BOOLEAN)
      BY <3>1, <3>2
    <3>4. Len(flags) = Batch
      BY <3>1
    <3> QED
      BY <3>3, <3>4
  <2> HIDE DEF flags
  <2> QED
    BY <2>2, <2>3, BatchExplores
<1>8. CASE NoHit
  BY <1>8, NoHitExplores
<1>9. CASE RejectHit
  BY <1>9, RejectHitExplores
<1>10. CASE Commit
  BY <1>10, CommitExplores
<1>11. CASE NextWorker
  BY <1>11, NextWorkerExplores
<1>12. CASE AllExhausted \/ DeviceFails \/ Throw \/ Expire \/ UNCHANGED searchVars
  <2>1. UNCHANGED <<problem, worker, stack, placed, overall>>
    BY <1>12 DEF AllExhausted, DeviceFails, Throw, Expire, searchVars, input, tree, result
  <2> QED
    BY <2>1, StackKeepsExplored
<1> QED
  BY <1>1, <1>2, <1>3, <1>4, <1>5, <1>6, <1>7, <1>8, <1>9, <1>10, <1>11, <1>12
     DEF SearchNext, Step

-----------------------------------------------------------------------------
(* How far the frames are.                                                 *)

\* A fresh frame is at its beginning.
LEMMA FreshScanned ==
  ASSUME NEW pr, NEW P, NEW d
  PROVE  ScannedAt(pr, P, d, Frame)
<1>1. /\ Frame.sheet = 1 /\ Frame.next = 0 /\ Frame.flags = <<>> /\ Frame.cursor = 0
      /\ ~Frame.active
  BY DEF Frame
<1> QED
  BY <1>1 DEF ScannedAt

\* A frame stays where it is while its placement stays.
LEMMA ScannedKept ==
  ASSUME NEW pr, NEW P, NEW Q, NEW d, NEW F, ScannedAt(pr, P, d, F),
         \A p \in P : p.part = d => p \in Q
  PROVE  ScannedAt(pr, Q, d, F)
BY DEF ScannedAt

\* A step that moves the top frame on.
LEMMA TopMovesScanned ==
  ASSUME SearchInv, ScannedInv, Searching, NEW F \in Frames, stack' = SetTop(F),
         ScannedAt(problem, placed, Depth, F),
         UNCHANGED <<problem, placed, best, overall>>
  PROVE  ScannedInv'
<1>1. /\ stack \in Seq(Frames) /\ Depth \in Nat \ {0} /\ Depth = Len(stack)
      /\ stack' = [stack EXCEPT ![Len(stack)] = F] /\ Len(stack) # 0
  BY TopFacts, InputFacts DEF SetTop, Depth, SearchInv
<1>2. /\ Len(stack') = Depth /\ stack'[Depth] = F
      /\ \A d \in 1 .. Depth - 1 : stack'[d] = stack[d]
  BY <1>1, SetTopFacts
<1>3. ASSUME NEW d \in 1 .. Depth PROVE ScannedAt(problem, placed, d, stack'[d])
  <2>1. CASE d = Depth
    BY <1>2, <2>1
  <2>2. CASE d # Depth
    <3>1. d \in 1 .. Depth - 1 /\ d \in 1 .. Len(stack)
      BY <1>1, <2>2
    <3> QED
      BY <1>2, <3>1 DEF ScannedInv
  <2> QED
    BY <2>1, <2>2
<1> QED
  BY <1>2, <1>3 DEF ScannedInv

\* Steps of a frame that has placed nothing: it begins, goes to the next sheet,
\* filters a batch or moves its cursor.
LEMMA TopStepScanned ==
  ASSUME SearchInv, ScannedInv,
         Begin \/ NextSheet \/ Filter \/ FilterOnDevice \/ NoHit \/ RejectHit
  PROVE  ScannedInv'
<1>1. /\ Searching /\ Ready /\ ~Top.active
      /\ UNCHANGED <<problem, placed, best, overall>>
  BY DEF Begin, NextSheet, Filter, FilterOnDevice, NoHit, RejectHit, Filtering, OnSheet,
         Ready, input, tree, result
<1>2. ScannedAt(problem, placed, Depth, Top)
  BY <1>1, TopScanned
<1>3. CASE Begin
  <2>1. PICK F \in Frames :
          /\ stack' = SetTop(F)
          /\ F.active = Top.active /\ F.flags = Top.flags
          /\ F.initialized /\ F.cursor = Top.cursor
    BY <1>3, BeginFrame
  <2>2. Top.flags = <<>>
    BY <1>3, BeginFrame
  <2>3. ScannedAt(problem, placed, Depth, F)
    BY <1>1, <1>2, <2>1, <2>2 DEF ScannedAt
  <2> QED
    BY <1>1, <2>1, <2>3, TopMovesScanned
<1>4. CASE NextSheet
  <2>1. PICK F \in Frames :
          /\ stack' = SetTop(F)
          /\ F.active = Top.active /\ F.flags = <<>> /\ F.initialized = Top.initialized
          /\ F.cursor = 0
    BY <1>4, NextSheetFrame
  <2>2. Top.initialized
    BY <1>4 DEF NextSheet, OnSheet
  <2>3. ScannedAt(problem, placed, Depth, F)
    BY <1>1, <2>1, <2>2 DEF ScannedAt
  <2> QED
    BY <1>1, <2>1, <2>3, TopMovesScanned
<1>5. ASSUME Filtering, NEW flags \in Seq(BOOLEAN), Len(flags) = Batch,
             stack' = SetTop(Filtered(flags))
      PROVE  ScannedInv'
  <2>1. PICK F \in Frames :
          /\ F = Filtered(flags)
          /\ F.active = Top.active /\ F.initialized = Top.initialized
          /\ F.flags = flags /\ F.first = Top.next
          /\ F.next = Top.next + Batch /\ F.cursor = 0
    BY <1>5, FilteredFacts
  <2>2. Top.initialized /\ Batch \in Nat /\ 0 <= Batch
    BY <1>5, BatchFacts DEF Filtering, OnSheet
  <2>3. F.cursor <= Len(F.flags) /\ F.next = F.first + Len(F.flags)
    BY <1>5, <2>1, <2>2
  <2>4. ScannedAt(problem, placed, Depth, F)
    BY <1>1, <2>1, <2>2, <2>3 DEF ScannedAt
  <2> QED
    BY <1>1, <1>5, <2>1, <2>4, TopMovesScanned
<1>6. CASE Filter
  <2> DEFINE flags == [i \in 1 .. Batch |-> Flag(Top.sheet, Top.next + i - 1)]
  <2>1. Filtering /\ stack' = SetTop(Filtered(flags))
    BY <1>6 DEF Filter
  <2>2. Batch \in Nat
    BY <2>1, BatchFacts
  <2>3. \A i \in 1 .. Batch : Flag(Top.sheet, Top.next + i - 1) \in BOOLEAN
    BY DEF Flag, MaskFits
  <2>4. flags \in Seq(BOOLEAN)
    BY <2>2, <2>3
  <2>5. Len(flags) = Batch
    BY <2>2
  <2> HIDE DEF flags
  <2> QED
    BY <1>5, <2>1, <2>4, <2>5
<1>7. CASE FilterOnDevice
  <2>1. PICK bits \in DeviceBits : stack' = SetTop(Filtered(
          [i \in 1 .. Batch |-> DeviceFlag(bits, Top.sheet, Top.next + i - 1)]))
    BY <1>7 DEF FilterOnDevice
  <2> DEFINE flags == [i \in 1 .. Batch |-> DeviceFlag(bits, Top.sheet, Top.next + i - 1)]
  <2>2. Filtering /\ stack' = SetTop(Filtered(flags))
    BY <1>7, <2>1 DEF FilterOnDevice
  <2>3. Batch \in Nat
    BY <2>2, BatchFacts
  <2>4. \A i \in 1 .. Batch : DeviceFlag(bits, Top.sheet, Top.next + i - 1) \in BOOLEAN
    BY DEF DeviceFlag, MaskFits
  <2>5. flags \in Seq(BOOLEAN)
    BY <2>3, <2>4
  <2>6. Len(flags) = Batch
    BY <2>3
  <2> HIDE DEF flags
  <2> QED
    BY <1>5, <2>2, <2>5, <2>6
<1>8. ASSUME OnSheet, Top.flags # <<>>, NEW c \in 0 .. Len(Top.flags),
             stack' = SetTop([Top EXCEPT !.cursor = c])
      PROVE  ScannedInv'
  <2>1. c \in Nat /\ c <= Len(Top.flags)
    BY <1>1, TopFacts DEF Frames
  <2>2. PICK F \in Frames :
          /\ stack' = SetTop(F)
          /\ F.active = Top.active /\ F.flags = Top.flags /\ F.initialized = Top.initialized
          /\ F.first = Top.first /\ F.next = Top.next /\ F.cursor = c
    BY <1>8, <2>1, CursorFrame
  <2>3. Top.initialized
    BY <1>8 DEF OnSheet
  <2>4. ScannedAt(problem, placed, Depth, F)
    BY <1>1, <1>2, <1>8, <2>1, <2>2, <2>3 DEF ScannedAt
  <2> QED
    BY <1>1, <2>2, <2>4, TopMovesScanned
<1>9. CASE NoHit
  <2>1. /\ OnSheet /\ ~AllScanned
        /\ stack' = SetTop([Top EXCEPT !.cursor = Len(Top.flags)])
    BY <1>9 DEF NoHit
  <2>2. Len(Top.flags) \in 0 .. Len(Top.flags)
    BY <1>1, TopFacts DEF Frames
  <2>3. Top.flags # <<>>
    BY <1>2, <2>1 DEF ScannedAt, AllScanned
  <2> QED
    BY <1>8, <2>1, <2>2, <2>3
<1>10. CASE RejectHit
  <2>1. /\ OnSheet /\ Hits # {}
        /\ stack' = SetTop([Top EXCEPT !.cursor = Min(Hits)])
    BY <1>10 DEF RejectHit
  <2>2. Min(Hits) \in 1 .. Len(Top.flags)
    BY <2>1, HitFacts
  <2>3. Min(Hits) \in 0 .. Len(Top.flags) /\ Top.flags # <<>>
    BY <1>1, <2>2, TopFacts DEF Frames
  <2> QED
    BY <1>8, <2>1, <2>3
<1> QED
  BY <1>3, <1>4, <1>6, <1>7, <1>9, <1>10

\* The index of a committed frame counts all angles of the policy: it is the
\* candidate's number among those of a copy.
LEMMA HitIndex ==
  ASSUME SearchInv, OnSheet, Hits # {}, flow \in {"automatic", "left"}
  PROVE  [x |-> HitPlacement.x, y |-> HitPlacement.y, r |-> HitMask] =
           GridCandidate(problem, Depth, Top.sheet, 0, Len(problem.parts[Depth]),
             (Hit \div MaskCount) * Len(Parts[Depth]) + HitMask)
<1> DEFINE cell == Hit \div MaskCount
           u == Hit % MaskCount
           L == Len(problem.parts[Depth])
           i == cell * L + HitMask
           h == RowsOf(problem, Depth, Top.sheet)
<1>1. /\ Depth \in 1 .. Len(problem.parts) /\ InputInv
  BY OnSheetFacts DEF SearchInv
<1>2. /\ FirstMask \in Nat /\ MaskCount \in Nat \ {0} /\ L \in Nat \ {0}
      /\ FirstMask + MaskCount <= L
  BY <1>1, ShareIs, PolicyFacts
<1>3. Hit \in Nat /\ HitMask \in Nat /\ HitMask = FirstMask + u
  BY HitFacts DEF HitMask
<1>4. cell \in Nat /\ u \in 0 .. MaskCount - 1
  BY <1>2, <1>3
<1>5. HitMask \in 0 .. L - 1
  BY <1>2, <1>3, <1>4
<1>6. /\ HitPlacement.x = (cell \div h) * problem.step + EdgeOf(problem)
      /\ HitPlacement.y = (cell % h) * problem.step + EdgeOf(problem)
  BY DEF HitPlacement, Decode, Lattice, Rows, Edge
<1> HIDE DEF cell, u, L, h
<1>7. i \div L = cell /\ i % L = HitMask
  BY <1>2, <1>4, <1>5, DivisionBack
<1> HIDE DEF i
<1>8. 0 + (i % L) = HitMask
  BY <1>3, <1>7
<1>9. GridCandidate(problem, Depth, Top.sheet, 0, L, i) =
        [r |-> HitMask, x |-> HitPlacement.x, y |-> HitPlacement.y]
  BY <1>6, <1>7, <1>8 DEF GridCandidate, h
<1>10. i = (Hit \div MaskCount) * Len(Parts[Depth]) + HitMask
  BY DEF i, cell, L, Parts
<1> QED
  BY <1>9, <1>10 DEF L

\* Commit: the frame is at the hit, where its part is.
LEMMA CommitScanned ==
  ASSUME SearchInv, ScannedInv, Commit, flow \in {"automatic", "left"}
  PROVE  ScannedInv'
<1> DEFINE h == HitPlacement
           N == Len(problem.parts)
           F == stack'[Depth]
           i == (Hit \div MaskCount) * Len(Parts[Depth]) + HitMask
<1>1. /\ OnSheet /\ Searching /\ Ready /\ Hits # {} /\ ExactlyFits(h)
      /\ placed' = placed \cup {h} /\ Publish(placed \cup {h})
      /\ problem' = problem
  BY DEF Commit, OnSheet, Ready, input
<1>2. h.part = Depth /\ Sound(problem, placed \cup {h})
  BY <1>1, HitSound
<1>3. best' <= overall'
  BY <1>1, <1>2, PublishGrows
<1>4. /\ Depth \in 1 .. N /\ N \in Nat /\ Depth = Len(stack) /\ Depth \in Nat
      /\ Top.sheet \in 1 .. Len(problem.sheets) /\ Len(problem.sheets) \in Nat
  BY <1>1, OnSheetFacts, InputFacts DEF SearchInv, Depth
<1>5. ScannedAt(problem, placed, Depth, Top)
  BY <1>1, TopScanned
<1>6. /\ Len(stack') = Depth + 1
      /\ \A d \in 1 .. Depth - 1 : stack'[d] = stack[d]
      /\ stack'[Depth + 1] = Frame
      /\ F.active /\ F.initialized = Top.initialized
      /\ F.sheet = Top.sheet /\ F.flags = Top.flags
      /\ F.first = Top.first /\ F.next = Top.next /\ F.cursor = Min(Hits)
      /\ F.chosen = [x |-> h.x, y |-> h.y, r |-> HitMask]
      /\ F.index = i
  BY CommitStack
<1>7. /\ Min(Hits) \in 1 .. Len(Top.flags) /\ Rows(Top.sheet) > 0
      /\ Top.flags # <<>> /\ Len(Top.flags) \in Nat
  <2>1. Min(Hits) \in 1 .. Len(Top.flags) /\ Rows(Top.sheet) > 0
    BY <1>1, HitFacts
  <2>2. Len(Top.flags) \in Nat
    BY <1>1, TopFacts DEF Frames
  <2> QED
    BY <2>1, <2>2
<1>8. h.sheet = Top.sheet /\ h.r = HitMask
  BY <1>1, HitSpot
<1>9. [x |-> h.x, y |-> h.y, r |-> HitMask] =
        GridCandidate(problem, Depth, Top.sheet, 0, Len(problem.parts[Depth]), i)
  BY <1>1, HitIndex
<1> HIDE DEF h, F, i
<1>10. ScannedAt(problem, placed', Depth, F)
  <2>1. F.cursor <= Len(F.flags) /\ F.next = F.first + Len(F.flags) /\ F.flags # <<>>
    BY <1>5, <1>6, <1>7 DEF ScannedAt
  <2>2. F.initialized
    BY <1>1, <1>6 DEF OnSheet
  <2>3. RowsOf(problem, Depth, F.sheet) > 0
    BY <1>6, <1>7 DEF Rows
  <2>4. h \in placed' /\ PlaceOf(h) = ChosenOf(F)
    BY <1>1, <1>6, <1>8 DEF PlaceOf, ChosenOf
  <2>5. F.chosen = GridCandidate(problem, Depth, F.sheet, 0, Len(problem.parts[Depth]), F.index)
    BY <1>6, <1>9
  <2>6. Depth <= N /\ F.sheet <= Len(problem.sheets)
    BY <1>4, <1>6
  <2> QED
    BY <1>2, <2>1, <2>2, <2>3, <2>4, <2>5, <2>6 DEF ScannedAt
<1> SUFFICES ASSUME NEW d \in 1 .. Depth + 1
             PROVE  ScannedAt(problem, placed', d, stack'[d])
  BY <1>1, <1>3, <1>6 DEF ScannedInv
<1>11. CASE d \in 1 .. Depth - 1
  <2>1. d \in 1 .. Len(stack) /\ stack'[d] = stack[d]
    BY <1>4, <1>6, <1>11
  <2>2. ScannedAt(problem, placed, d, stack[d])
    BY <2>1 DEF ScannedInv
  <2>3. \A p \in placed : p \in placed'
    BY <1>1
  <2> QED
    BY <2>1, <2>2, <2>3, ScannedKept
<1>12. CASE d = Depth
  BY <1>10, <1>12 DEF F
<1>13. CASE d = Depth + 1
  BY <1>6, <1>13, FreshScanned
<1> QED
  BY <1>4, <1>11, <1>12, <1>13

\* Skip: the frame stays where it is.
LEMMA SkipScanned ==
  ASSUME SearchInv, ScannedInv, Skip
  PROVE  ScannedInv'
<1> DEFINE F == stack'[Depth]
<1>1. /\ Searching /\ UNCHANGED <<problem, placed, best, overall>>
  BY DEF Skip, SkipOwned, OffSheets, Ready, input, tree, result
<1>2. Depth \in Nat \ {0} /\ Depth = Len(stack)
  BY <1>1, TopFacts, InputFacts DEF SearchInv, Depth
<1>3. ScannedAt(problem, placed, Depth, Top)
  BY <1>1, TopScanned
<1>4. /\ Len(stack') = Depth + 1
      /\ \A d \in 1 .. Depth - 1 : stack'[d] = stack[d]
      /\ stack'[Depth + 1] = Frame
      /\ F.active = Top.active /\ F.initialized = Top.initialized
      /\ F.sheet = Top.sheet /\ F.flags = Top.flags
      /\ F.first = Top.first /\ F.next = Top.next /\ F.cursor = Top.cursor
  BY SkipStack
<1>5. ~Top.active
  BY DEF Skip, SkipOwned, OffSheets, Ready
<1> HIDE DEF F
<1>6. ScannedAt(problem, placed, Depth, F)
  BY <1>3, <1>4, <1>5 DEF ScannedAt
<1>7. ASSUME NEW d \in 1 .. Depth + 1 PROVE ScannedAt(problem, placed, d, stack'[d])
  <2>1. CASE d \in 1 .. Depth - 1
    <3>1. d \in 1 .. Len(stack) /\ stack'[d] = stack[d]
      BY <1>2, <1>4, <2>1
    <3> QED
      BY <3>1 DEF ScannedInv
  <2>2. CASE d = Depth
    BY <1>6, <2>2 DEF F
  <2>3. CASE d = Depth + 1
    BY <1>4, <2>3, FreshScanned
  <2> QED
    BY <1>2, <2>1, <2>2, <2>3
<1> QED
  BY <1>1, <1>4, <1>7 DEF ScannedInv

\* Backtrack: only the top frame's part is taken back.
LEMMA BacktrackScanned ==
  ASSUME SearchInv, ScannedInv, Backtrack
  PROVE  ScannedInv'
<1> DEFINE F == stack'[Depth]
<1>1. /\ Searching /\ UNCHANGED <<problem, best, overall>>
  BY DEF Backtrack, input, result
<1>2. Depth \in Nat \ {0} /\ Depth = Len(stack)
  BY <1>1, TopFacts, InputFacts DEF SearchInv, Depth
<1>3. ScannedAt(problem, placed, Depth, Top)
  BY <1>1, TopScanned
<1>4. /\ Len(stack') = Depth
      /\ \A d \in 1 .. Depth - 1 : stack'[d] = stack[d]
      /\ F.initialized = Top.initialized
      /\ F.sheet = Top.sheet /\ F.flags = Top.flags
      /\ F.first = Top.first /\ F.next = Top.next /\ F.cursor = Top.cursor
      /\ ~F.active
  BY BacktrackStack
<1>5. PICK q \in placed : q.part = Depth /\ placed' = placed \ {q}
  BY BacktrackStep
<1> HIDE DEF F
<1>6. ScannedAt(problem, placed', Depth, F)
  BY <1>3, <1>4 DEF ScannedAt
<1>7. ASSUME NEW d \in 1 .. Depth PROVE ScannedAt(problem, placed', d, stack'[d])
  <2>1. CASE d \in 1 .. Depth - 1
    <3>1. d \in 1 .. Len(stack) /\ stack'[d] = stack[d] /\ d # Depth
      BY <1>2, <1>4, <2>1
    <3>2. \A p \in placed : p.part = d => p \in placed'
      BY <1>5, <3>1
    <3>3. ScannedAt(problem, placed, d, stack[d])
      BY <3>1 DEF ScannedInv
    <3> QED
      BY <3>1, <3>2, <3>3, ScannedKept
  <2>2. CASE d = Depth
    BY <1>6, <2>2 DEF F
  <2> QED
    BY <1>2, <2>1, <2>2
<1> QED
  BY <1>1, <1>4, <1>7 DEF ScannedInv

\* The frames stay where they are when one is popped.
LEMMA LeavesScanned ==
  ASSUME SearchInv, ScannedInv, Cut \/ SkipNotOwned \/ Leave
  PROVE  ScannedInv'
<1>1. Ready /\ stack' = Pop /\ UNCHANGED <<problem, placed>>
  BY DEF Cut, SkipNotOwned, Leave, SkipOwned, OffSheets, input, tree
<1>2. best' <= overall'
  <2>1. CASE Cut
    BY <2>1, PublishGrows DEF Cut, SearchInv, PathInv
  <2>2. CASE SkipNotOwned \/ Leave
    BY <2>2 DEF SkipNotOwned, Leave, result, ScannedInv
  <2> QED
    BY <2>1, <2>2
<1>3. /\ stack \in Seq(Frames) /\ stack # <<>> /\ Depth = Len(stack) /\ Depth \in Nat \ {0}
      /\ stack' = SubSeq(stack, 1, Len(stack) - 1)
  BY <1>1, TopFacts, InputFacts DEF SearchInv, Ready, Depth, Pop
<1>4. Len(stack') = Depth - 1 /\ \A d \in 1 .. Depth - 1 : stack'[d] = stack[d]
  BY <1>3, PopFacts
<1>5. \A d \in 1 .. Depth - 1 : d \in 1 .. Len(stack)
  BY <1>3
<1> QED
  BY <1>1, <1>2, <1>4, <1>5 DEF ScannedInv

\* Where the frames are is kept by every step.
LEMMA StepScannedInv ==
  ASSUME SearchInv, ScannedInv, [SearchNext]_searchVars, flow \in {"automatic", "left"}
  PROVE  ScannedInv'
<1>1. CASE Begin \/ NextSheet \/ Filter \/ FilterOnDevice \/ NoHit \/ RejectHit
  BY <1>1, TopStepScanned
<1>2. CASE Cut \/ SkipNotOwned \/ Leave
  BY <1>2, LeavesScanned
<1>3. CASE Backtrack
  BY <1>3, BacktrackScanned
<1>4. CASE Skip
  BY <1>4, SkipScanned
<1>5. CASE Commit
  BY <1>5, CommitScanned
<1>6. CASE NextWorker
  <2>1. stack' = <<Frame>> /\ best' = 0 /\ overall' = overall /\ overall \in Nat
    BY <1>6, InputFacts DEF NextWorker, SearchInv, ResultInv
  <2>2. \A d \in 1 .. Len(stack') : stack'[d] = Frame
    BY <2>1
  <2> QED
    BY <2>1, <2>2, FreshScanned DEF ScannedInv
<1>7. CASE AllExhausted \/ DeviceFails \/ Throw \/ Expire \/ UNCHANGED searchVars
  <2>1. UNCHANGED <<problem, stack, placed, best, overall>>
    BY <1>7 DEF AllExhausted, DeviceFails, Throw, Expire, searchVars, input, tree, result
  <2> QED
    BY <2>1 DEF ScannedInv
<1> QED
  BY <1>1, <1>2, <1>3, <1>4, <1>5, <1>6, <1>7 DEF SearchNext, Step

-----------------------------------------------------------------------------
(* What the workers have explored.                                         *)

\* The record never shrinks.
LEMMA RecordGrows ==
  ASSUME SearchInv, ScannedInv, [SearchNext]_searchVars
  PROVE  overall \in Nat /\ overall' \in Nat /\ overall <= overall'
<1>1. overall \in Nat
  BY InputFacts DEF SearchInv, ResultInv
<1>2. CASE Commit
  BY <1>2, HitSound, PublishGrows DEF Commit
<1>3. CASE Cut
  BY <1>3, PublishGrows DEF Cut, SearchInv, PathInv
<1>4. CASE ~Commit /\ ~Cut
  <2>1. overall' = overall
    BY <1>4 DEF SearchNext, Step, Backtrack, Begin, SkipNotOwned, Skip, Leave, NextSheet,
                Filter, FilterOnDevice, NoHit, RejectHit, NextWorker, AllExhausted,
                DeviceFails, Throw, Expire, searchVars, result
  <2> QED
    BY <1>1, <2>1
<1> QED
  BY <1>2, <1>3, <1>4

\* A step that pops no frame leaves one.
LEMMA FrameStays ==
  ASSUME SearchInv,
         \/ Backtrack \/ Begin \/ Skip \/ NextSheet \/ Filter \/ FilterOnDevice
         \/ NoHit \/ RejectHit \/ Commit
  PROVE  stack' # <<>>
<1>1. Searching
  BY DEF Backtrack, Begin, Skip, SkipOwned, OffSheets, NextSheet, Filter, FilterOnDevice,
         Filtering, NoHit, RejectHit, Commit, OnSheet, Ready
<1>2. /\ DOMAIN stack = 1 .. Depth /\ Depth \in Nat \ {0} /\ DOMAIN <<>> = {}
      /\ Len(<<>>) = 0
  BY <1>1, TopFacts, InputFacts DEF SearchInv
<1>3. CASE Commit
  <2>1. Len(stack') = Depth + 1
    BY <1>3, CommitStack
  <2> QED
    BY <1>2, <2>1
<1>4. CASE Skip
  <2>1. Len(stack') = Depth + 1
    BY <1>4, SkipStack
  <2> QED
    BY <1>2, <2>1
<1>5. ASSUME NEW F, stack' = SetTop(F) PROVE stack' # <<>>
  <2>1. DOMAIN stack' = 1 .. Depth
    BY <1>2, <1>5 DEF SetTop
  <2> QED
    BY <1>2, <2>1
<1> QED
  BY <1>3, <1>4, <1>5
     DEF Backtrack, Begin, NextSheet, Filter, FilterOnDevice, NoHit, RejectHit

\* The workers explore their trees.
LEMMA StepExhaustedInv ==
  ASSUME SearchInv, ScannedInv, ExploredInv, ExhaustedInv, [SearchNext]_searchVars
  PROVE  ExhaustedInv'
<1>1. /\ overall \in Nat /\ overall' \in Nat /\ overall <= overall'
      /\ Len(problem.parts) \in Nat /\ worker \in Nat
  BY RecordGrows, InputFacts, WorkerFacts DEF SearchInv, WorkerInv
<1>2. problem' = problem /\ Workers' = Workers
  BY DEF SearchNext, Step, Backtrack, Cut, Begin, SkipNotOwned, Skip, Leave, NextSheet,
         Filter, FilterOnDevice, NoHit, RejectHit, Commit, NextWorker, AllExhausted,
         DeviceFails, Throw, Expire, searchVars, input, Workers, Parts
<1>3. \A f \in LayoutsOf(problem), v \in 0 .. worker :
        (v < worker \/ stack = <<>>) /\ Owns(problem, v, f) =>
          PartCount(problem, f) <= overall'
  <2> SUFFICES ASSUME NEW f \in LayoutsOf(problem), NEW v \in 0 .. worker,
                      v < worker \/ stack = <<>>, Owns(problem, v, f)
               PROVE  PartCount(problem, f) <= overall'
    OBVIOUS
  <2>1. PartCount(problem, f) <= overall
    BY DEF ExhaustedInv
  <2> QED
    BY <1>1, <2>1, PartCountNat
<1>4. CASE \/ Backtrack \/ Begin \/ Skip \/ NextSheet \/ Filter \/ FilterOnDevice
           \/ NoHit \/ RejectHit \/ Commit
  <2>1. stack' # <<>>
    BY <1>4, FrameStays
  <2>2. worker' = worker /\ phase' = phase /\ phase = "searching"
    BY <1>4 DEF Backtrack, Begin, Skip, SkipOwned, OffSheets, NextSheet, Filter,
                FilterOnDevice, Filtering, NoHit, RejectHit, Commit, OnSheet, Ready, Searching
  <2> QED
    BY <1>2, <1>3, <2>1, <2>2 DEF ExhaustedInv
<1>5. CASE Cut \/ SkipNotOwned \/ Leave
  <2>1. worker' = worker /\ phase' = phase /\ phase = "searching"
    BY <1>5 DEF Cut, SkipNotOwned, Leave, SkipOwned, OffSheets, Ready, Searching
  <2>2. stack' = <<>> => \A f \in LayoutsOf(problem) :
          Owns(problem, worker, f) => PartCount(problem, f) <= overall'
    BY <1>5, LeavesExplore
  <2>3. \A v \in 0 .. worker : v < worker \/ v = worker
    BY <1>1
  <2>4. \A f \in LayoutsOf(problem), v \in 0 .. worker :
          (v < worker \/ stack' = <<>>) /\ Owns(problem, v, f) =>
            PartCount(problem, f) <= overall'
    BY <1>3, <2>2, <2>3
  <2> QED
    BY <1>2, <2>1, <2>4 DEF ExhaustedInv
<1>6. CASE NextWorker
  <2>1. /\ stack = <<>> /\ stack' = <<Frame>> /\ stack' # <<>> /\ worker' = worker + 1
        /\ phase' = phase /\ phase = "searching"
    BY <1>6 DEF NextWorker
  <2>2. \A v \in 0 .. worker + 1 : v < worker + 1 => v \in 0 .. worker
    BY <1>1
  <2> QED
    BY <1>2, <1>3, <2>1, <2>2 DEF ExhaustedInv
<1>7. CASE AllExhausted
  <2>1. /\ stack' = stack /\ stack = <<>> /\ worker' = worker /\ worker = Workers - 1
    BY <1>7 DEF AllExhausted
  <2> QED
    BY <1>2, <1>3, <2>1 DEF ExhaustedInv
<1>8. CASE Expire \/ Throw
  <2>1. /\ stack' = stack /\ worker' = worker
        /\ ~(phase' = "done" /\ exhausted')
    BY <1>8 DEF Expire, Throw
  <2> QED
    BY <1>2, <1>3, <2>1 DEF ExhaustedInv
<1>9. CASE DeviceFails \/ UNCHANGED searchVars
  <2>1. UNCHANGED <<stack, worker, phase, exhausted>>
    BY <1>9 DEF DeviceFails, searchVars
  <2> QED
    BY <1>2, <1>3, <2>1 DEF ExhaustedInv
<1> QED
  BY <1>4, <1>5, <1>6, <1>7, <1>8, <1>9 DEF SearchNext, Step

\* Every layout is some worker's: the root ranges cover the angles.
LEMMA SomeoneOwns ==
  ASSUME InputInv, NEW f \in LayoutsOf(problem)
  PROVE  \E v \in 0 .. Workers - 1 : Owns(problem, v, f)
<1> DEFINE L == Len(problem.parts[1])
           W == Workers
<1>1. /\ W \in Nat \ {0} /\ L \in Nat \ {0} /\ WorkersOf(problem) = W
      /\ 1 \in 1 .. Len(problem.parts) /\ Len(problem.parts) \in Nat
  <2>1. 1 \in 1 .. Len(problem.parts) /\ Len(problem.parts) \in Nat
    BY InputFacts
  <2>2. WorkersOf(problem) = W
    BY DEF WorkersOf, Workers, Parts
  <2> QED
    BY <2>1, <2>2, WorkerFacts, PolicyFacts
<1> HIDE DEF L, W
<1> DEFINE First1(v) == (L * v) \div W
<1>2. \A v \in Nat : First1(v) \in Nat
  <2> TAKE v \in Nat
  <2>1. L * v \in Nat
    BY <1>1
  <2> QED
    BY <1>1, <2>1, Quotient
<1>3. First1(0) = 0
  BY <1>1
<1>4. L <= First1(W)
  <2>1. L * W \in Nat /\ W * L = L * W
    BY <1>1
  <2> QED
    BY <1>1, <2>1, QuotientAtLeast
<1>5. \A v \in Nat : FirstOf(problem, v, 1) = First1(v) /\ EndOf(problem, v, 1) = First1(v + 1)
  BY <1>1 DEF FirstOf, EndOf, L
<1> HIDE DEF First1
<1>6. CASE Copied(problem, 1, f) = {}
  <2>1. 0 \in 0 .. W - 1 /\ FirstOf(problem, 0, 1) = 0
    BY <1>1, <1>3, <1>5
  <2> QED
    BY <1>6, <2>1 DEF Owns, W
<1>7. CASE Copied(problem, 1, f) # {}
  <2>1. PICK j \in 1 .. Len(problem.parts) : FirstCopy(problem, 1, f, j)
    BY <1>1, <1>7, FirstCopyExists
  <2>2. f[j] # Nowhere /\ problem.parts[j] = problem.parts[1]
    BY <2>1 DEF FirstCopy, Copied
  <2>3. f[j].r \in Nat /\ f[j].r < L
    BY <2>2, LayoutFacts DEF L
  <2> DEFINE r == f[j].r
             S == {v \in Nat : v <= W /\ r < First1(v)}
  <2>4. r \in Nat /\ r < L
    BY <2>3
  <2> HIDE DEF r
  <2>5. S \in SUBSET Nat /\ W \in S
    <3>1. W \in Nat /\ L \in Nat
      BY <1>1
    <3>2. First1(W) \in Nat
      BY <1>2, <3>1
    <3>3. r < First1(W) /\ W <= W
      BY <1>4, <2>4, <3>1, <3>2
    <3> QED
      BY <3>1, <3>3
  <2>6. PICK u \in S : \A m \in S : u <= m
    BY <2>5, LeastNatural
  <2>7. u \in Nat /\ u <= W /\ r < First1(u) /\ u # 0
    BY <1>3, <2>4, <2>6
  <2> DEFINE v == u - 1
  <2>8. v \in Nat /\ v \in 0 .. W - 1 /\ v + 1 = u /\ v < u
    BY <1>1, <2>7
  <2> HIDE DEF v
  <2>9. ~(r < First1(v))
    <3>1. ~(u <= v) /\ v <= W
      BY <1>1, <2>7, <2>8
    <3>2. v \notin S
      BY <2>6, <3>1
    <3> QED
      BY <2>8, <3>1, <3>2 DEF S
  <2>10. First1(v) <= r /\ r < First1(v + 1)
    <3>1. First1(v) \in Nat
      BY <1>2, <2>8
    <3> QED
      BY <2>4, <2>7, <2>8, <2>9, <3>1
  <2>11. Mine(problem, v, 1, f[j].r)
    BY <1>5, <2>8, <2>10 DEF Mine, r
  <2> QED
    BY <2>1, <2>8, <2>11 DEF Owns, W
<1> QED
  BY <1>6, <1>7

\* So when all workers are done, every layout has been explored.
LEMMA AllExplored ==
  ASSUME InputInv, ExhaustedInv, phase = "done", exhausted,
         NEW f \in LayoutsOf(problem)
  PROVE  PartCount(problem, f) <= overall
<1>1. PICK v \in 0 .. Workers - 1 : Owns(problem, v, f)
  BY SomeoneOwns
<1>2. stack = <<>> /\ worker = Workers - 1
  BY DEF ExhaustedInv
<1>3. v \in 0 .. worker
  BY <1>2
<1> QED
  BY <1>1, <1>2, <1>3 DEF ExhaustedInv

\* At the start nothing has been explored.
LEMMA InitCompleteInv == SearchInit => CompleteInv
<1> SUFFICES ASSUME SearchInit PROVE CompleteInv
  OBVIOUS
<1>1. /\ stack = <<Frame>> /\ stack # <<>> /\ Len(stack) = 1 /\ stack[1] = Frame
      /\ worker = 0 /\ best = 0 /\ overall = 0 /\ phase = "searching"
  BY DEF SearchInit
<1>2. \A d \in 1 .. Len(stack) : d \in Nat /\ stack[d] = Frame
  BY <1>1
<1>3. ExploredInv
  BY <1>2, FreshExplores DEF ExploredInv
<1>4. ScannedInv
  BY <1>1, <1>2, FreshScanned DEF ScannedInv
<1>5. ExhaustedInv
  <2>1. \A v \in 0 .. worker : ~(v < worker)
    BY <1>1
  <2> QED
    BY <1>1, <2>1 DEF ExhaustedInv
<1> QED
  BY <1>3, <1>4, <1>5 DEF CompleteInv

\* It stays so with every step, when sheets are filled from the left.
LEMMA StepCompleteInv ==
  ASSUME Flows \subseteq {"automatic", "left"}
  PROVE  SearchInv /\ TreeInv /\ CompleteInv /\ [SearchNext]_searchVars => CompleteInv'
<1> SUFFICES ASSUME SearchInv, TreeInv, CompleteInv, [SearchNext]_searchVars
             PROVE  CompleteInv'
  OBVIOUS
<1>1. flow \in {"automatic", "left"}
  BY DEF SearchInv, InputInv
<1>2. ExploredInv /\ ExhaustedInv /\ ScannedInv
  BY DEF CompleteInv
<1>3. ExploredInv'
  BY <1>1, <1>2, StepExploredInv
<1>4. ExhaustedInv'
  BY <1>2, StepExhaustedInv
<1>5. ScannedInv'
  BY <1>1, <1>2, StepScannedInv
<1> QED
  BY <1>3, <1>4, <1>5 DEF CompleteInv

\* The search always has explored what its frames are past.
LEMMA CompleteInvAlways ==
  ASSUME Flows \subseteq {"automatic", "left"}
  PROVE  SearchSpec => []CompleteInv
<1>1. SearchInv /\ TreeInv /\ CompleteInv /\ [SearchNext]_searchVars =>
        SearchInv' /\ TreeInv' /\ CompleteInv'
  BY StepSearchInv, StepTreeInv, StepCompleteInv
<1> QED
  BY <1>1, InitSearchInv, InitTreeInv, InitCompleteInv, PTL DEF SearchSpec

-----------------------------------------------------------------------------
(* The layouts of the property are among those of the lattice.             *)

\* A place of the property on a lattice that misses nothing.
LEMMA PlaceReached ==
  ASSUME InputInv, Reached(problem), NEW i \in 1 .. Len(problem.parts),
         NEW g \in PlaceRecords(problem), g.r < Len(problem.parts[i]),
         g.x \in OnLattice(problem.sheets[g.sheet].w),
         g.y \in OnLattice(problem.sheets[g.sheet].h),
         MaskAt(problem, i, g) \subseteq problem.sheets[g.sheet].pixels,
         CoreAt(problem, i, g) \subseteq problem.sheets[g.sheet].inner
  PROVE  OnGrid(problem, i, g) /\ MaskAt(problem, i, g) # {}
<1> DEFINE r == g.r + 1
           s == g.sheet
           x == g.x
           y == g.y
           mask == problem.parts[i][r]
<1>1. /\ g.sheet \in 1 .. Len(problem.sheets) /\ g.r \in Nat
      /\ i \in DOMAIN problem.parts /\ s \in DOMAIN problem.sheets
      /\ DOMAIN problem.parts[i] = 1 .. Len(problem.parts[i])
      /\ Len(problem.parts[i]) \in Nat
  BY InputFacts, PolicyFacts DEF PlaceRecords
<1>2. r \in DOMAIN problem.parts[i]
  BY <1>1
<1>3. /\ x \in 0 .. problem.sheets[s].w - 1 /\ x % problem.step = 0
      /\ y \in 0 .. problem.sheets[s].h - 1 /\ y % problem.step = 0
  BY DEF OnLattice
<1>4. /\ Shifted(mask.pixels, [x |-> x, y |-> y]) = MaskAt(problem, i, g)
      /\ Shifted(mask.core, [x |-> x, y |-> y]) = CoreAt(problem, i, g)
  BY DEF Shifted, MaskAt, CoreAt
<1>5. mask.pixels # {}
  BY <1>1, <1>2 DEF Reached
<1>6. /\ \E c \in 0 .. ColumnsOf(problem, i, s) - 1 : x = c * problem.step + EdgeOf(problem)
      /\ \E c \in 0 .. RowsOf(problem, i, s) - 1 : y = c * problem.step + EdgeOf(problem)
  <2> HIDE DEF x, y
  <2>1. /\ Shifted(mask.pixels, [x |-> x, y |-> y]) \subseteq problem.sheets[s].pixels
        /\ Shifted(mask.core, [x |-> x, y |-> y]) \subseteq problem.sheets[s].inner
    BY <1>4
  <2>2. \A a \in 0 .. problem.sheets[s].w - 1, b \in 0 .. problem.sheets[s].h - 1 :
          /\ a % problem.step = 0 /\ b % problem.step = 0
          /\ Shifted(mask.pixels, [x |-> a, y |-> b]) \subseteq problem.sheets[s].pixels
          /\ Shifted(mask.core, [x |-> a, y |-> b]) \subseteq problem.sheets[s].inner
          => /\ \E c \in 0 .. ColumnsOf(problem, i, s) - 1 : a = c * problem.step + EdgeOf(problem)
             /\ \E c \in 0 .. RowsOf(problem, i, s) - 1 : b = c * problem.step + EdgeOf(problem)
    <3> HIDE DEF r, s
    <3> QED
      BY <1>1, <1>2, Zenon DEF Reached
  <2> HIDE DEF r, s, mask
  <2> QED
    BY <1>3, <2>1, <2>2
<1>7. OnGrid(problem, i, g)
  BY <1>6 DEF OnGrid
<1>8. MaskAt(problem, i, g) # {}
  BY <1>5 DEF MaskAt, Shifted
<1> QED
  BY <1>7, <1>8

\* A layout of the property is one of the lattice.
LEMMA LayoutReached ==
  ASSUME InputInv, Reached(problem), NEW f \in [DOMAIN Parts -> Places], IsLayout(f)
  PROVE  f \in LayoutsOf(problem)
<1> DEFINE N == Len(problem.parts)
<1>1. /\ DOMAIN Parts = 1 .. N /\ DOMAIN Sheets = 1 .. Len(problem.sheets)
      /\ \A s \in 1 .. Len(problem.sheets) : Sheets[s] = problem.sheets[s]
      /\ DOMAIN f = 1 .. N
  BY InputFacts DEF Parts, Sheets
<1>2. ASSUME NEW i \in 1 .. N, f[i] # Nowhere
      PROVE  /\ f[i] \in PlaceRecords(problem)
             /\ f[i].x \in OnLattice(problem.sheets[f[i].sheet].w)
             /\ f[i].y \in OnLattice(problem.sheets[f[i].sheet].h)
  <2>1. f[i] \in Places
    BY <1>1
  <2> DEFINE m == Max({Len(p) : p \in Range(Parts)}) - 1
             On(s) == {[sheet |-> s, r |-> r, x |-> x, y |-> y] :
                         r \in 0 .. m,
                         x \in OnLattice(Sheets[s].w), y \in OnLattice(Sheets[s].h)}
  <2>2. PICK s \in 1 .. Len(problem.sheets) : f[i] \in On(s)
    <3>1. Places = {Nowhere} \cup UNION {On(s) : s \in DOMAIN Sheets}
      BY DEF Places
    <3> HIDE DEF On
    <3> QED
      BY <1>1, <1>2, <2>1, <3>1
  <2> HIDE DEF m
  <2>3. PICK r \in 0 .. m,
             x \in OnLattice(Sheets[s].w), y \in OnLattice(Sheets[s].h) :
          f[i] = [sheet |-> s, r |-> r, x |-> x, y |-> y]
    BY <2>2
  <2>4. r \in Nat
    OBVIOUS
  <2>5. x \in Nat /\ y \in Nat
    BY DEF OnLattice
  <2> QED
    BY <1>1, <2>3, <2>4, <2>5 DEF PlaceRecords
<1> DEFINE At(i) == [part |-> i, sheet |-> f[i].sheet, r |-> f[i].r,
                     x |-> f[i].x, y |-> f[i].y]
<1>3. \A i \in 1 .. N : /\ Pixels(At(i)) = MaskAt(problem, i, f[i])
                        /\ Core(At(i)) = CoreAt(problem, i, f[i])
                        /\ Halo(At(i)) = HaloAt(problem, i, f[i])
  BY DEF Pixels, Core, Halo, MaskAt, CoreAt, HaloAt, Shifted, Parts
<1>4. /\ \A i \in 1 .. N : f[i] # Nowhere =>
           /\ f[i].r < Len(Parts[i])
           /\ Pixels(At(i)) \subseteq Sheets[f[i].sheet].pixels
           /\ Core(At(i)) \subseteq Sheets[f[i].sheet].inner
      /\ \A i, j \in 1 .. N :
           i # j /\ f[i] # Nowhere /\ f[i].sheet = f[j].sheet =>
             /\ Pixels(At(i)) \cap Pixels(At(j)) = {}
             /\ Halo(At(i)) \cap Halo(At(j)) = {}
  BY <1>1 DEF IsLayout
<1> HIDE DEF At
<1>5. ASSUME NEW i \in 1 .. N, f[i] # Nowhere
      PROVE  /\ f[i].r < Len(problem.parts[i])
             /\ OnGrid(problem, i, f[i]) /\ MaskAt(problem, i, f[i]) # {}
             /\ MaskAt(problem, i, f[i]) \subseteq problem.sheets[f[i].sheet].pixels
             /\ CoreAt(problem, i, f[i]) \subseteq problem.sheets[f[i].sheet].inner
  <2>1. /\ f[i] \in PlaceRecords(problem) /\ f[i].sheet \in 1 .. Len(problem.sheets)
        /\ f[i].x \in OnLattice(problem.sheets[f[i].sheet].w)
        /\ f[i].y \in OnLattice(problem.sheets[f[i].sheet].h)
    BY <1>2, <1>5 DEF PlaceRecords
  <2>2. /\ f[i].r < Len(problem.parts[i])
        /\ MaskAt(problem, i, f[i]) \subseteq problem.sheets[f[i].sheet].pixels
        /\ CoreAt(problem, i, f[i]) \subseteq problem.sheets[f[i].sheet].inner
    BY <1>1, <1>3, <1>4, <1>5, <2>1 DEF Parts
  <2> QED
    BY <2>1, <2>2, PlaceReached
<1>6. ASSUME NEW i \in 1 .. N, NEW j \in 1 .. N, i # j, f[i] # Nowhere, f[j] # Nowhere,
             f[i].sheet = f[j].sheet
      PROVE  /\ MaskAt(problem, i, f[i]) \cap MaskAt(problem, j, f[j]) = {}
             /\ HaloAt(problem, i, f[i]) \cap HaloAt(problem, j, f[j]) = {}
             /\ problem.parts[i] = problem.parts[j] => f[i] # f[j]
  <2>1. /\ MaskAt(problem, i, f[i]) \cap MaskAt(problem, j, f[j]) = {}
        /\ HaloAt(problem, i, f[i]) \cap HaloAt(problem, j, f[j]) = {}
    BY <1>3, <1>4, <1>6
  <2>2. MaskAt(problem, i, f[i]) # {}
    BY <1>5, <1>6
  <2>3. ASSUME problem.parts[i] = problem.parts[j], f[i] = f[j] PROVE FALSE
    <3>1. MaskAt(problem, i, f[i]) = MaskAt(problem, j, f[j])
      BY <2>3, SamePolicy
    <3> QED
      BY <2>1, <2>2, <3>1
  <2> QED
    BY <2>1, <2>3
<1>7. f \in [1 .. N -> {Nowhere} \cup PlaceRecords(problem)]
  BY <1>1, <1>2
<1> QED
  BY <1>5, <1>6, <1>7 DEF LayoutsOf

\* This is what the property says.
LEMMA CompleteInvComplete ==
  ASSUME \A p \in Problems : Reached(p)
  PROVE  SearchInv /\ CompleteInv => Complete
<1> SUFFICES ASSUME SearchInv, CompleteInv, phase = "done", exhausted,
                    NEW f \in [DOMAIN Parts -> Places], IsLayout(f)
             PROVE  Cardinality({i \in DOMAIN f : f[i] # Nowhere}) <= overall
  BY DEF Complete
<1>1. InputInv /\ ExhaustedInv /\ Reached(problem)
  BY DEF SearchInv, InputInv, CompleteInv
<1>2. f \in LayoutsOf(problem)
  BY <1>1, LayoutReached
<1>3. PartCount(problem, f) <= overall
  BY <1>1, <1>2, AllExplored
<1>4. DOMAIN f = 1 .. Len(problem.parts)
  BY <1>1, InputFacts DEF Parts
<1> QED
  BY <1>3, <1>4 DEF PartCount, Chosen

\* An exhausted search has found the largest number of parts that any layout
\* places: the bounds cut off nothing, copies that are "already covered with
\* the earlier ID" lose none, and the root ranges "cover the same finite tree".
\* It assumes that sheets are filled from the left, and problems whose lattices
\* miss no place of the property's.
THEOREM CompleteAlways ==
  ASSUME Flows \subseteq {"automatic", "left"}, \A p \in Problems : Reached(p)
  PROVE  SearchSpec => []Complete
<1>1. SearchInv /\ CompleteInv => Complete
  BY CompleteInvComplete
<1> QED
  BY <1>1, SearchInvAlways, CompleteInvAlways, PTL

\* On a lattice whose border is as wide as the spacing, a mask that keeps the
\* spacing from both ends of a side is at a position.
LEMMA SideReached ==
  ASSUME NEW p, p.step \in Nat \ {0}, p.spacing \in Nat, p.spacing % p.step = 0,
         NEW side \in Nat, NEW smallest \in Nat, NEW w \in Nat, smallest <= w,
         NEW x \in Nat, x % p.step = 0, p.spacing <= x, x + w + p.spacing <= side
  PROVE  \E c \in 0 .. Positions(p, side, smallest) - 1 : x = c * p.step + EdgeOf(p)
<1> DEFINE t == p.step
           g == p.spacing
           k == g \div t
           u == x \div t
<1>1. t \in Nat \ {0} /\ g \in Nat
  OBVIOUS
<1>2. k \in Nat /\ g = t * k /\ u \in Nat /\ x = t * u
  OBVIOUS
<1>3. EdgeOf(p) = g
  <2> DEFINE v == t - 1
  <2>1. v \in 0 .. t - 1
    BY <1>1
  <2>2. g + t - 1 = k * t + v
    <3>1. t * k = k * t
      BY <1>1, <1>2
    <3> QED
      BY <1>1, <1>2, <3>1
  <2> HIDE DEF v, k, g, t
  <2>3. (k * t + v) \div t = k
    BY <1>1, <1>2, <2>1, DivisionBack
  <2>4. k * t = g
    BY <1>1, <1>2
  <2>5. EdgeOf(p) = ((g + t - 1) \div t) * t
    BY DEF EdgeOf, g, t
  <2> QED
    BY <2>2, <2>3, <2>4, <2>5
<1>4. g <= x /\ x + w + g <= side
  OBVIOUS
<1> HIDE DEF k, u, g, t
<1> DEFINE c == u - k
           rest == side - 2 * g - smallest
<1>5. c \in Nat /\ t * c = x - g
  <2>1. ~(u + 1 <= k)
    <3>1. u + 1 <= k => t * (u + 1) <= t * k
      BY <1>1, <1>2
    <3>2. t * (u + 1) = t * u + t
      BY <1>1, <1>2
    <3> QED
      BY <1>1, <1>2, <1>4, <3>1, <3>2
  <2>2. t * (u - k) = t * u - t * k
    BY <1>1, <1>2
  <2> QED
    BY <1>2, <2>1, <2>2
<1>6. rest \in Nat /\ t * c <= rest /\ ~(side < 2 * g + smallest)
  BY <1>1, <1>4, <1>5
<1>7. Positions(p, side, smallest) = (rest \div t) + 1
  BY <1>3, <1>6 DEF Positions, t
<1> HIDE DEF c, rest
<1>8. c <= rest \div t /\ rest \div t \in Nat
  BY <1>1, <1>5, <1>6, Quotient, QuotientAtLeast
<1>9. c \in 0 .. Positions(p, side, smallest) - 1
  BY <1>5, <1>7, <1>8
<1>10. x = c * t + g
  <2>1. c * t = t * c
    BY <1>1, <1>5
  <2> QED
    BY <1>1, <1>5, <2>1
<1> QED
  BY <1>3, <1>9, <1>10 DEF t

\* Pixels that reach the four sides of their box put the box between the sides
\* of the region they are moved into.
LEMMA BoxWithin ==
  ASSUME NEW P, NEW mask \in MaskRecords, Spans(P, mask),
         NEW Q, NEW stock \in SheetRecords, NEW gap \in Nat, Within(Q, stock, gap),
         NEW x \in Nat, NEW y \in Nat, Shifted(P, [x |-> x, y |-> y]) \subseteq Q
  PROVE  /\ gap <= x /\ x + mask.w + gap <= stock.w
         /\ gap <= y /\ y + mask.h + gap <= stock.h
<1>1. mask.w \in Nat /\ mask.h \in Nat /\ stock.w \in Nat /\ stock.h \in Nat
  BY DEF MaskRecords, SheetRecords
<1>2. ASSUME NEW q \in P
      PROVE  /\ q[1] + x \in gap .. stock.w - gap - 1
             /\ q[2] + y \in gap .. stock.h - gap - 1
  <2>1. <<q[1] + x, q[2] + y>> \in Q
    BY DEF Shifted
  <2> QED
    BY <2>1 DEF Within
<1>3. gap <= x
  <2>1. PICK q \in P : q[1] = 0
    BY DEF Spans
  <2> QED
    BY <1>1, <1>2, <2>1
<1>4. x + mask.w + gap <= stock.w
  <2>1. PICK q \in P : q[1] = mask.w - 1
    BY DEF Spans
  <2> QED
    BY <1>1, <1>2, <2>1
<1>5. gap <= y
  <2>1. PICK q \in P : q[2] = 0
    BY DEF Spans
  <2> QED
    BY <1>1, <1>2, <2>1
<1>6. y + mask.h + gap <= stock.h
  <2>1. PICK q \in P : q[2] = mask.h - 1
    BY DEF Spans
  <2> QED
    BY <1>1, <1>2, <2>1
<1> QED
  BY <1>3, <1>4, <1>5, <1>6

\* The lattices miss nothing if the border, whole steps of the lattice, is as
\* wide as the spacing, and the masks reach the sides of their boxes: the bound
\* on the border skips "obviously invalid" candidates only (:267).
THEOREM AlignedReached ==
  ASSUME NEW p \in Problems, Aligned(p)
  PROVE  Reached(p)
<1>1. /\ p.parts \in Seq(Policies) /\ p.sheets \in Seq(SheetRecords)
      /\ p.step \in Nat \ {0} /\ p.spacing \in Nat
  BY SearchAssumption DEF SearchAssumption
<1>2. ASSUME NEW i \in DOMAIN p.parts, NEW r \in DOMAIN p.parts[i]
      PROVE  /\ p.parts[i][r] \in MaskRecords
             /\ Min({mask.w : mask \in Range(p.parts[i])}) \in Nat
             /\ Min({mask.w : mask \in Range(p.parts[i])}) <= p.parts[i][r].w
             /\ Min({mask.h : mask \in Range(p.parts[i])}) \in Nat
             /\ Min({mask.h : mask \in Range(p.parts[i])}) <= p.parts[i][r].h
  <2> DEFINE Ws == {mask.w : mask \in Range(p.parts[i])}
             Hs == {mask.h : mask \in Range(p.parts[i])}
  <2>1. p.parts[i] \in Policies
    BY <1>1
  <2>2. p.parts[i] \in Seq(MaskRecords)
    BY <2>1 DEF Policies
  <2>3. \A k \in DOMAIN p.parts[i] : p.parts[i][k] \in MaskRecords
    BY <2>2
  <2>4. \A mask \in Range(p.parts[i]) : mask.w \in Nat /\ mask.h \in Nat
    BY <2>3 DEF Range, MaskRecords
  <2>5. p.parts[i][r] \in Range(p.parts[i])
    BY DEF Range
  <2>6. /\ Ws \in SUBSET Nat /\ p.parts[i][r].w \in Ws
        /\ Hs \in SUBSET Nat /\ p.parts[i][r].h \in Hs
    BY <2>4, <2>5
  <2> HIDE DEF Ws, Hs
  <2>7. /\ Min(Ws) \in Nat /\ Min(Ws) <= p.parts[i][r].w
        /\ Min(Hs) \in Nat /\ Min(Hs) <= p.parts[i][r].h
    BY <2>6, MinIs
  <2> QED
    BY <2>3, <2>7 DEF Ws, Hs
<1>3. ASSUME NEW i \in DOMAIN p.parts, NEW r \in DOMAIN p.parts[i],
             NEW s \in DOMAIN p.sheets, NEW x \in Nat, NEW y \in Nat,
             x % p.step = 0, y % p.step = 0,
             Shifted(p.parts[i][r].pixels, [x |-> x, y |-> y]) \subseteq p.sheets[s].pixels,
             Shifted(p.parts[i][r].core, [x |-> x, y |-> y]) \subseteq p.sheets[s].inner
      PROVE  /\ \E c \in 0 .. ColumnsOf(p, i, s) - 1 : x = c * p.step + EdgeOf(p)
             /\ \E c \in 0 .. RowsOf(p, i, s) - 1 : y = c * p.step + EdgeOf(p)
  <2> DEFINE mask == p.parts[i][r]
             stock == p.sheets[s]
             wide == Min({m.w : m \in Range(p.parts[i])})
             high == Min({m.h : m \in Range(p.parts[i])})
  <2>1. mask \in MaskRecords /\ stock \in SheetRecords
    <3>1. p.parts[i][r] \in MaskRecords
      BY <1>2
    <3>2. p.sheets[s] \in SheetRecords
      BY <1>1
    <3> QED
      BY <3>1, <3>2
  <2>2. /\ p.spacing % p.step = 0 /\ Spans(mask.pixels, mask)
        /\ p.spacing = 0 \/ Spans(mask.core, mask)
        /\ Within(stock.pixels, stock, 0) /\ Within(stock.inner, stock, p.spacing)
    BY DEF Aligned
  <2>3. /\ wide \in Nat /\ wide <= mask.w
        /\ high \in Nat /\ high <= mask.h
    BY <1>2
  <2>4. /\ mask.w \in Nat /\ mask.h \in Nat /\ stock.w \in Nat /\ stock.h \in Nat
    BY <2>1 DEF MaskRecords, SheetRecords
  <2>5. /\ ColumnsOf(p, i, s) = Positions(p, stock.w, wide)
        /\ RowsOf(p, i, s) = Positions(p, stock.h, high)
    BY DEF ColumnsOf, RowsOf
  <2>6. /\ Shifted(mask.pixels, [x |-> x, y |-> y]) \subseteq stock.pixels
        /\ Shifted(mask.core, [x |-> x, y |-> y]) \subseteq stock.inner
    BY <1>3
  <2> HIDE DEF mask, stock, wide, high
  <2>7. /\ p.spacing <= x /\ x + mask.w + p.spacing <= stock.w
        /\ p.spacing <= y /\ y + mask.h + p.spacing <= stock.h
    <3>1. CASE p.spacing = 0
      <4> DEFINE gap == p.spacing
      <4>1. gap \in Nat /\ Within(stock.pixels, stock, gap)
        BY <1>1, <2>2, <3>1
      <4> HIDE DEF gap
      <4>2. /\ gap <= x /\ x + mask.w + gap <= stock.w
            /\ gap <= y /\ y + mask.h + gap <= stock.h
        BY <2>1, <2>2, <2>6, <4>1, BoxWithin
      <4> QED
        BY <4>2 DEF gap
    <3>2. CASE p.spacing # 0
      <4>1. Spans(mask.core, mask)
        BY <2>2, <3>2
      <4> QED
        BY <1>1, <2>1, <2>2, <2>6, <4>1, BoxWithin
    <3> QED
      BY <3>1, <3>2
  <2>8. ASSUME NEW side \in Nat, NEW smallest \in Nat, NEW w \in Nat, smallest <= w,
               NEW v \in Nat, v % p.step = 0, p.spacing <= v, v + w + p.spacing <= side
        PROVE  \E c \in 0 .. Positions(p, side, smallest) - 1 : v = c * p.step + EdgeOf(p)
    BY <1>1, <2>2, <2>8, SideReached
  <2>9. \E c \in 0 .. Positions(p, stock.w, wide) - 1 : x = c * p.step + EdgeOf(p)
    BY <1>3, <2>3, <2>4, <2>7, <2>8
  <2>10. \E c \in 0 .. Positions(p, stock.h, high) - 1 : y = c * p.step + EdgeOf(p)
    BY <1>3, <2>3, <2>4, <2>7, <2>8
  <2> QED
    BY <2>5, <2>9, <2>10
<1>4. ASSUME NEW i \in DOMAIN p.parts, NEW r \in DOMAIN p.parts[i]
      PROVE  p.parts[i][r].pixels # {}
  BY DEF Aligned, Spans
<1>5. ASSUME NEW i \in DOMAIN p.parts, NEW r \in DOMAIN p.parts[i],
             NEW s \in DOMAIN p.sheets,
             NEW x \in 0 .. p.sheets[s].w - 1, NEW y \in 0 .. p.sheets[s].h - 1
      PROVE  /\ x % p.step = 0 /\ y % p.step = 0
             /\ Shifted(p.parts[i][r].pixels, [x |-> x, y |-> y]) \subseteq p.sheets[s].pixels
             /\ Shifted(p.parts[i][r].core, [x |-> x, y |-> y]) \subseteq p.sheets[s].inner
             => /\ \E c \in 0 .. ColumnsOf(p, i, s) - 1 : x = c * p.step + EdgeOf(p)
                /\ \E c \in 0 .. RowsOf(p, i, s) - 1 : y = c * p.step + EdgeOf(p)
  <2>1. x \in Nat /\ y \in Nat
    OBVIOUS
  <2> QED
    BY <1>3, <2>1
<1> QED
  BY <1>4, <1>5, Zenon DEF Reached

-----------------------------------------------------------------------------
(* The broker of the device.                                               *)

\* Where a worker has the lease, and where it has a ticket.
Holds(w) == at[w] \in Leased \cup {"returning", "failing"}
Waits(w) == at[w] \in {"asleep", "awake"}

\* The line is made up of the workers with a ticket, each of them once, and
\* only the first may have the lease.
LineInv ==
  /\ \A i, j \in 1 .. Len(line) : line[i] = line[j] => i = j
  /\ \A w \in Users :
       Holds(w) \/ Waits(w) <=> \E i \in 1 .. Len(line) : line[i] = w
  /\ \A w \in Users : Holds(w) => line # <<>> /\ line[1] = w

UserStep(w) == ToggleStock(w) \/ DrawTicket(w) \/ SpuriousWakeup(w) \/ Proceed(w)

USE DEF search, loaded, surface, slots

-----------------------------------------------------------------------------
(* Types.                                                                  *)

LEMMA InitTyped == Init => TypeOK
<1> SUFFICES ASSUME Init PROVE TypeOK
  OBVIOUS
<1>1. goal \in [Users -> [sheet : Stocks, mask : Masks]]
  <2>1. PICK s \in Stocks, m \in Masks : TRUE
    BY BrokerAssumption DEF BrokerAssumption
  <2>2. [sheet |-> s, mask |-> m] \in [sheet : Stocks, mask : Masks]
    BY <2>1
  <2>3. (CHOOSE g \in [sheet : Stocks, mask : Masks] : TRUE)
          \in [sheet : Stocks, mask : Masks]
    BY <2>2
  <2>4. QED
    BY <2>3 DEF Init
<1>2. /\ occupancy \in [Users -> [Stocks -> SUBSET Masks]]
      /\ updates \in [Users -> [Stocks -> SUBSET Masks]]
  BY DEF Init
<1>3. toggles \in 0 .. MaxToggles /\ filters \in 0 .. MaxFilters
  BY BrokerAssumption DEF BrokerAssumption, Init
<1>4. /\ line \in Seq(Users)
      /\ at \in [Users -> Stages]
      /\ job \in [Users -> {"prepare", "policy", "filter"}]
      /\ slot \in Users
  BY BrokerAssumption DEF BrokerAssumption, Init, Stages
<1>5. /\ atlas \in BOOLEAN
      /\ uploaded \subseteq Masks
      /\ sheet \in Stocks \cup {"none"} /\ material \in Stocks \cup {"none"}
      /\ buffer \in Bitmaps \cup {NoBitmap}
      /\ saved \in [Users -> Bitmaps \cup {NoBitmap}]
  BY DEF Init
<1>6. QED
  BY <1>1, <1>2, <1>3, <1>4, <1>5 DEF TypeOK

LEMMA ToggleTyped ==
  ASSUME TypeOK, NEW w \in Users, ToggleStock(w)
  PROVE  TypeOK'
<1>1. PICK s \in Stocks, m \in uploaded :
        /\ occupancy' = [occupancy EXCEPT ![w][s] = SymDiff(@, {m})]
        /\ updates' = [updates EXCEPT ![w][s] = SymDiff(@, {m})]
  BY DEF ToggleStock
<1>2. /\ SymDiff(occupancy[w][s], {m}) \in SUBSET Masks
      /\ SymDiff(updates[w][s], {m}) \in SUBSET Masks
  BY DEF TypeOK, SymDiff
<1>3. /\ occupancy' \in [Users -> [Stocks -> SUBSET Masks]]
      /\ updates' \in [Users -> [Stocks -> SUBSET Masks]]
  BY <1>1, <1>2 DEF TypeOK
<1>4. toggles' \in 0 .. MaxToggles
  BY BrokerAssumption DEF BrokerAssumption, ToggleStock, TypeOK
<1>5. QED
  BY <1>3, <1>4 DEF ToggleStock, TypeOK

LEMMA DrawTicketTyped ==
  ASSUME TypeOK, NEW w \in Users, DrawTicket(w)
  PROVE  TypeOK'
<1>1. line' \in Seq(Users)
  BY DEF DrawTicket, TypeOK
<1>2. at' \in [Users -> Stages]
  BY DEF DrawTicket, TypeOK, Goto, Stages, Leased
<1>3. goal' \in [Users -> [sheet : Stocks, mask : Masks]]
  <2>1. CASE job[w] = "policy"
    <3>1. PICK g \in [sheet : Stocks, mask : Masks] : goal' = [goal EXCEPT ![w] = g]
      BY <2>1 DEF DrawTicket, ChooseGoal
    <3>2. QED
      BY <3>1 DEF TypeOK
  <2>2. CASE job[w] # "policy"
    BY <2>2 DEF DrawTicket, TypeOK
  <2>3. QED
    BY <2>1, <2>2
<1>4. filters' \in 0 .. MaxFilters
  BY BrokerAssumption DEF BrokerAssumption, DrawTicket, ChooseGoal, TypeOK
<1>5. QED
  BY <1>1, <1>2, <1>3, <1>4 DEF DrawTicket, TypeOK

\* The steps that only move workers along, in the line or out of it.
Walks(w) ==
  \/ SpuriousWakeup(w) \/ TestTicket(w) \/ ReturnTicket(w) \/ NotifyAll(w)
  \/ Prepare(w) \/ PreparePolicy(w) \/ PrepareFails(w)
  \/ KeepSheet(w) \/ KeepSlot(w) \/ SelectSlotFails(w)
  \/ Dispatch(w) \/ ReadFlags(w)

LEMMA WalksTyped ==
  ASSUME TypeOK, LineInv, NEW w \in Users, Walks(w)
  PROVE  TypeOK'
<1> USE DEF Walks, SpuriousWakeup, TestTicket, ReturnTicket, NotifyAll,
            Prepare, PreparePolicy, PrepareFails, KeepSheet, KeepSlot,
            SelectSlotFails, Dispatch, ReadFlags
<1>1. line' \in Seq(Users)
  <2>1. CASE ReturnTicket(w)
    <3>1. line # <<>>
      BY <2>1 DEF LineInv, Holds
    <3>2. QED
      BY <2>1, <3>1 DEF TypeOK
  <2>2. CASE ~ReturnTicket(w)
    BY <2>2 DEF TypeOK
  <2>3. QED
    BY <2>1, <2>2
<1>2. at' \in [Users -> Stages]
  <2>1. CASE NotifyAll(w)
    BY <2>1 DEF TypeOK, Stages, Leased
  <2>2. CASE ~NotifyAll(w)
    <3>1. \E place \in Stages : at' = [at EXCEPT ![w] = place]
      BY <2>2 DEF Goto, Stages, Leased
    <3>2. QED
      BY <3>1 DEF TypeOK
  <2>3. QED
    BY <2>1, <2>2
<1>3. job' \in [Users -> {"prepare", "policy", "filter"}]
  BY DEF NextJob, TypeOK
<1>4. uploaded' \subseteq Masks
  BY DEF TypeOK
<1>5. atlas' \in BOOLEAN
  BY DEF TypeOK
<1>6. UNCHANGED <<goal, occupancy, updates, toggles, filters, surface, slots>>
  OBVIOUS
<1>7. QED
  BY <1>1, <1>2, <1>3, <1>4, <1>5, <1>6 DEF TypeOK

\* The steps that change what is on the device.
Writes(w) ==
  \/ SetSheet(w) \/ SetSheetFails(w) \/ SwitchSlot(w)
  \/ Upload(w) \/ UploadFails(w) \/ Follow(w) \/ FollowFails(w)

LEMMA BitmapIsOne == \A b \in Bitmaps : b # NoBitmap
<1> SUFFICES ASSUME NEW b \in Bitmaps, b = NoBitmap PROVE FALSE
  OBVIOUS
<1>1. DOMAIN b = {"masks", "ready"}
  BY DEF Bitmaps
<1>2. DOMAIN NoBitmap = {"none"}
  BY DEF NoBitmap
<1>3. QED
  BY <1>1, <1>2

LEMMA RoomTyped ==
  ASSUME TypeOK, NEW w \in Users, NEW kept \in Room(w)
  PROVE  kept \in [Users -> Bitmaps \cup {NoBitmap}]
BY DEF Room

LEMMA SlotsTyped ==
  ASSUME TypeOK, NEW w \in Users, Writes(w),
         at[w] = "selected" => buffer # NoBitmap
  PROVE  /\ slot' \in Users
         /\ buffer' \in Bitmaps \cup {NoBitmap}
         /\ saved' \in [Users -> Bitmaps \cup {NoBitmap}]
<1> USE DEF TypeOK, Fresh
<1>1. CASE SetSheet(w)
  BY <1>1, BrokerAssumption DEF BrokerAssumption, SetSheet, Bitmaps
<1>2. CASE SetSheetFails(w)
  BY <1>2, BrokerAssumption DEF BrokerAssumption, SetSheetFails, Bitmaps
<1>3. CASE SwitchSlot(w)
  <2>1. PICK kept \in Room(w) :
          saved' = IF Capacity > 1 THEN [kept EXCEPT ![slot] = buffer] ELSE kept
    BY <1>3 DEF SwitchSlot
  <2>2. saved' \in [Users -> Bitmaps \cup {NoBitmap}]
    BY <2>1, RoomTyped
  <2>3. buffer' \in Bitmaps \cup {NoBitmap}
    BY <1>3 DEF SwitchSlot, Bitmaps
  <2>4. QED
    BY <1>3, <2>2, <2>3 DEF SwitchSlot
<1>4. CASE Upload(w)
  <2>1. occupancy[w][goal[w].sheet] \in SUBSET Masks
    OBVIOUS
  <2>2. buffer' \in Bitmaps
    BY <1>4, <2>1 DEF Upload, Bitmaps
  <2>3. QED
    BY <1>4, <2>2 DEF Upload
<1>5. CASE UploadFails(w)
  BY <1>5 DEF UploadFails, Bitmaps
<1>6. CASE Follow(w)
  <2>1. updates[w][goal[w].sheet] \in SUBSET Masks
    OBVIOUS
  <2>2. buffer' \in Bitmaps
    BY <1>6, <2>1 DEF Follow, Bitmaps, SymDiff
  <2>3. QED
    BY <1>6, <2>2 DEF Follow
<1>7. CASE FollowFails(w)
  <2>1. PICK some \in SUBSET updates[w][goal[w].sheet] :
          buffer' = [buffer EXCEPT !.masks = SymDiff(@, some)]
    BY <1>7 DEF FollowFails
  <2>2. some \in SUBSET Masks
    OBVIOUS
  <2>3. buffer' \in Bitmaps
    BY <1>7, <2>1, <2>2 DEF FollowFails, Bitmaps, SymDiff
  <2>4. QED
    BY <1>7, <2>3 DEF FollowFails
<1>8. QED
  BY <1>1, <1>2, <1>3, <1>4, <1>5, <1>6, <1>7 DEF Writes


\* Every other step.
LEMMA StepCases ==
  ASSUME NEW w \in Users, UserStep(w)
  PROVE  ToggleStock(w) \/ DrawTicket(w) \/ Walks(w) \/ Writes(w)
BY DEF UserStep, Proceed, Walks, Writes

LEMMA WritesTyped ==
  ASSUME TypeOK, NEW w \in Users, Writes(w),
         at[w] = "selected" => buffer # NoBitmap
  PROVE  TypeOK'
<1> USE DEF Writes, SetSheet, SetSheetFails, SwitchSlot, Upload, UploadFails,
            Follow, FollowFails
<1>1. at' \in [Users -> Stages]
  <2>1. \E place \in Stages : at' = [at EXCEPT ![w] = place]
    BY DEF Goto, Stages, Leased
  <2>2. QED
    BY <2>1 DEF TypeOK
<1>2. updates' \in [Users -> [Stocks -> SUBSET Masks]]
  BY DEF TypeOK, Forget
<1>3. sheet' \in Stocks \cup {"none"} /\ material' \in Stocks \cup {"none"}
  BY DEF TypeOK
<1>4. UNCHANGED <<line, job, goal, occupancy, toggles, filters, loaded>>
  OBVIOUS
<1>5. QED
  BY <1>1, <1>2, <1>3, <1>4, SlotsTyped DEF TypeOK

-----------------------------------------------------------------------------
(* The line.                                                               *)

\* Two workers never have the lease at once.
LEMMA Alone ==
  ASSUME LineInv, NEW v \in Users, NEW w \in Users, Holds(v), Holds(w)
  PROVE  v = w
BY DEF LineInv

LEMMA DrawTicketLine ==
  ASSUME TypeOK, LineInv, NEW w \in Users, DrawTicket(w)
  PROVE  LineInv'
<1>1. /\ at[w] = "cpu"
      /\ line' = Append(line, w)
      /\ at' = [at EXCEPT ![w] = IF line = <<>> THEN "turn" ELSE "asleep"]
  BY DEF DrawTicket, Goto
<1>2. /\ Len(line') = Len(line) + 1
      /\ Len(line) \in Nat
      /\ \A i \in 1 .. Len(line) : line'[i] = line[i]
      /\ line'[Len(line) + 1] = w
  BY <1>1 DEF TypeOK
<1>3. \A i \in 1 .. Len(line) : line[i] # w
  BY <1>1 DEF LineInv, Holds, Waits, Leased
<1>4. \A i, j \in 1 .. Len(line') : line'[i] = line'[j] => i = j
  BY <1>2, <1>3 DEF LineInv
<1>5. \A v \in Users :
        (Holds(v) \/ Waits(v))' <=> v = w \/ Holds(v) \/ Waits(v)
  BY <1>1 DEF Holds, Waits, Leased, TypeOK
<1>6. \A v \in Users :
        (Holds(v) \/ Waits(v))' <=> \E i \in 1 .. Len(line') : line'[i] = v
  <2> SUFFICES ASSUME NEW v \in Users
               PROVE  (Holds(v) \/ Waits(v))' <=> \E i \in 1 .. Len(line') : line'[i] = v
    OBVIOUS
  <2>1. (\E i \in 1 .. Len(line') : line'[i] = v)
          <=> v = w \/ \E i \in 1 .. Len(line) : line[i] = v
    BY <1>2
  <2>2. QED
    BY <1>5, <2>1 DEF LineInv
<1>7. \A v \in Users : Holds(v)' => line' # <<>> /\ line'[1] = v
  <2> SUFFICES ASSUME NEW v \in Users, Holds(v)'
               PROVE  line' # <<>> /\ line'[1] = v
    OBVIOUS
  <2>1. CASE v = w
    BY <1>1, <1>2, <2>1 DEF Holds, Leased, TypeOK
  <2>2. CASE v # w
    <3>1. Holds(v)
      BY <1>1, <2>2 DEF Holds, TypeOK
    <3>2. line # <<>> /\ line[1] = v
      BY <3>1 DEF LineInv
    <3>3. Len(line) >= 1
      BY <3>2 DEF TypeOK
    <3>4. QED
      BY <1>1, <1>2, <3>2, <3>3 DEF TypeOK
  <2>3. QED
    BY <2>1, <2>2
<1>8. QED
  BY <1>4, <1>6, <1>7 DEF LineInv

LEMMA ReturnTicketLine ==
  ASSUME TypeOK, LineInv, NEW w \in Users, ReturnTicket(w)
  PROVE  LineInv'
<1>1. /\ at[w] \in {"returning", "failing"}
      /\ line' = Tail(line)
      /\ at' = [at EXCEPT ![w] = IF at[w] = "returning" THEN "notifying"
                                 ELSE "leaving"]
  BY DEF ReturnTicket, Goto
<1>2. line # <<>> /\ line[1] = w
  BY <1>1 DEF LineInv, Holds
<1>3. /\ Len(line) \in Nat \ {0}
      /\ Len(line') = Len(line) - 1
      /\ \A i \in 1 .. Len(line') : line'[i] = line[i + 1]
  BY <1>1, <1>2 DEF TypeOK
<1>4. \A i, j \in 1 .. Len(line') : line'[i] = line'[j] => i = j
  <2> SUFFICES ASSUME NEW i \in 1 .. Len(line'), NEW j \in 1 .. Len(line'),
                      line'[i] = line'[j]
               PROVE  i = j
    OBVIOUS
  <2>1. i + 1 \in 1 .. Len(line) /\ j + 1 \in 1 .. Len(line)
    BY <1>3
  <2>2. i + 1 = j + 1
    BY <1>3, <2>1 DEF LineInv
  <2>3. QED
    BY <1>3, <2>2
<1>5. \A v \in Users :
        (Holds(v) \/ Waits(v))' <=> v # w /\ (Holds(v) \/ Waits(v))
  BY <1>1 DEF Holds, Waits, Leased, TypeOK
<1>6. \A v \in Users :
        (\E i \in 1 .. Len(line') : line'[i] = v)
          <=> v # w /\ \E i \in 1 .. Len(line) : line[i] = v
  <2> SUFFICES ASSUME NEW v \in Users
               PROVE  (\E i \in 1 .. Len(line') : line'[i] = v)
                        <=> v # w /\ \E i \in 1 .. Len(line) : line[i] = v
    OBVIOUS
  <2>1. ASSUME NEW i \in 1 .. Len(line'), line'[i] = v
        PROVE  v # w /\ \E j \in 1 .. Len(line) : line[j] = v
    <3>1. i + 1 \in 1 .. Len(line) /\ 1 \in 1 .. Len(line) /\ i + 1 # 1
      BY <1>3
    <3>2. line[i + 1] = v
      BY <1>3, <2>1
    <3>3. QED
      BY <1>2, <3>1, <3>2 DEF LineInv
  <2>2. ASSUME v # w, NEW j \in 1 .. Len(line), line[j] = v
        PROVE  \E i \in 1 .. Len(line') : line'[i] = v
    <3>1. j # 1
      BY <1>2, <2>2
    <3>2. j - 1 \in 1 .. Len(line') /\ (j - 1) + 1 = j
      BY <1>3, <3>1
    <3>3. QED
      BY <1>3, <2>2, <3>2
  <2>3. QED
    BY <2>1, <2>2
<1>7. \A v \in Users : ~Holds(v)'
  BY <1>1, Alone DEF Holds, Leased, TypeOK
<1>8. QED
  BY <1>4, <1>5, <1>6, <1>7 DEF LineInv

\* The steps that leave the line alone keep everybody's place in it.
LEMMA OtherLine ==
  ASSUME TypeOK, LineInv, NEW w \in Users, UNCHANGED line,
         ToggleStock(w) \/ Walks(w) \/ Writes(w), ~ReturnTicket(w)
  PROVE  LineInv'
<1>1. \A v \in Users :
        (Holds(v) \/ Waits(v))' <=> (Holds(v) \/ Waits(v))
  <2>1. CASE NotifyAll(w)
    BY <2>1 DEF NotifyAll, Holds, Waits, Leased, TypeOK
  <2>2. CASE ~NotifyAll(w)
    <3>1. \/ at' = at
          \/ /\ Holds(w) \/ Waits(w)
             /\ \E place \in Leased \cup {"returning", "failing", "asleep", "awake"} :
                  at' = [at EXCEPT ![w] = place]
      BY <2>2 DEF Walks, Writes, ToggleStock, SpuriousWakeup, TestTicket, Prepare,
        PreparePolicy, PrepareFails, KeepSheet, KeepSlot, SelectSlotFails,
        Dispatch, ReadFlags, SetSheet, SetSheetFails, SwitchSlot, Upload,
        UploadFails, Follow, FollowFails, Goto, Holds, Waits, Leased
    <3>2. QED
      BY <3>1 DEF Holds, Waits, TypeOK
  <2>3. QED
    BY <2>1, <2>2
<1>2. \A v \in Users : Holds(v)' => line # <<>> /\ line[1] = v
  <2>1. CASE TestTicket(w)
    <3>1. line # <<>>
      BY <2>1 DEF TestTicket, LineInv, Waits, TypeOK
    <3>2. QED
      BY <2>1, <3>1 DEF TestTicket, Goto, LineInv, Holds, Leased, TypeOK
  <2>2. CASE NotifyAll(w)
    BY <2>2 DEF NotifyAll, LineInv, Holds, Leased, TypeOK
  <2>3. CASE ~TestTicket(w) /\ ~NotifyAll(w)
    <3>1. \/ at' = at
          \/ Holds(w) /\ \E place \in Stages : at' = [at EXCEPT ![w] = place]
          \/ at' = [at EXCEPT ![w] = "awake"]
      BY <2>3 DEF Walks, Writes, ToggleStock, SpuriousWakeup, Prepare,
        PreparePolicy, PrepareFails, KeepSheet, KeepSlot, SelectSlotFails,
        Dispatch, ReadFlags, SetSheet, SetSheetFails, SwitchSlot, Upload,
        UploadFails, Follow, FollowFails, Goto, Holds, Leased, Stages
    <3>2. QED
      BY <3>1 DEF LineInv, Holds, Leased, TypeOK
  <2>4. QED
    BY <2>1, <2>2, <2>3
<1>3. QED
  BY <1>1, <1>2 DEF LineInv

LEMMA StepLine ==
  ASSUME TypeOK, LineInv, NEW w \in Users, UserStep(w)
  PROVE  LineInv'
<1>1. CASE DrawTicket(w)
  BY <1>1, DrawTicketLine
<1>2. CASE ReturnTicket(w)
  BY <1>2, ReturnTicketLine
<1>3. CASE ~DrawTicket(w) /\ ~ReturnTicket(w)
  <2>1. ToggleStock(w) \/ Walks(w) \/ Writes(w)
    BY <1>3, StepCases
  <2>2. UNCHANGED line
    BY <1>3, <2>1 DEF Walks, Writes, ToggleStock, SpuriousWakeup, TestTicket,
      NotifyAll, Prepare, PreparePolicy, PrepareFails, KeepSheet, KeepSlot,
      SelectSlotFails, Dispatch, ReadFlags, SetSheet, SetSheetFails,
      SwitchSlot, Upload, UploadFails, Follow, FollowFails
  <2>3. QED
    BY <1>3, <2>1, <2>2, OtherLine
<1>4. QED
  BY <1>1, <1>2, <1>3


-----------------------------------------------------------------------------
(* What is on the device.                                                  *)

\* How far a worker with the lease has come with its batch.
StageInv ==
  \A w \in Users :
    /\ at[w] \in {"sheeted", "selected", "updated", "filtering"} =>
         sheet = goal[w].sheet
    /\ at[w] \in {"selected", "updated", "filtering"} => slot = w
    /\ at[w] = "selected" => buffer # NoBitmap
    /\ at[w] \in {"updated", "filtering"} =>
         buffer = [masks |-> occupancy[w][goal[w].sheet], ready |-> TRUE]
    /\ at[w] = "filtering" => material # "none"

\* A worker that still uses the device, and a bitmap of the sheet that is
\* on the device from which the updates lead to the worker's own.
Uses(w) == at[w] \notin {"failing", "leaving", "gone"}
Tracks(w, bitmap) ==
  bitmap # NoBitmap /\ bitmap.ready =>
    \A s \in Stocks : s = sheet =>
      bitmap.masks = SymDiff(occupancy[w][s], updates[w][s])

ContentInv ==
  \A w \in Users : Uses(w) =>
    /\ Tracks(w, saved[w])
    /\ slot = w => Tracks(w, buffer)

\* The material is that of the sheet unless the device is out of use, and no
\* worker has two bitmaps.
SurfaceInv ==
  /\ material = sheet \/ material = "none" \/ buffer = NoBitmap
  /\ saved[slot] = NoBitmap

LEMMA TogglesCancel ==
  /\ \A A, B, M : SymDiff(SymDiff(A, M), SymDiff(B, M)) = SymDiff(A, B)
  /\ \A A, B : SymDiff(SymDiff(A, B), B) = A
  /\ \A A : SymDiff(A, {}) = A
BY DEF SymDiff

\* Users that hold no lease do not change the device.
LEMMA ToggleDevice ==
  ASSUME TypeOK, StageInv, ContentInv, SurfaceInv, NEW w \in Users, ToggleStock(w)
  PROVE  StageInv' /\ ContentInv' /\ SurfaceInv'
<1>1. PICK t \in Stocks, m \in uploaded :
        /\ occupancy' = [occupancy EXCEPT ![w][t] = SymDiff(@, {m})]
        /\ updates' = [updates EXCEPT ![w][t] = SymDiff(@, {m})]
  BY DEF ToggleStock
<1>2. at[w] = "cpu" /\ UNCHANGED <<at, goal, surface, slots>>
  BY DEF ToggleStock
<1>3. \A v \in Users \ {w} :
        occupancy'[v] = occupancy[v] /\ updates'[v] = updates[v]
  BY <1>1 DEF TypeOK
<1>4. StageInv'
  BY <1>2, <1>3 DEF StageInv
<1>5. \A v \in Users, s \in Stocks :
        SymDiff(occupancy'[v][s], updates'[v][s])
          = SymDiff(occupancy[v][s], updates[v][s])
  <2> SUFFICES ASSUME NEW v \in Users, NEW s \in Stocks
               PROVE  SymDiff(occupancy'[v][s], updates'[v][s])
                        = SymDiff(occupancy[v][s], updates[v][s])
    OBVIOUS
  <2>1. CASE v = w /\ s = t
    <3>1. /\ occupancy'[v][s] = SymDiff(occupancy[v][s], {m})
          /\ updates'[v][s] = SymDiff(updates[v][s], {m})
      BY <1>1, <2>1 DEF TypeOK
    <3>2. QED
      BY <3>1, TogglesCancel
  <2>2. CASE ~(v = w /\ s = t)
    BY <1>1, <2>2 DEF TypeOK
  <2>3. QED
    BY <2>1, <2>2
<1>6. ContentInv'
  <2>1. \A v \in Users : Tracks(v, saved[v]) => Tracks(v, saved[v])'
    BY <1>2, <1>5 DEF Tracks
  <2>2. \A v \in Users : Tracks(v, buffer) => Tracks(v, buffer)'
    BY <1>2, <1>5 DEF Tracks
  <2>3. QED
    BY <1>2, <2>1, <2>2 DEF ContentInv, Uses
<1>7. QED
  BY <1>2, <1>4, <1>6 DEF SurfaceInv

LEMMA DrawTicketDevice ==
  ASSUME TypeOK, StageInv, ContentInv, SurfaceInv, NEW w \in Users,
         DrawTicket(w)
  PROVE  StageInv' /\ ContentInv' /\ SurfaceInv'
<1>1. /\ at[w] = "cpu"
      /\ at' = [at EXCEPT ![w] = IF line = <<>> THEN "turn" ELSE "asleep"]
      /\ UNCHANGED <<occupancy, updates, surface, slots>>
  BY DEF DrawTicket, Goto
<1>2. \A v \in Users \ {w} : goal'[v] = goal[v] /\ at'[v] = at[v]
  BY <1>1 DEF DrawTicket, ChooseGoal, TypeOK
<1>3. StageInv'
  BY <1>1, <1>2 DEF StageInv, TypeOK
<1>4. ContentInv'
  BY <1>1, <1>2 DEF ContentInv, Tracks, Uses, TypeOK
<1>5. QED
  BY <1>1, <1>3, <1>4 DEF SurfaceInv

LEMMA WalksDevice ==
  ASSUME TypeOK, StageInv, ContentInv, SurfaceInv, NEW w \in Users, Walks(w)
  PROVE  StageInv' /\ ContentInv' /\ SurfaceInv'
<1>1. UNCHANGED <<goal, occupancy, updates, surface, slots>>
  BY DEF Walks, SpuriousWakeup, TestTicket, ReturnTicket, NotifyAll, Prepare,
    PreparePolicy, PrepareFails, KeepSheet, KeepSlot, SelectSlotFails,
    Dispatch, ReadFlags
<1>2. SurfaceInv'
  BY <1>1 DEF SurfaceInv
<1>3. \A v \in Users : Uses(v)' => Uses(v)
  <2>1. CASE NotifyAll(w)
    BY <2>1 DEF NotifyAll, Uses, TypeOK
  <2>2. CASE ~NotifyAll(w)
    BY <2>2 DEF Walks, SpuriousWakeup, TestTicket, ReturnTicket, Prepare,
      PreparePolicy, PrepareFails, KeepSheet, KeepSlot, SelectSlotFails,
      Dispatch, ReadFlags, Goto, Uses, TypeOK
  <2>3. QED
    BY <2>1, <2>2
<1>4. ContentInv'
  BY <1>1, <1>3 DEF ContentInv, Tracks
<1>5. StageInv'
  <2>1. CASE NotifyAll(w)
    BY <1>1, <2>1 DEF NotifyAll, StageInv, TypeOK
  <2>2. CASE KeepSheet(w)
    BY <1>1, <2>2 DEF KeepSheet, StageInv, Goto, TypeOK
  <2>3. CASE KeepSlot(w)
    BY <1>1, <2>3 DEF KeepSlot, StageInv, Goto, TypeOK
  <2>4. CASE Dispatch(w)
    BY <1>1, <2>4 DEF Dispatch, StageInv, Goto, TypeOK
  <2>5. CASE \/ SpuriousWakeup(w) \/ TestTicket(w) \/ ReturnTicket(w)
             \/ Prepare(w) \/ PreparePolicy(w) \/ PrepareFails(w)
             \/ SelectSlotFails(w) \/ ReadFlags(w)
    <3>1. \E place \in {"turn", "asleep", "awake", "returning", "failing",
                       "notifying", "leaving"} : at' = [at EXCEPT ![w] = place]
      BY <2>5 DEF SpuriousWakeup, TestTicket, ReturnTicket, Prepare,
        PreparePolicy, PrepareFails, SelectSlotFails, ReadFlags, Goto
    <3>2. QED
      BY <1>1, <3>1 DEF StageInv, TypeOK
  <2>6. QED
    BY <2>1, <2>2, <2>3, <2>4, <2>5 DEF Walks
<1>6. QED
  BY <1>2, <1>4, <1>5


LEMMA WritesStage ==
  ASSUME TypeOK, LineInv, StageInv, ContentInv, NEW w \in Users, Writes(w)
  PROVE  StageInv'
<1>1. Holds(w)
  BY DEF Writes, SetSheet, SetSheetFails, SwitchSlot, Upload, UploadFails,
    Follow, FollowFails, Holds, Leased
<1>2. \A v \in Users \ {w} :
        at[v] \notin {"sheeted", "selected", "updated", "filtering"}
  BY <1>1, Alone DEF Holds, Leased
<1>3. /\ UNCHANGED <<goal, occupancy>>
      /\ \E place \in Stages : at' = [at EXCEPT ![w] = place]
  BY DEF Writes, SetSheet, SetSheetFails, SwitchSlot, Upload, UploadFails,
    Follow, FollowFails, Goto, Stages, Leased
<1>4. \A v \in Users \ {w} : at'[v] = at[v]
  BY <1>3 DEF TypeOK
<1>5. SUFFICES
        /\ at'[w] \in {"sheeted", "selected", "updated", "filtering"} =>
             sheet' = goal[w].sheet
        /\ at'[w] \in {"selected", "updated", "filtering"} => slot' = w
        /\ at'[w] = "selected" => buffer' # NoBitmap
        /\ at'[w] \in {"updated", "filtering"} =>
             buffer' = [masks |-> occupancy[w][goal[w].sheet], ready |-> TRUE]
        /\ at'[w] = "filtering" => material' # "none"
  BY <1>2, <1>3, <1>4 DEF StageInv
<1>6. CASE SetSheet(w)
  BY <1>6 DEF SetSheet, Goto, TypeOK
<1>7. CASE SetSheetFails(w) \/ UploadFails(w) \/ FollowFails(w)
  BY <1>7 DEF SetSheetFails, UploadFails, FollowFails, Goto, TypeOK
<1>8. CASE SwitchSlot(w)
  <2>1. \A b \in Fresh : b # NoBitmap
    BY BitmapIsOne DEF Fresh, Bitmaps
  <2>2. QED
    BY <1>8, <2>1 DEF SwitchSlot, StageInv, Goto, TypeOK
<1>9. CASE Upload(w)
  BY <1>9 DEF Upload, StageInv, Goto, TypeOK
<1>10. CASE Follow(w)
  <2>1. buffer \in Bitmaps /\ slot = w /\ sheet = goal[w].sheet
    BY <1>10 DEF Follow, StageInv, TypeOK
  <2>2. buffer.masks = SymDiff(occupancy[w][sheet], updates[w][sheet])
    BY <1>10, <2>1, BitmapIsOne DEF Follow, ContentInv, Uses, Tracks, TypeOK
  <2>3. SymDiff(buffer.masks, updates[w][sheet]) = occupancy[w][sheet]
    BY <2>2, TogglesCancel
  <2>4. buffer' = [masks |-> occupancy[w][sheet], ready |-> TRUE]
    BY <1>10, <2>1, <2>3 DEF Follow, Bitmaps
  <2>5. QED
    BY <1>10, <2>1, <2>4 DEF Follow, Goto, TypeOK
<1>11. QED
  BY <1>6, <1>7, <1>8, <1>9, <1>10 DEF Writes

LEMMA WritesContent ==
  ASSUME TypeOK, StageInv, ContentInv, SurfaceInv, NEW w \in Users,
         Writes(w), StageInv'
  PROVE  ContentInv'
<1>1. /\ UNCHANGED occupancy
      /\ \E place \in Stages : at' = [at EXCEPT ![w] = place]
      /\ at[w] \in {"turn", "sheeted", "selected"}
  BY DEF Writes, SetSheet, SetSheetFails, SwitchSlot, Upload, UploadFails,
    Follow, FollowFails, Goto, Stages, Leased
<1>2. \A v \in Users : Uses(v)' => Uses(v)
  BY <1>1 DEF Uses, TypeOK
<1>3. CASE SetSheet(w) \/ SetSheetFails(w)
  <2>1. \A v \in Users : saved'[v] = NoBitmap
    BY <1>3 DEF SetSheet, SetSheetFails
  <2>2. buffer' = NoBitmap \/ buffer'.ready = FALSE
    BY <1>3 DEF SetSheet, SetSheetFails, Fresh, TypeOK, Bitmaps
  <2>3. QED
    BY <2>1, <2>2 DEF ContentInv, Tracks
<1>4. CASE SwitchSlot(w)
  <2>1. UNCHANGED <<updates, sheet>>
    BY <1>4 DEF SwitchSlot
  <2>2. PICK kept \in Room(w) :
          saved' = IF Capacity > 1 THEN [kept EXCEPT ![slot] = buffer] ELSE kept
    BY <1>4 DEF SwitchSlot
  <2>3. /\ kept \in [Users -> Bitmaps \cup {NoBitmap}]
        /\ \A v \in Users : kept[v] = saved[v] \/ kept[v] = NoBitmap
    BY RoomTyped DEF Room, TypeOK
  <2>4. \A v \in Users :
          \/ saved'[v] = saved[v] \/ saved'[v] = NoBitmap
          \/ v = slot /\ saved'[v] = buffer
    BY <2>2, <2>3
  <2>5. /\ slot' = w
        /\ \/ buffer' = saved[w] \/ buffer' = NoBitmap \/ buffer'.ready = FALSE
    BY <1>4 DEF SwitchSlot, Fresh
  <2>6. ASSUME NEW v \in Users, Uses(v)'
        PROVE  Tracks(v, saved[v])' /\ (slot' = v => Tracks(v, buffer)')
    <3>1. Tracks(v, saved[v]) /\ (slot = v => Tracks(v, buffer))
      BY <1>2, <2>6 DEF ContentInv
    <3>2. Tracks(v, saved[v])'
      BY <1>1, <2>1, <2>4, <3>1 DEF Tracks
    <3>3. slot' = v => Tracks(v, buffer)'
      BY <1>1, <2>1, <2>5, <3>1 DEF Tracks
    <3>4. QED
      BY <3>2, <3>3
  <2>7. QED
    BY <2>6 DEF ContentInv
<1>5. CASE Upload(w) \/ Follow(w)
  <2>1. /\ UNCHANGED <<sheet, slot, saved, goal>>
        /\ at' = [at EXCEPT ![w] = "updated"]
        /\ updates' = [updates EXCEPT ![w] = [s \in Stocks |-> {}]]
        /\ at[w] = "selected"
    BY <1>5 DEF Upload, Follow, Forget, Goto
  <2>2. buffer' = [masks |-> occupancy[w][goal[w].sheet], ready |-> TRUE]
        /\ slot = w /\ sheet = goal[w].sheet
    BY <1>1, <2>1 DEF StageInv, TypeOK
  <2>3. Tracks(w, buffer)'
    <3>1. SymDiff(occupancy[w][sheet], updates'[w][sheet]) = occupancy[w][sheet]
      BY <2>1, <2>2, TogglesCancel DEF TypeOK
    <3>2. QED
      BY <1>1, <2>1, <2>2, <3>1 DEF Tracks
  <2>4. Tracks(w, saved[w])'
    BY <2>1, <2>2 DEF SurfaceInv, Tracks
  <2>5. ASSUME NEW v \in Users \ {w}, Uses(v)
        PROVE  Tracks(v, saved[v])' /\ slot' # v
    <3>1. updates'[v] = updates[v]
      BY <2>1 DEF TypeOK
    <3>2. QED
      BY <1>1, <2>1, <2>2, <2>5, <3>1 DEF ContentInv, Tracks
  <2>6. QED
    BY <1>2, <2>1, <2>2, <2>3, <2>4, <2>5 DEF ContentInv
<1>6. CASE UploadFails(w) \/ FollowFails(w)
  <2>1. /\ UNCHANGED <<sheet, slot, saved, updates>>
        /\ at' = [at EXCEPT ![w] = "failing"]
        /\ at[w] = "selected"
    BY <1>6 DEF UploadFails, FollowFails, Goto
  <2>2. slot = w /\ ~Uses(w)'
    BY <2>1 DEF StageInv, Uses, TypeOK
  <2>3. QED
    BY <1>1, <1>2, <2>1, <2>2 DEF ContentInv, Tracks
<1>7. QED
  BY <1>3, <1>4, <1>5, <1>6 DEF Writes


LEMMA WritesSurface ==
  ASSUME TypeOK, StageInv, SurfaceInv, NEW w \in Users, Writes(w)
  PROVE  SurfaceInv'
<1>1. CASE SetSheet(w) \/ SetSheetFails(w)
  BY <1>1, BrokerAssumption DEF BrokerAssumption, SetSheet, SetSheetFails,
    SurfaceInv
<1>2. CASE SwitchSlot(w)
  <2>1. PICK kept \in Room(w) :
          saved' = IF Capacity > 1 THEN [kept EXCEPT ![slot] = buffer] ELSE kept
    BY <1>2 DEF SwitchSlot
  <2>2. kept[w] = NoBitmap /\ kept \in [Users -> Bitmaps \cup {NoBitmap}]
    BY RoomTyped DEF Room, TypeOK
  <2>3. saved'[w] = NoBitmap
    BY <1>2, <2>1, <2>2 DEF SwitchSlot
  <2>4. QED
    BY <1>2, <2>3 DEF SwitchSlot, SurfaceInv
<1>3. CASE Upload(w) \/ UploadFails(w) \/ Follow(w) \/ FollowFails(w)
  <2>1. UNCHANGED <<surface, slot, saved>> /\ buffer # NoBitmap
    BY <1>3 DEF Upload, UploadFails, Follow, FollowFails, StageInv
  <2>2. QED
    BY <2>1 DEF SurfaceInv
<1>4. QED
  BY <1>1, <1>2, <1>3 DEF Writes

-----------------------------------------------------------------------------
(* The room on the device.                                                 *)

LEMMA RoomLeft ==
  ASSUME TypeOK, NEW w \in Users, NEW kept \in Room(w)
  PROVE  /\ IsFiniteSet(Present(kept))
         /\ Cardinality(Present(kept)) \in Nat
         /\ Cardinality(Present(kept)) <= IF Capacity < 2 THEN 0 ELSE Capacity - 2
<1> DEFINE others == [saved EXCEPT ![w] = NoBitmap]
           spare == IF Capacity < 2 THEN 0 ELSE Capacity - 2
<1>1. IsFiniteSet(Present(kept)) /\ IsFiniteSet(Present(others))
  BY FS_Subset, BrokerAssumption DEF BrokerAssumption, Present
<1>2. /\ Cardinality(Present(kept)) \in Nat
      /\ Cardinality(Present(others)) \in Nat
  BY <1>1, FS_CardinalityType
<1>3. Cardinality(Present(kept)) =
        IF Cardinality(Present(others)) < spare
        THEN Cardinality(Present(others)) ELSE spare
  BY DEF Room
<1>4. spare \in Nat
  BY BrokerAssumption DEF BrokerAssumption
<1> HIDE DEF spare, others
<1>5. Cardinality(Present(kept)) <= spare
  BY <1>2, <1>3, <1>4
<1>6. QED
  BY <1>1, <1>2, <1>5 DEF spare

LEMMA SwitchRoom ==
  ASSUME TypeOK, NEW w \in Users, SwitchSlot(w)
  PROVE  Cardinality(Present(saved')) \in Nat
         /\ Cardinality(Present(saved')) <= Capacity - 1
<1>1. PICK kept \in Room(w) :
        saved' = IF Capacity > 1 THEN [kept EXCEPT ![slot] = buffer] ELSE kept
  BY DEF SwitchSlot
<1>2. kept \in [Users -> Bitmaps \cup {NoBitmap}]
  BY RoomTyped
<1>3. Capacity \in Nat \ {0} /\ slot \in Users
  BY BrokerAssumption DEF BrokerAssumption, TypeOK
<1>4. CASE Capacity = 1
  BY <1>1, <1>3, <1>4, RoomLeft
<1>5. CASE Capacity > 1
  <2>1. Present(saved') \subseteq Present(kept) \cup {slot}
    BY <1>1, <1>2, <1>5 DEF Present
  <2>2. /\ IsFiniteSet(Present(kept) \cup {slot})
        /\ Cardinality(Present(kept) \cup {slot}) =
             IF slot \in Present(kept) THEN Cardinality(Present(kept))
             ELSE Cardinality(Present(kept)) + 1
    BY RoomLeft, FS_AddElement
  <2>3. /\ IsFiniteSet(Present(saved'))
        /\ Cardinality(Present(saved')) <= Cardinality(Present(kept) \cup {slot})
    BY <2>1, <2>2, FS_Subset, Zenon
  <2>4. Cardinality(Present(saved')) \in Nat
        /\ Cardinality(Present(kept) \cup {slot}) \in Nat
    BY <2>2, <2>3, FS_CardinalityType
  <2>5. QED
    BY <1>3, <1>5, <2>2, <2>3, <2>4, RoomLeft
<1>6. QED
  BY <1>3, <1>4, <1>5

LEMMA StepRoom ==
  ASSUME TypeOK, StageInv, ResidencyBounded, NEW w \in Users, UserStep(w)
  PROVE  ResidencyBounded'
<1>1. Capacity \in Nat \ {0}
  BY BrokerAssumption DEF BrokerAssumption
<1>2. CASE ToggleStock(w) \/ DrawTicket(w) \/ Walks(w)
  <2>1. UNCHANGED slots
    BY <1>2 DEF ToggleStock, DrawTicket, Walks, SpuriousWakeup, TestTicket,
      ReturnTicket, NotifyAll, Prepare, PreparePolicy, PrepareFails, KeepSheet,
      KeepSlot, SelectSlotFails, Dispatch, ReadFlags
  <2>2. QED
    BY <2>1 DEF ResidencyBounded, Present
<1>3. CASE SetSheet(w) \/ SetSheetFails(w)
  <2>1. saved' = [v \in Users |-> NoBitmap]
    BY <1>3 DEF SetSheet, SetSheetFails
  <2>2. Present(saved') = {}
    BY <2>1 DEF Present
  <2>3. Cardinality(Present(saved')) = 0
    BY <2>2, FS_EmptySet
  <2>4. QED
    BY <1>1, <2>3 DEF ResidencyBounded, Present
<1>4. CASE SwitchSlot(w)
  <2>1. Present(saved)' = Present(saved')
    BY DEF Present
  <2>2. QED
    BY <1>1, <1>4, <2>1, SwitchRoom DEF ResidencyBounded
<1>5. CASE Upload(w) \/ UploadFails(w) \/ Follow(w) \/ FollowFails(w)
  <2>1. saved' = saved /\ buffer # NoBitmap
    BY <1>5 DEF Upload, UploadFails, Follow, FollowFails, StageInv
  <2>2. Present(saved)' = Present(saved)
    BY <2>1 DEF Present
  <2>3. IsFiniteSet(Present(saved))
    BY FS_Subset, BrokerAssumption DEF BrokerAssumption, Present
  <2>4. Cardinality(Present(saved)) \in Nat
    BY <2>3, FS_CardinalityType
  <2>5. QED
    BY <1>1, <2>1, <2>2, <2>4 DEF ResidencyBounded
<1>6. QED
  BY <1>2, <1>3, <1>4, <1>5, StepCases DEF Writes


-----------------------------------------------------------------------------
(* The lease is handed on.                                                 *)

LEMMA StepLease ==
  ASSUME TypeOK, LineInv, LineInv', LeaseMovesOn, NEW w \in Users, UserStep(w),
         TypeOK'
  PROVE  LeaseMovesOn'
<1> SUFFICES ASSUME line' # <<>>, at'[line'[1]] = "asleep"
             PROVE  \E v \in Users : at'[v] \in {"notifying", "leaving"}
  <2>1. line' # <<>> =>
          /\ Head(line') = line'[1]
          /\ at'[line'[1]] \in Leased \cup {"returning", "failing", "awake",
                                            "asleep"}
    <3> SUFFICES ASSUME line' # <<>>
                 PROVE  /\ Head(line') = line'[1]
                        /\ at'[line'[1]] \in Leased \cup
                             {"returning", "failing", "awake", "asleep"}
      OBVIOUS
    <3>1. 1 \in 1 .. Len(line') /\ line'[1] \in Users /\ Head(line') = line'[1]
      BY DEF TypeOK
    <3>2. QED
      BY <3>1 DEF LineInv, Holds, Waits
  <2>2. QED
    BY <2>1 DEF LeaseMovesOn
<1>1. 1 \in 1 .. Len(line') /\ line'[1] \in Users
  BY DEF TypeOK
<1>2. CASE DrawTicket(w)
  <2>1. /\ at[w] = "cpu"
        /\ line' = Append(line, w)
        /\ at' = [at EXCEPT ![w] = IF line = <<>> THEN "turn" ELSE "asleep"]
    BY <1>2 DEF DrawTicket, Goto
  <2>2. line # <<>>
    BY <2>1 DEF TypeOK
  <2>3. line'[1] = line[1] /\ 1 \in 1 .. Len(line) /\ Head(line) = line[1]
    BY <2>1, <2>2 DEF TypeOK
  <2>4. line[1] # w /\ line[1] \in Users
    BY <1>1, <2>1, <2>3 DEF LineInv, Holds, Waits, Leased
  <2>5. at[line[1]] = "asleep"
    BY <2>1, <2>3, <2>4 DEF TypeOK
  <2>6. PICK v \in Users : at[v] \in {"notifying", "leaving"}
    BY <2>2, <2>3, <2>5 DEF LeaseMovesOn, Leased
  <2>7. at'[v] = at[v]
    BY <2>1, <2>6 DEF TypeOK
  <2>8. QED
    BY <2>6, <2>7
<1>3. CASE ReturnTicket(w)
  BY <1>3 DEF ReturnTicket, Goto, TypeOK
<1>4. CASE NotifyAll(w)
  BY <1>1, <1>4 DEF NotifyAll
<1>5. CASE ~DrawTicket(w) /\ ~ReturnTicket(w) /\ ~NotifyAll(w)
  <2>1. /\ line' = line
        /\ at[w] \notin {"notifying", "leaving"}
        /\ \/ at' = at
           \/ /\ at' = [at EXCEPT ![w] = "asleep"]
              /\ Head(line) # w
           \/ \E place \in Stages \ {"asleep"} : at' = [at EXCEPT ![w] = place]
    <3>1. CASE ToggleStock(w)
      BY <3>1 DEF ToggleStock
    <3>2. CASE Writes(w)
      BY <3>2 DEF Writes, SetSheet, SetSheetFails, SwitchSlot, Upload,
        UploadFails, Follow, FollowFails, Goto, Leased, Stages
    <3>3. CASE TestTicket(w)
      BY <3>3 DEF TestTicket, Goto, Leased, Stages
    <3>4. CASE Walks(w) /\ ~TestTicket(w)
      BY <1>5, <3>4 DEF Walks, SpuriousWakeup, Prepare, PreparePolicy,
        PrepareFails, KeepSheet, KeepSlot, SelectSlotFails, Dispatch,
        ReadFlags, Goto, Leased, Stages
    <3>5. QED
      BY <1>5, <3>1, <3>2, <3>3, <3>4, StepCases
  <2>2. Head(line) = line[1] /\ line[1] \in Users
    BY <1>1, <2>1
  <2>3. at[line[1]] = "asleep"
    BY <2>1, <2>2 DEF TypeOK
  <2>4. PICK v \in Users : at[v] \in {"notifying", "leaving"}
    BY <2>1, <2>2, <2>3 DEF LeaseMovesOn, Leased
  <2>5. at'[v] = at[v]
    BY <2>1, <2>4 DEF TypeOK
  <2>6. QED
    BY <2>4, <2>5
<1>6. QED
  BY <1>2, <1>3, <1>4, <1>5

-----------------------------------------------------------------------------
(* The theorems.                                                           *)

IInv ==
  /\ TypeOK /\ LineInv /\ LeaseMovesOn
  /\ StageInv /\ ContentInv /\ SurfaceInv /\ ResidencyBounded

LEMMA InitIInv == Init => IInv
<1> SUFFICES ASSUME Init PROVE IInv
  OBVIOUS
<1>1. TypeOK
  BY InitTyped
<1>2. LineInv /\ LeaseMovesOn
  BY DEF Init, LineInv, LeaseMovesOn, Holds, Waits, Leased
<1>3. StageInv /\ ContentInv /\ SurfaceInv
  BY BrokerAssumption DEF BrokerAssumption, Init, StageInv, ContentInv, Tracks,
    SurfaceInv
<1>4. ResidencyBounded
  <2>1. Present(saved) = {} /\ buffer = NoBitmap
    BY DEF Init, Present
  <2>2. Cardinality(Present(saved)) = 0
    BY <2>1, FS_EmptySet
  <2>3. QED
    BY <2>1, <2>2, BrokerAssumption DEF BrokerAssumption, ResidencyBounded
<1>5. QED
  BY <1>1, <1>2, <1>3, <1>4 DEF IInv

LEMMA StepIInv == IInv /\ [Next]_vars => IInv'
<1> SUFFICES ASSUME IInv, [Next]_vars PROVE IInv'
  OBVIOUS
<1> USE DEF IInv
<1>1. CASE UNCHANGED vars
  BY <1>1 DEF vars, TypeOK, LineInv, LeaseMovesOn, StageInv, ContentInv,
    SurfaceInv, ResidencyBounded, Holds, Waits, Uses, Tracks, Present
<1>2. CASE Next
  <2>1. PICK w \in Users : UserStep(w)
    BY <1>2 DEF Next, UserStep
  <2>2. LineInv'
    BY <2>1, StepLine
  <2>3. ResidencyBounded'
    BY <2>1, StepRoom
  <2>4. TypeOK'
    <3>1. at[w] = "selected" => buffer # NoBitmap
      BY DEF StageInv
    <3>2. QED
      BY <2>1, <3>1, StepCases, ToggleTyped, DrawTicketTyped, WalksTyped,
        WritesTyped
  <2>5. StageInv' /\ ContentInv' /\ SurfaceInv'
    <3>1. CASE Writes(w)
      BY <3>1, WritesStage, WritesContent, WritesSurface
    <3>2. CASE ~Writes(w)
      BY <2>1, <3>2, StepCases, ToggleDevice, DrawTicketDevice, WalksDevice
    <3>3. QED
      BY <3>1, <3>2
  <2>6. LeaseMovesOn'
    BY <2>1, <2>2, <2>4, StepLease
  <2>7. QED
    BY <2>2, <2>3, <2>4, <2>5, <2>6
<1>3. QED
  BY <1>1, <1>2

\* The fields of the broker, of the device and of the workers that share it
\* keep their types.
THEOREM TypeCorrect == Spec => []TypeOK
<1>1. IInv => TypeOK
  BY DEF IInv
<1>2. QED
  BY <1>1, InitIInv, StepIInv, PTL DEF Spec

\* A batch is filtered against the bitmap and the sheet of its worker, and by
\* one worker at a time, however the others use the device and fail with it.
THEOREM FlagsTrueAlways == Spec => []FlagsTrue
<1>1. IInv => FlagsTrue
  <2> SUFFICES ASSUME IInv, NEW w \in Users, at[w] = "filtering"
               PROVE  /\ material = goal[w].sheet
                      /\ buffer = [masks |-> occupancy[w][goal[w].sheet],
                                   ready |-> TRUE]
                      /\ \A v \in Users \ {w} : at[v] \notin Leased
    BY DEF FlagsTrue
  <2>1. buffer = [masks |-> occupancy[w][goal[w].sheet], ready |-> TRUE]
    BY DEF IInv, StageInv
  <2>2. material = goal[w].sheet
    <3>1. buffer \in Bitmaps
      BY <2>1 DEF IInv, TypeOK, Bitmaps
    <3>2. QED
      BY <3>1, BitmapIsOne DEF IInv, StageInv, SurfaceInv
  <2>3. \A v \in Users \ {w} : at[v] \notin Leased
    BY Alone DEF IInv, Holds, Leased
  <2>4. QED
    BY <2>1, <2>2, <2>3
<1>2. QED
  BY <1>1, InitIInv, StepIInv, PTL DEF Spec

\* The device holds no more bitmaps than it has room for.
THEOREM ResidencyBoundedAlways == Spec => []ResidencyBounded
<1>1. IInv => ResidencyBounded
  BY DEF IInv
<1>2. QED
  BY <1>1, InitIInv, StepIInv, PTL DEF Spec

\* The worker whose turn it is has the lease or learns that it may take it.
THEOREM LeaseMovesOnAlways == Spec => []LeaseMovesOn
<1>1. IInv => LeaseMovesOn
  BY DEF IInv
<1>2. QED
  BY <1>1, InitIInv, StepIInv, PTL DEF Spec

=============================================================================
