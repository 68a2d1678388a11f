---------------------------- MODULE RecursiveSearch ----------------------------
(***************************************************************************)
(* recursiveBitmapSearch and parallelRecursiveSearch: a depth-first search *)
(* over all placements of the parts on a raster, with an explicit stack.   *)
(* A part is placed on the candidate of the next set flag of a batch that  *)
(* was filtered when its frame reached it, or it is skipped.  Interchange- *)
(* able copies are placed in the order of their candidates, and once one   *)
(* of them is skipped the others are skipped as well.                      *)
(*                                                                         *)
(* A batch is filtered on the device, whose bitmap follows the search by   *)
(* toggles, or on the CPU once the device has failed.  What other workers  *)
(* do to the device between two batches is the business of GpuBroker: here *)
(* the bitmap may be gone at any time.                                     *)
(*                                                                         *)
(* Pixels are pairs.  A mask is its pixels, the pixels that the geometry   *)
(* really needs (core: a raster is conservative), and the core with the    *)
(* part spacing on two of its sides (halo): parts keep their spacing when  *)
(* their halos are disjoint.  A sheet is its pixels, and those of them     *)
(* that keep the sheet spacing (inner), which is in whole pixels.  A part  *)
(* is its policy, the sequence of the masks of its allowed angles.  The    *)
(* workers share no search state: they run one after the other here.       *)
(* Which of two layouts with equally many parts is better is arbitrary.    *)
(***************************************************************************)
EXTENDS Naturals, Sequences, FiniteSets, FiniteSetsExt, SequencesExt

CONSTANTS Problems,   \* the inputs: records of the parts, the sheets, the
                      \* step of the lattice and the sheet spacing
          Flows,      \* the directions in which a sheet may be filled
          Brokers,    \* whether there is a device: a set of Booleans
          Threads,    \* config.threads
          FirstBatch, \* the size of a frame's first batch
          MaxBatch    \* config.gpuBatchSize

Points == Nat \X Nat
MaskRecords == [w : Nat, h : Nat, pixels : SUBSET Points, core : SUBSET Points,
                halo : SUBSET Points]
SheetRecords == [w : Nat, h : Nat, pixels : SUBSET Points, inner : SUBSET Points]
Policies == Seq(MaskRecords) \ {<<>>}

\* There is a part to place, and every part has an allowed angle
\* (bitmap_nesting.cpp:1994).
ASSUME SearchAssumption ==
  /\ \A p \in Problems :
       /\ p.parts \in Seq(Policies) \ {<<>>}
       /\ p.sheets \in Seq(SheetRecords)
       /\ p.step \in Nat \ {0}
       /\ p.spacing \in Nat
  /\ Threads \in Nat \ {0}
  /\ FirstBatch \in Nat \ {0} /\ MaxBatch \in Nat \ {0}
  /\ Flows \subseteq {"automatic", "left", "right", "bottom", "top"}
  /\ Brokers \subseteq BOOLEAN

VARIABLES problem, flow, broker,  \* the input
          worker,     \* the worker whose turn it is
          stack,      \* stack
          placed,     \* the placements on all stocks
          occupied,   \* stock.occupied of each sheet
          gpu,        \* the worker's device, its bitmap there, and gpuUpdates
          excluded,   \* excluded, for each policy
          best,       \* bestCount
          layout,     \* the placements of the worker's best layout
          overall,    \* the largest number of parts any worker has placed
          exhausted,  \* no worker was interrupted so far
          phase       \* "searching", "done", or "failed" with an exception

input == <<problem, flow, broker>>
tree == <<placed, occupied, gpu>>
result == <<best, layout, overall>>
searchVars == <<input, worker, stack, tree, excluded, result, exhausted, phase>>

Parts == problem.parts
Sheets == problem.sheets
Workers == Min({Threads, Len(Parts[1])})

Frame == [sheet |-> 1, next |-> 0, first |-> 0, cursor |-> 0,
          size |-> FirstBatch, flags |-> <<>>, skipVisited |-> FALSE,
          active |-> FALSE, initialized |-> FALSE, index |-> 0,
          chosen |-> [x |-> 0, y |-> 0, r |-> 0]]

\* A worker that has no bitmap on the device yet.
NoUpdates == [s \in DOMAIN Sheets |-> {}]
Gpu(on) == [on |-> on, sheet |-> 0, bits |-> {}, updates |-> NoUpdates]

\* Every variable keeps its type.
SearchTyped ==
  /\ worker \in 0 .. Workers - 1
  /\ Len(stack) <= Len(Parts) + 1
  /\ placed \subseteq [part : 1 .. Len(Parts), sheet : 1 .. Len(Sheets),
                       r : Nat, x : Nat, y : Nat]
  /\ gpu.on => broker
  /\ gpu.sheet \in 0 .. Len(Sheets)
  /\ excluded \in [Range(Parts) -> Nat]
  /\ best \in 0 .. Len(Parts)
  /\ overall \in 0 .. Len(Parts)
  /\ exhausted \in BOOLEAN
  /\ phase \in {"searching", "done", "failed"}

SearchInit ==
  /\ problem \in Problems
  /\ flow \in Flows
  /\ broker \in Brokers
  /\ worker = 0
  /\ stack = <<Frame>>
  /\ placed = {}
  /\ occupied = [s \in DOMAIN Sheets |-> {}]
  /\ gpu = Gpu(broker)
  /\ excluded = [p \in Range(Parts) |-> 0]
  /\ best = 0
  /\ layout = {}
  /\ overall = 0
  /\ exhausted = TRUE
  /\ phase = "searching"

-----------------------------------------------------------------------------
(* The candidates of a frame at a depth, numbered from 0.                  *)

Depth == Len(stack)
Top == stack[Depth]

\* A worker of several tries its share of the root's angles.
RootFirst == (Len(Parts[1]) * worker) \div Workers
RootCount == ((Len(Parts[1]) * (worker + 1)) \div Workers) - RootFirst
Shares == Depth = 1 /\ Workers > 1
FirstMask == IF Shares THEN RootFirst ELSE 0
MaskCount == IF Shares THEN RootCount ELSE Len(Parts[Depth])

\* The sheet spacing, in whole steps of the lattice.
EdgeOf(p) == ((p.spacing + p.step - 1) \div p.step) * p.step
Edge == EdgeOf(problem)

\* How many lattice positions a side has for the smallest mask.
Positions(p, side, smallest) ==
  IF side < 2 * EdgeOf(p) + smallest THEN 0
  ELSE ((side - 2 * EdgeOf(p) - smallest) \div p.step) + 1

\* The lattice of a part on a sheet.
ColumnsOf(p, i, s) ==
  Positions(p, p.sheets[s].w, Min({mask.w : mask \in Range(p.parts[i])}))
RowsOf(p, i, s) ==
  Positions(p, p.sheets[s].h, Min({mask.h : mask \in Range(p.parts[i])}))
Columns(s) == ColumnsOf(problem, Depth, s)
Rows(s) == RowsOf(problem, Depth, s)
Total(s) == Columns(s) * Rows(s) * MaskCount

\* The pixel of a column and a row of the lattice.
Lattice(column, row) ==
  [x |-> column * problem.step + Edge, y |-> row * problem.step + Edge]

\* FillOrder::origin: the position that is tested for a cell of the lattice.
Origin(s, cell) ==
  LET byColumn == flow \in {"automatic", "left", "right"}
      x == IF byColumn THEN cell \div Rows(s) ELSE cell % Columns(s)
      y == IF byColumn THEN cell % Rows(s) ELSE cell \div Columns(s)
  IN Lattice(IF flow = "right" THEN Columns(s) - 1 - x ELSE x,
             IF flow = "top" THEN Rows(s) - 1 - y ELSE y)

\* Mutant: the cells are numbered by rows here.
DecodeByRow(s, cell) == Lattice(cell % Columns(s), cell \div Columns(s))

\* The position that is committed for a cell of the lattice.
Decode(s, cell) == Lattice(cell \div Rows(s), cell % Rows(s))

\* The position that the device tests: without a fill direction its kernel
\* computes the position, otherwise it is given the candidates.
DeviceOrigin(s, cell) ==
  IF flow = "automatic" THEN Lattice(cell \div Rows(s), cell % Rows(s))
  ELSE Origin(s, cell)

Shifted(pixels, at) == {<<p[1] + at.x, p[2] + at.y>> : p \in pixels}

\* maskFits, and fits of the kernel.
MaskFits(bits, s, r, at) ==
  LET pixels == Shifted(Parts[Depth][r + 1].pixels, at)
  IN pixels \subseteq Sheets[s].pixels /\ pixels \cap bits = {}

Core(p) == Shifted(Parts[p.part][p.r + 1].core, p)
Halo(p) == Shifted(Parts[p.part][p.r + 1].halo, p)
Pixels(p) == Shifted(Parts[p.part][p.r + 1].pixels, p)

\* violatesSheetClearance and violatesPartClearance are false.
ExactlyFits(p) ==
  /\ Core(p) \subseteq Sheets[p.sheet].inner
  /\ \A q \in placed : q.sheet = p.sheet => Halo(p) \cap Halo(q) = {}

\* The worker's bitmap changes, and the device will have to follow.
Toggle(p) ==
  /\ occupied' = [occupied EXCEPT ![p.sheet] = SymDiff(@, Pixels(p))]
  /\ gpu' = IF gpu.on
            THEN [gpu EXCEPT !.updates[p.sheet] = SymDiff(@, Pixels(p))]
            ELSE gpu

-----------------------------------------------------------------------------
(* The iterations of the loop, on the topmost frame.  An iteration may     *)
(* undo, filter and commit: these are steps of their own, as nothing but   *)
(* the end of the search can come between them.                            *)

Searching == phase = "searching" /\ stack # <<>>
Ready == Searching /\ ~Top.active

SetTop(frame) == [stack EXCEPT ![Depth] = frame]
Pop == SubSeq(stack, 1, Depth - 1)

\* publish(), for the given placements.
Publish(placements) ==
  LET count == Cardinality(placements)
  IN \/ /\ count >= best
        /\ best' = count
        /\ layout' = placements
        /\ overall' = Max({overall, count})
     \/ /\ count <= best /\ best > 0
        /\ UNCHANGED result

\* Mutant: the placement stays in the stock's list.
BacktrackKeepsPart ==
  /\ Searching
  /\ Top.active
  /\ \E p \in placed : p.part = Depth /\ Toggle(p)
  /\ stack' = SetTop([Top EXCEPT !.active = FALSE])
  /\ UNCHANGED <<input, worker, placed, excluded, result, exhausted, phase>>

Backtrack ==
  /\ Searching
  /\ Top.active
  /\ \E p \in placed :
       /\ p.part = Depth
       /\ Toggle(p)
       /\ placed' = placed \ {p}
  /\ stack' = SetTop([Top EXCEPT !.active = FALSE])
  /\ UNCHANGED <<input, worker, excluded, result, exhausted, phase>>

\* No part is left, or not enough to reach the best count.
Bounded ==
  \/ Depth > Len(Parts)
  \/ Cardinality(placed) + (Len(Parts) + 1 - Depth) < best

Available == {i \in Depth .. Len(Parts) : excluded[Parts[i]] = 0}

Hopeless ==
  \/ Bounded
  \/ /\ ~Top.initialized
     /\ Available = {} \/ Cardinality(placed) + Cardinality(Available) < best

Cut ==
  /\ Ready
  /\ Hopeless
  /\ Publish(placed)
  /\ stack' = Pop
  /\ UNCHANGED <<input, worker, tree, excluded, exhausted, phase>>

\* The nearest placed copy of this part, if any.
Copies == {i \in 1 .. Depth - 1 :
             stack[i].active /\ Parts[i] = Parts[Depth]}

Begin ==
  /\ Ready
  /\ ~Hopeless
  /\ ~Top.initialized
  /\ stack' = SetTop(
       IF excluded[Parts[Depth]] > 0
       THEN [Top EXCEPT !.initialized = TRUE, !.sheet = Len(Sheets) + 1]
       ELSE IF Copies # {}
       THEN [Top EXCEPT !.initialized = TRUE,
                        !.sheet = stack[Max(Copies)].sheet,
                        !.next = stack[Max(Copies)].index + 1]
       ELSE [Top EXCEPT !.initialized = TRUE])
  /\ UNCHANGED <<input, worker, tree, excluded, result, exhausted, phase>>

\* The frame has a sheet to look at, or none is left.
OnSheet == Ready /\ ~Bounded /\ Top.initialized /\ Top.sheet <= Len(Sheets)
OffSheets == Ready /\ ~Bounded /\ Top.initialized /\ Top.sheet > Len(Sheets)

\* Worker 0 owns the branch in which the first part is skipped.
SkipNotOwned ==
  /\ OffSheets
  /\ Depth = 1 /\ Workers > 1 /\ RootFirst # 0
  /\ stack' = Pop
  /\ UNCHANGED <<input, worker, tree, excluded, result, exhausted, phase>>

SkipOwned == OffSheets /\ ~(Depth = 1 /\ Workers > 1 /\ RootFirst # 0)

\* Mutant: the frame does not remember that it was skipped.
SkipForgets ==
  /\ SkipOwned
  /\ ~Top.skipVisited
  /\ excluded' = [excluded EXCEPT ![Parts[Depth]] = 1]
  /\ stack' = Append(stack, Frame)
  /\ UNCHANGED <<input, worker, tree, result, exhausted, phase>>

Skip ==
  /\ SkipOwned
  /\ ~Top.skipVisited
  /\ excluded' = [excluded EXCEPT ![Parts[Depth]] = @ + 1]
  /\ stack' = Append(SetTop([Top EXCEPT !.skipVisited = TRUE]), Frame)
  /\ UNCHANGED <<input, worker, tree, result, exhausted, phase>>

\* Mutant: the copies stay excluded when the frame is left.
LeaveExcluded ==
  /\ SkipOwned
  /\ Top.skipVisited
  /\ stack' = Pop
  /\ UNCHANGED <<input, worker, tree, excluded, result, exhausted, phase>>

Leave ==
  /\ SkipOwned
  /\ Top.skipVisited
  /\ excluded' = [excluded EXCEPT ![Parts[Depth]] = @ - 1]
  /\ stack' = Pop
  /\ UNCHANGED <<input, worker, tree, result, exhausted, phase>>

AllScanned == Top.cursor = Len(Top.flags)

NextSheet ==
  /\ OnSheet
  /\ Total(Top.sheet) = 0 \/ (AllScanned /\ Top.next = Total(Top.sheet))
  /\ stack' = SetTop([Top EXCEPT !.sheet = @ + 1, !.next = 0, !.flags = <<>>,
                                 !.cursor = 0, !.size = FirstBatch])
  /\ UNCHANGED <<input, worker, tree, excluded, result, exhausted, phase>>

\* The flag of candidate i: its mask fits at its origin.
Flag(s, i) ==
  MaskFits(occupied[s], s, FirstMask + (i % MaskCount), Origin(s, i \div MaskCount))
DeviceFlag(bits, s, i) ==
  MaskFits(bits, s, FirstMask + (i % MaskCount), DeviceOrigin(s, i \div MaskCount))

Filtering == OnSheet /\ AllScanned /\ Top.next < Total(Top.sheet)

Limit == Min({MaxBatch, Top.size})
Batch == Min({Limit, Total(Top.sheet) - Top.next})

\* The frame with the flags of its next batch.
Filtered(flags) ==
  [Top EXCEPT !.first = Top.next,
              !.next = @ + Batch,
              !.cursor = 0,
              !.size = Min({MaxBatch, Limit * 2}),
              !.flags = flags]

Filter ==
  /\ Filtering
  /\ ~gpu.on
  /\ stack' = SetTop(Filtered([i \in 1 .. Batch |->
                               Flag(Top.sheet, Top.next + i - 1)]))
  /\ UNCHANGED <<input, worker, tree, excluded, result, exhausted, phase>>

\* The bitmap of the worker that the device filters against: the one of the
\* last batch, if it was on the same sheet and is still there, brought up to
\* date by the toggles since then, or a new one.
DeviceBits ==
  {occupied[Top.sheet]} \cup
  (IF gpu.sheet = Top.sheet
   THEN {SymDiff(gpu.bits, gpu.updates[Top.sheet])} ELSE {})

\* Mutant: the toggles are kept for the next batch.
FilterKeepsUpdates ==
  /\ Filtering
  /\ gpu.on
  /\ \E bits \in DeviceBits :
       /\ gpu' = [gpu EXCEPT !.sheet = Top.sheet, !.bits = bits]
       /\ stack' = SetTop(Filtered(
            [i \in 1 .. Batch |->
               DeviceFlag(bits, Top.sheet, Top.next + i - 1)]))
  /\ UNCHANGED <<input, worker, placed, occupied, excluded, result, exhausted, phase>>

FilterOnDevice ==
  /\ Filtering
  /\ gpu.on
  /\ \E bits \in DeviceBits :
       /\ gpu' = [gpu EXCEPT !.sheet = Top.sheet, !.bits = bits,
                             !.updates = NoUpdates]
       /\ stack' = SetTop(Filtered(
            [i \in 1 .. Batch |->
               DeviceFlag(bits, Top.sheet, Top.next + i - 1)]))
  /\ UNCHANGED <<input, worker, placed, occupied, excluded, result, exhausted, phase>>

\* gpuFailure: the worker goes on without the device.  What is left of its
\* updates is not looked at again.
DeviceFails ==
  /\ Filtering
  /\ gpu.on
  /\ gpu' = Gpu(FALSE)
  /\ UNCHANGED <<input, worker, stack, placed, occupied, excluded, result,
                 exhausted, phase>>

Hits == {c \in Top.cursor + 1 .. Len(Top.flags) : Top.flags[c]}

NoHit ==
  /\ OnSheet
  /\ ~AllScanned
  /\ Hits = {}
  /\ stack' = SetTop([Top EXCEPT !.cursor = Len(Top.flags)])
  /\ UNCHANGED <<input, worker, tree, excluded, result, exhausted, phase>>

\* The next candidate whose flag is set.
Hit == Top.first + Min(Hits) - 1
HitMask == FirstMask + (Hit % MaskCount)
HitPlacement ==
  LET at == Decode(Top.sheet, Hit \div MaskCount)
  IN [part |-> Depth, sheet |-> Top.sheet, r |-> HitMask, x |-> at.x, y |-> at.y]

RejectHit ==
  /\ OnSheet
  /\ Hits # {}
  /\ ~ExactlyFits(HitPlacement)
  /\ stack' = SetTop([Top EXCEPT !.cursor = Min(Hits)])
  /\ UNCHANGED <<input, worker, tree, excluded, result, exhausted, phase>>

\* The index that copies continue from counts all angles of the policy.
Commit ==
  /\ OnSheet
  /\ Hits # {}
  /\ ExactlyFits(HitPlacement)
  /\ Toggle(HitPlacement)
  /\ placed' = placed \cup {HitPlacement}
  /\ stack' = Append(SetTop(
       [Top EXCEPT !.cursor = Min(Hits),
                   !.active = TRUE,
                   !.chosen = [x |-> HitPlacement.x, y |-> HitPlacement.y,
                               r |-> HitMask],
                   !.index = (Hit \div MaskCount) * Len(Parts[Depth]) + HitMask]), Frame)
  /\ Publish(placed \cup {HitPlacement})
  /\ UNCHANGED <<input, worker, excluded, exhausted, phase>>

-----------------------------------------------------------------------------

\* The stack is empty: the worker has exhausted its tree.
NextWorker ==
  /\ phase = "searching" /\ stack = <<>>
  /\ worker < Workers - 1
  /\ worker' = worker + 1
  /\ stack' = <<Frame>>
  /\ best' = 0
  /\ layout' = {}
  /\ gpu' = Gpu(broker)
  /\ UNCHANGED <<input, placed, occupied, excluded, overall, exhausted, phase>>

AllExhausted ==
  /\ phase = "searching" /\ stack = <<>>
  /\ worker = Workers - 1
  /\ phase' = "done"
  /\ UNCHANGED <<input, worker, stack, tree, excluded, result, exhausted>>

\* SearchTimeExpired
Expire ==
  /\ phase = "searching"
  /\ phase' = "done"
  /\ exhausted' = FALSE
  /\ UNCHANGED <<input, worker, stack, tree, excluded, result>>

\* A worker throws, or the device fails and the CPU may not take over: the
\* other workers are stopped, and the search reports the exception.
Throw ==
  /\ phase = "searching"
  /\ phase' = "failed"
  /\ UNCHANGED <<input, worker, stack, tree, excluded, result, exhausted>>

Step == \/ Backtrack \/ Cut \/ Begin \/ SkipNotOwned \/ Skip \/ Leave
        \/ NextSheet \/ Filter \/ FilterOnDevice \/ NoHit \/ RejectHit \/ Commit
        \/ NextWorker \/ AllExhausted

SearchNext == Step \/ DeviceFails \/ Throw \/ Expire

SearchSpec == SearchInit /\ [][SearchNext]_searchVars /\ WF_searchVars(Step)

-----------------------------------------------------------------------------
(* Properties.                                                             *)

\* "XOR is reversible because a committed mask never overlaps occupied
\* pixels" (recursive_bitmap_search.hpp:99): the occupied pixels of a sheet
\* are those of its masks, and masks do not overlap.
MasksDisjoint ==
  \A s \in DOMAIN Sheets :
    LET here == {p \in placed : p.sheet = s}
    IN /\ occupied[s] = UNION {Pixels(p) : p \in here}
       /\ \A p, q \in here : p # q => Pixels(p) \cap Pixels(q) = {}

\* "A frame retains its GPU flags while all child branches are explored"
\* (recursive_bitmap_search.hpp:114): when it goes on, they are still right,
\* whichever of device and CPU computed them, before or after a failure.
FlagsFresh ==
  OnSheet => \A c \in Top.cursor + 1 .. Len(Top.flags) :
               Top.flags[c] = Flag(Top.sheet, Top.first + c - 1)

\* The stack of frames is one that a recursion could have built.
FramesSound == SearchTyped /\ FlagsFresh

\* The reported layout places every part at most once, and as many as it says.
BestValid ==
  /\ Cardinality(layout) = best
  /\ \A p, q \in layout : p # q =>
       p.part # q.part /\ (p.sheet = q.sheet => Halo(p) \cap Halo(q) = {})
  /\ \A p \in layout : Core(p) \subseteq Sheets[p.sheet].inner

\* The lattice covers the sheet up to its border.
OnLattice(side) == {x \in 0 .. side - 1 : x % problem.step = 0}

\* Every assignment of lattice positions to some of the parts.
Nowhere == [sheet |-> 0, r |-> 0, x |-> 0, y |-> 0]
Places ==
  {Nowhere} \cup
  UNION {{[sheet |-> s, r |-> r, x |-> x, y |-> y] :
            r \in 0 .. Max({Len(p) : p \in Range(Parts)}) - 1,
            x \in OnLattice(Sheets[s].w), y \in OnLattice(Sheets[s].h)} :
         s \in DOMAIN Sheets}

IsLayout(f) ==
  LET At(i) == [part |-> i, sheet |-> f[i].sheet, r |-> f[i].r,
                x |-> f[i].x, y |-> f[i].y]
  IN /\ \A i \in DOMAIN f : f[i] # Nowhere =>
          /\ f[i].r < Len(Parts[i])
          /\ Pixels(At(i)) \subseteq Sheets[f[i].sheet].pixels
          /\ Core(At(i)) \subseteq Sheets[f[i].sheet].inner
     /\ \A i, j \in DOMAIN f :
          i # j /\ f[i] # Nowhere /\ f[i].sheet = f[j].sheet =>
            /\ Pixels(At(i)) \cap Pixels(At(j)) = {}
            /\ Halo(At(i)) \cap Halo(At(j)) = {}

\* An exhausted search has found the largest number of parts that any layout
\* places: neither the bounds, nor the treatment of copies "already covered
\* with the earlier ID" (:236), nor the root ranges that "cover the same
\* finite tree" (:374) lose a part.
Complete ==
  phase = "done" /\ exhausted =>
    \A f \in [DOMAIN Parts -> Places] :
      IsLayout(f) => Cardinality({i \in DOMAIN f : f[i] # Nowhere}) <= overall

\* A problem whose lattices miss nothing: a mask has pixels, and where a part
\* fits on a sheet at a multiple of the step, it is tried.
Reached(p) ==
  \A i \in DOMAIN p.parts : \A r \in DOMAIN p.parts[i] :
    LET mask == p.parts[i][r]
    IN /\ mask.pixels # {}
       /\ \A s \in DOMAIN p.sheets :
          \A x \in 0 .. p.sheets[s].w - 1, y \in 0 .. p.sheets[s].h - 1 :
            /\ x % p.step = 0 /\ y % p.step = 0
            /\ Shifted(mask.pixels, [x |-> x, y |-> y]) \subseteq p.sheets[s].pixels
            /\ Shifted(mask.core, [x |-> x, y |-> y]) \subseteq p.sheets[s].inner
            => /\ \E c \in 0 .. ColumnsOf(p, i, s) - 1 : x = c * p.step + EdgeOf(p)
               /\ \E c \in 0 .. RowsOf(p, i, s) - 1 : y = c * p.step + EdgeOf(p)

\* The problems for which they miss nothing: the border is as wide as the
\* spacing, and masks, and their cores if there is a spacing, reach the four
\* sides of their boxes.
Spans(pixels, mask) ==
  /\ \E q \in pixels : q[1] = 0
  /\ \E q \in pixels : q[1] = mask.w - 1
  /\ \E q \in pixels : q[2] = 0
  /\ \E q \in pixels : q[2] = mask.h - 1
Within(pixels, sheet, gap) ==
  \A q \in pixels : /\ q[1] \in gap .. sheet.w - gap - 1
                    /\ q[2] \in gap .. sheet.h - gap - 1
Aligned(p) ==
  /\ p.spacing % p.step = 0
  /\ \A s \in DOMAIN p.sheets : /\ Within(p.sheets[s].pixels, p.sheets[s], 0)
                                /\ Within(p.sheets[s].inner, p.sheets[s], p.spacing)
  /\ \A i \in DOMAIN p.parts : \A r \in DOMAIN p.parts[i] :
       /\ Spans(p.parts[i][r].pixels, p.parts[i][r])
       /\ p.spacing = 0 \/ Spans(p.parts[i][r].core, p.parts[i][r])

\* The search ends.
Terminates == <>(phase # "searching")

=============================================================================
