# CLI-nesting: TLA+ models

CLI-nesting places polygonal parts on sheets. A session can run until the user
stops it: several searches compete, a reporting thread saves every improvement
to numbered files, and a second thread keeps one root JSON up to date. Most of
what is hard to test in it is what the threads, the file operations and the
stop hooks do to one another, and what a search that is interrupted, undone or
cached leaves behind. These modules model those parts, TLC checks them on small
instances, and TLAPS proves the central invariants for every instance.

Paths in this file are relative to the root of the repository; line numbers in
`PROJECT.json` and in comments refer to the commit these modules stand beside.
`PROJECT.json` lists the components, the runs, the source lines of every
definition (`map`), the findings, the hazards and the theorems.

    tlc -config MCSheetTrial.cfg MCSheetTrial     # model-check one module
    tlapm SheetTrialProofs.tla                    # check its proofs

## 1. The system

### Components, their state and their operations

| Component (source) | State | Operations | Module |
|---|---|---|---|
| `LatestResultPublisher` (`src/latest_result_publisher.hpp`) | slot `pending_`, `closing_`, `error_`, `failed_`, one worker thread | `submit`, `close`, destructor, `run` | `LatestResultPublisher`, abstract: `LatestValue` |
| `LatestJsonPublisher` (`demo/latest_json.hpp`) | the same slot, `abort_`, the files `<output>` and `<output>.tmp` | `submit`, `finish`, destructor, `run` with a retry loop around `rename` | `LatestJson` |
| `runContinuousNesting` (`src/continuous_nesting.cpp`) | incumbent, best revision, progress, publisher, pool of helpers, stop hook | seed pass, rounds of a grid search with helpers, `consider`, the consumer, idle wait, shutdown | `ContinuousNesting` |
| `ResultDirectory` (`demo/continuous_results.hpp`) | lock file, numbered files, `next_` | constructor (lock, clear), `save` | `ResultDirectory` |
| `ParallelLoop` (`src/parallel_loop.hpp`) | helpers, `epoch_`, `finished_`, `task_`, `error_` | constructor, `run`, destructor | `ParallelLoop` |
| `RejectedOrigins`, `RejectionCacheBudget` (`src/rejection_cache.hpp`) | two shared atomics, pages of bits per strategy | `insert`, `contains`, `next`, `reserve`, `release` | `RejectionCache` |
| Recursive search (`src/recursive_bitmap_search.hpp`) | explicit stack of frames, occupied pixels, exclusions, best layout | descend, filter a batch, commit, undo, skip, split among workers | `RecursiveSearch` |
| One strategy of `placePartsBitmap` (`src/bitmap_nesting.cpp`) | occupancy raster, placements, unplaced parts, refill state, deadline | fill a sheet, rebuild seeds, refill, report, count an interruption | `SheetTrial` |
| Broker of the GPU (`src/recursive_bitmap_search.hpp`, `src/gpu_bitmap.cpp`) | tickets, occupancy slots on the device, pending toggles per worker | lease, prepare, filter, toggle, give up | `GpuBroker` |
| Search for the place of one part (`src/bitmap_nesting.cpp:936-1840`) | rejected origins, scan cursors, exhausted shapes and holes, failed searches, flags looked ahead, the bitmap and its copy on the device | propose, validate a batch, choose, compact, accept or refuse | `PartPlacer`; its outcome is arbitrary in `SheetTrial` |
| Repair of the incumbent, `refillBitmapLayout` (`src/bitmap_nesting.cpp:1858-1964`) | a copy of the incumbent, the parts without a place | release a neighbourhood, offer the rest to the sheets in use, recompute what is unplaced | `SheetTrial` (task `repair`) |
| Search without places: `FreeRectangles` (`src/free_rectangles.hpp`) | the largest free regions of a sheet | subtract a core, ask whether a shape fits | `FreeRectangles`, which refines `PartPlacer` |
| Repeated patterns (`src/interlocking_pattern.hpp`, `src/bitmap_nesting.cpp`) | a pattern and the next of its cells | certify, count, give the next position | `PairPatterns` |
| `refineVectors`, `relocateIntoConcavePockets` (`src/bitmap_nesting.cpp`, `src/concave_pocket_repair.hpp`) | placements, contours drawn from them, bins of neighbours | move a part along an axis, move a donor into a notch | `Refinement` |
| Pixels of masks (`src/bitmap_nesting.cpp:479-587`, `:1222-1245`) | drawn masks, oldest first, and their bytes | draw, evict, pin for a batch | `RasterPixels`, composed with `ParallelLoop` |
| Rows of words (`src/bitmap_nesting.cpp`, `src/gpu_bitmap.cpp`) | none | draw spans, shift, compare and toggle rows, find the largest core | `BitmapRows` |
| Trials of one run (`src/bitmap_nesting.cpp:2023-2257`) | counter of trials, results, first exception | draw trials on several threads, join, choose the best | `StrategyTrials`, composed with `RejectionCache` |
| Front end (`demo/json_main.cpp`) | stop request, cancel file, number of saved results, exit code | run a session of either mode, report, finish, exit | `Session`, composed with `LatestJson` |
| Geometry (`src/geometry.cpp`, `src/nfp.cpp`, caches) | memo tables | pure functions | verdicts are arbitrary or sets of pixels |

### Interactions

* A search thread calls `consider(layout)`. It decides under `incumbentMutex`
  whether the layout improves the incumbent, and calls
  `LatestResultPublisher::submit` before it releases that mutex, so the order
  of acceptance is the order of submission.
* The publisher's worker calls the consumer outside the publisher's mutex. The
  consumer measures the offcut, calls the user's `onImprovement` (which saves
  to the `ResultDirectory` and submits to the `LatestJsonPublisher`), and takes
  `incumbentMutex` to write the offcut back if its revision is still the best.
* Locks nest in one order: `publishMutex` (grid workers, one callback at a
  time), then `incumbentMutex`, then the publisher's `mutex_` or `stopMutex`;
  `publishMutex` also comes before `progressMutex`, and a deadline's own
  `stopMutex_` before the session's `stopMutex`. Nobody takes `incumbentMutex`
  while holding the publisher's `mutex_`.
* A failed report sets `error_`; the stop hook of the session asks the
  publisher `failed()`, so that a session whose results cannot be saved ends.
* `main` runs a session, hands its final result to the `LatestJsonPublisher`,
  waits in `finish` and only then exits with code 0; its stop hook also asks the
  publisher `failed()` and looks for the cancel file.
* The search for the place of a part runs on one thread and uses the
  `ParallelLoop` for two jobs, to draw the rows of a mask and to check the
  candidates of a batch; both may throw in any slot when the deadline expires.
* Workers that make trials at once share only the budget of the rejection
  caches and the counter of trials.
* Every search polls a `SearchDeadline`. The hook of the contact helpers is
  throttled: it asks at most every 20 ms and answers "no" between.
* Several processes can share one working directory, and with it the file lock
  and the numbered results.

### What is hard

Lost wakeups and order in the two one-slot mailboxes; a stale offcut; the
errors of four kinds of threads meeting a shutdown; a process that dies between
two renames; a barrier whose captured references die with the caller's frame;
a lock-free budget; flags that a frame keeps while its subtree changes the
raster; a bitmap on the GPU that must follow toggles through eviction, sheet
changes and failed calls; memories of failed tries that must stay true while
the sheet fills; copies whose order is pruned; and an interrupted rebuild that must not
lose a part. `hazards` in `PROJECT.json` names each one at its line with the
properties that would notice it going wrong. The files are named from `src/`, so the library's own sources are `src/src/...`
there and `src/...` here.

## 2. The modules

Every module has one action for each critical section, handler or sequential
step; a thread's program counter is a variable such as `worker`, `owner` or
`at`. A layout, snapshot or result is the number under which it was accepted.
Definitions that start with `Mutant:` in their comment are plausible bugs of
the definition that follows them; they are used only to confirm that each
property notices one.

**LatestValue** is the promise of a latest-value mailbox: reports never go
back, may skip what was overtaken, always catch up, and end caught up unless a
report failed.

**LatestResultPublisher** models `submit`, `run`, `close` and the destructor.
`Submit` is the whole critical section with its early returns (`error_` first,
then `closing_`); `Notify` moves a waiting worker to its predicate. `IsLatestValue`
is the refinement of `LatestValue`.

**LatestJson** adds what the other mailbox does with files: `WorkerTake`,
the write, the rename that a reader may block (Windows) or not (POSIX,
`MaxReads = 0`), the retry that prefers a newer snapshot, `finish`, the aborting
destructor, and a killed process. The removal of the temporary file at the end
may fail, which the code ignores, and an earlier session may have left one
(`Leftover`). `TailLost` lets the disk lose what the stream
had still buffered when it was tested.

**Session** is `main` from the construction of that publisher to the exit code,
in both modes. It extends `LatestJson`: each call of `main` and of the reporter
on the publisher is one of its actions, with the writer, readers and a killed
process beside them. What `runContinuousNesting` does inside is reduced to the
contract that `ContinuousNesting` checks (the reporter is called one result
after the other, the run returns only when it is over and no report failed).
In a session nobody submits after `finish`, so that `SubmitRefused` of
`LatestJson` does not occur there.

**ContinuousNesting** instantiates `LatestResultPublisher` with its threads as
producers and shares its variables. `MainProceeds` walks through the phases of
the session (seed pass, round, baseline, idle, closing, unwinding),
`HelperProceeds` through a helper, `Reporter` through the consumer. Whatever a
search finds is an arbitrary layout; a layout is its number of unplaced parts,
a waste that stands for the rest of the lexicographic quality, and its
in-progress flag. The stop request and the deadline arrive at any moment.

**ResultDirectory** has one action for each file operation of the constructor
and of `save`: the order of the operations is the sequence `Script`, of which a
session performs those for the kinds it writes (`Asked`), one after the other
(`After`). A process may die or fail at every one of them, and another may start
at any time.

**ParallelLoop** models the helpers and the caller of `run`, with both
condition variables, spurious wakeups, exceptions of `f` in any slot, and a
constructor whose third thread is refused.

**RejectionCache** has one action for each atomic operation of the shared
budget; `compare_exchange_weak` may fail spuriously, and an allocation may
throw. `NextFree` is the scan with its word and page skips, as a recursive
function.

**StrategyTrials** extends it with the pool of `placePartsBitmap`: `Claims`,
`Leaves`, `Ends` and `RecordsError` are the steps of `work()` on every thread,
`Rethrows` and `Returns` what follows the joins. While a worker makes a trial it
uses its rejection cache by the actions of `RejectionCache`, and it leaves a
trial only when that cache is gone. An uninterrupted trial has a fixed score,
whatever the others do: that what a cache refuses changes no result is the
property `NothingHidden` of `PartPlacer`. An interrupted one may have any score,
and not every interruption is reported (`Endings`): `refineVectors`
(`bitmap_nesting.cpp:193-211`) and the condition of the refill loop (line 2100)
poll the deadline without setting `timeLimitReached`, and line 2236 counts such
a trial as completed. So a full `completedTrials` does not say that the result is
the one of an unlimited run; `ReturnsBest` claims that only when time permits.

**RasterPixels** extends `ParallelLoop` with the store of the pixels of masks:
`Ensure` takes a mask, `Evicts` removes the oldest one that is not pinned as long
as there is no room (`MustEvict`), and the rows of the
new one are drawn in the slots of the loop (`Draws`, `DrawThrows`, `DrawEnds`);
`BatchPins`, `BatchFull` and `BatchChecked` are the part of `evaluateBatch`
that pins masks as long as the budget lasts and checks them in another run.

**BitmapRows** has the arithmetic behind all this as operators: spans of pixels
as masks of bits, the words of a shifted row on the CPU and in the kernels,
collision, commit and toggle, and the largest filled rectangle by the stripe of
full columns and the histogram. Loops are recursive functions over their
indices; the `while` loop of the stack has as many turns as the stack is high, the
last of which may do nothing. The reference definitions are sets of pixels. The
width of each mask is a constant of `RasterPixels` (`Breadth`).

**RecursiveSearch** is the explicit-stack search. A batch is filtered by the
CPU (`Filter`) or by the device (`FilterOnDevice`), against a bitmap that follows
the search by the toggles since the last batch; the device may fail before any
batch, and the worker goes on without it (`DeviceFails`), or the search fails
(`Throw`). What other workers do to the device in the meantime is in `GpuBroker`:
here the bitmap of a worker may always have to be uploaded again (`DeviceBits`).
`Step` is one iteration of the loop: descend, take the next candidate of the
batch, filter the next batch, go to the next sheet, try the skip branch, leave.
A mask has its raster pixels, the pixels its part needs (`core`) and the ones
that keep the spacing (`halo`); a sheet has its pixels and the ones that keep
the sheet spacing (`inner`). Positions are on a lattice with a step, and a border
of whole steps is left out (`Edge`). Workers of the parallel search share only
the best result, so they run one after the other.

**SheetTrial** has the two callers of `placePartsBitmapOnSingleSheet`. The task
`trial` is one strategy of `placePartsBitmap` in the mode `first`: the
fill of a sheet with every poll of the deadline, the rebuild of the seeds, the
refill until nothing is added, the reports, and the accounting of unplaced
parts. The task `repair` is `refillBitmapLayout`: a helper takes a copy of the
incumbent, which may be any layout, releases nothing or a neighbourhood of a
sheet (`Release`), rebuilds every sheet in use and offers it the rest
(`OfferSheet`), takes what has grown (`SheetRepaired`), and counts as unplaced
what no sheet holds (`RepairEnds`). Moves of placed parts (`refineVectors`,
`relocateIntoConcavePockets`) and shortlists of angles do not change what the
sheets hold. Which parts fit is arbitrary. `Pulsed` selects the throttled hook of the
contact helpers.

**GpuBroker** models the workers of the parallel recursive search and the one
device they share. `DrawTicket`, sleeping and `ReturnTicket` are the critical
sections of the ticket lock; with the lease a worker performs the calls of
`prepare`, `policy` and `filter` one by one, and each may fail. A bitmap is the
set of masks committed on it; `updates` are the toggles that the device has not
seen; `buffer` is the occupancy in use and `saved` the ones of other workers,
which `Room` evicts. A worker that is refused goes on without the GPU. The line of those
who hold a ticket stands for the two counters.

**PartPlacer** is `placePartsBitmapOnSingleSheet` for one part after the other:
holes, the repeated pattern with its look-ahead, corner and contact proposals,
coarse grids in a growing window, the scan of every origin, and the compaction.
`Validate` is `evaluateBatch`: the pixels are tested by the device or the CPU, then
the contours, and a deadline may leave some candidates undecided. An origin
stands for a position and an angle. The sources are sets of origins, and a
batch is any set of them that comes first in the order of the source: by score,
as scanned, or any. What a shape proposes, what collides and how a place scores
are constants, so that the theorems hold for every geometry. It
assumes a search step of one, a cache of rejected origins, an empty sheet at first, a
device that is given up when it fails, and a sticky deadline; the scores are
fixed for each instance, where the code recomputes them as the sheet fills; and the
shortlist of 8192 proposals is not reached. When a shape is found to be
exhausted is left open, as long as it is true.

**FreeRectangles** decides it: it extends `PartPlacer` with the regions of the
class of that name. `Occupy` splits every region around a placed core into the
strips beside it, drops what another region contains, and gives up when there
are too many fragments; `BeginWithRectangles` is `Begin` with the test of the
class, and every other step is that of `PartPlacer`.

**Refinement** extends this with what follows on the same layout:
`refineVectors` (`RefineBegins` to `StopBetween`) with its growing and halving
moves, and `relocateIntoConcavePockets` (`RepairBegins` to `RepairEnds`), which
a companion search with its own deadline runs on the result. The four views of
the layout are `pos`, `drawn`, `derived` and `bins`; each action updates those
that the code updates. Contours are opaque, and what is too close is a relation.

**PairPatterns** has the grid and the staggered patterns as operators: which
pitches and shifts are certified by comparing a few neighbours, how many cells
a pattern has, and the position of the n-th cell in every direction of filling.

Modules `MC...` give TLC the instances; modules `...Proofs` hold the theorems.

## 3. What the runs check

| Run | Instance | What it shows |
|---|---|---|
| `latest_result_publisher` | 2 producers, 4 values | nothing is lost silently; implements `LatestValue`: newest wins, never back, and no wakeup is lost |
| `latest_json` | sessions of both modes, 3 snapshots, 3 openings by a reader | the output is whole at every moment, never goes back and is never ahead of the history (`RootInHistory`); exit code 0 means that the final snapshot is in place (`ExitsHonestly`); a finished session leaves no temporary file, and another only what it could not remove (`EndsClean`); a stop, a cancel file, a failure or an exception ends the session (`SessionEnds`) |
| `continuous_nesting` | grid and one helper, 1 part, 2 wastes, 3 improvements | saved layouts improve and the offcut belongs to the incumbent (`IncumbentSound`); the returned layout was reported and errors surface (`ReturnsHonestly`); the session ends for a reason and only then |
| `result_directory` | 2 processes, 3 kinds of file, 2 results each | a numbered JSON marks a complete result, but for lost last writes, and a failed save leaves nothing behind (`DirectorySound`); nobody touches another's results (`HistoryKept`) |
| `parallel_loop` | 3 slots, 2 runs, 4 masks of up to 4 rows, one larger than the budget; rows of up to 4 pixels in words of 3 bits | barrier, each index once, exceptions by the right run, every run and the destructor return; pixels that are kept are complete and within the budget, whatever throws (`PixelsWhole`); rows of words are drawn, moved, compared and measured as the sets of pixels they stand for (`RowsExact`) |
| `rejection_cache` | 2 workers, 2 trials, 5 origins in 2 pages, limit 5 of 8 | no leak, limit kept, peak exact (`BudgetKept`); the scan skips exactly the rejected; the first best of the trials that were started, and of all if time permits, is returned however the workers are scheduled, stopped or fail (`ReturnsBest`) |
| `recursive_search` | 10 problems of 2 or 3 parts, 2 workers, fill from the left, with a device and without | undo is exact and retained flags are right (`FramesSound`), the result is valid, an exhausted search is optimal, and it ends |
| `recursive_search_direction` | 1 problem, other fill directions | *violation:* two committed masks overlap |
| `sheet_trial` | 3 parts, 2 sheets, sticky stop; a trial, or the repair of any incumbent | no copy lost or doubled, no search on an incomplete raster, honest completion, refills only add, both tasks end |
| `sheet_trial_helper` | 3 parts, 1 sheet, throttled stop | *violation:* an interrupted rebuild loses its seeds |
| `gpu_broker` | 3 workers, 2 sheets, room for 2 bitmaps | a batch is filtered against the bitmap of its own worker and sheet; the device keeps its budget; the lease always moves on, also when a search fails |
| `part_placer` | 3 shapes, 4 orders of 4 parts, 6 origins | nothing that is remembered hides a place; free rectangles miss none (`SpaceNeverMissed`); the layout is valid and the bitmap, also on the device, shows it; it stays valid when it is refined and repaired (`RefinedValid`); what is refused fits nowhere; patterns of all motifs of up to 3 by 3 pixels fill the cells they promise (`PatternLaidOut`) |

### Bounds, and why they are enough

* Mailboxes: two values suffice to overtake, three to overtake the overtaker,
  the fourth leaves one to be drained. A submission beyond the bound is simply
  not made.
* `ContinuousNesting`: with one grid thread and one helper every pair of
  competing threads occurs (grid/helper, grid/reporter, helper/reporter); three
  improvements let an offcut be late by two. Two qualities at equal numbers
  of parts separate "better" from "as good".
* `ResultDirectory`: two results per process let a failed save follow a good
  one, and two processes let one start while the other lives or after it died.
* `ParallelLoop`: with two helpers one can be late while the other is done;
  two runs let a late helper meet the next epoch; four indices in three slots
  give unequal and empty ranges.
* `RasterPixels`: the budget admits two or three masks, so that one that is
  needed may be older than one that is not; the largest is over the budget alone.
* `BitmapRows`: words of three bits in rows of four pixels give rows of one and
  of two words, shifts with and without a carry, and spans that begin or end at
  every position in a word. All masks, occupancies and crossings of that size
  are enumerated. `ExactWidths` is a constant, the widths for which that
  succeeds, so that TLC evaluates it once; `RowsExact` asks, for the masks whose
  rows are drawn, whether their width is one.
* `RejectionCache`: one page each fits, a second does not; the last page is
  half used, so a word reaches beyond the last origin.
* `StrategyTrials`: two trials of two scores give a better first, a better
  second and a tie; two workers may claim both, or one makes both.
* `Session`: three snapshots are two numbered results and the final one.
* `RecursiveSearch`: the problems are the smallest in which a first choice must
  be taken back, copies need one another's place, a sheet has a hole, a mask is
  larger than its part, a part fits on the second sheet only, the lattice has
  every second pixel, and a border is kept free. The device may fail before
  every batch. The first
  batch is 2 and the largest 4, so batches grow, and end inside a row.
* `SheetTrial`: the third part makes a refill that loses one seed hold more
  than before; the second sheet receives what the first leaves. The incumbent
  of a repair is any division of the three parts among the sheets and the
  rest, so that sheets are passed, released whole and offered again.
* `GpuBroker`: three workers and room for two bitmaps make evictions happen in
  every order; the budget of three batches lets a worker change its sheet, be
  evicted and come back. One toggle is enough for an update to be lost, applied twice or
  applied to another's bitmap.
* `PartPlacer`: the shapes are the smallest with a hole, with a clearance
  larger than their pixels, and with an edge distance. The orders fill the
  sheet, so that each shape is refused, and repeat a shape after others, so that
  its memory is used on a sheet that has changed. A batch of two ends inside
  every source.
* `FreeRectangles`: a bar of two rows leaves regions that overlap, and four
  fragments are too many, so that the object also switches itself off.
* `Refinement`: four units to a pixel let parts move by less than a pixel, and
  the notch of a ring is wider than the pixel that its raster leaves free.
* `PairPatterns`: `Directions` is a constant like `ExactWidths`: all motifs with
  sides of 2 and 3, sheets with sides of 4 and 6, and gaps and edges of 0 and 1
  are tried in all four directions; `PatternLaidOut` asks for the direction in
  which the sheet is filled.

### Fairness

Only what the scheduler and the code guarantee is fair, and weakly:

* the worker of each mailbox (a running thread), and the owner's `join`, which
  ends when the worker has ended;
* in `Session` the writer runs, and so do `main` and the reporter as long as
  they need not wait for a search; the stop hook is polled while there is a
  search, and a run that is over ends, which `RunEnds` of `ContinuousNesting`
  shows. Nothing is assumed of readers: `SessionEnds` is about executions in
  which they leave the output alone for good, except after an exception, when
  the aborting destructor waits for nobody;
* in `ContinuousNesting` the main thread and the helpers are fair only once the
  session is over (stop, deadline or failed report): before that a search may
  run for ever. The reporting thread is always fair;
* the caller and the helpers of a `ParallelLoop`, assuming that `f` returns
  (also in `RasterPixels`, where `f` draws or checks);
* the single step of the sequential `RecursiveSearch` and `SheetTrial` (in the
  former the failure of the device and an exception are not fair);
* `StrategyTrials`, `GpuBroker`, `PartPlacer` and `Refinement` state none: their properties are safety
  properties, and `LeaseMovesOn` is the part of the progress of the lease that
  needs no fairness.

  Acquiring a stop, a crash or a failure is never fair.

`CHECK_DEADLOCK FALSE` is set because all of these systems stop by design: the
threads are joined, the processes end, the searches return.

### Findings

1. `recursive_search_direction`: a commit decodes the index of a candidate as
   if the sheet were filled from the left
   (`src/recursive_bitmap_search.hpp:336`), whatever direction it was filtered
   in. Committed masks overlap, and the undo by XOR clears pixels in use. The
   passing run therefore fills from the left only.
2. `sheet_trial_helper`: the helpers' stop hook answers "stop" once and "go on"
   for the next 20 ms (`src/continuous_nesting.cpp:201`). If the rebuild of the
   seeds hears the stop, it drops the other seeds, the loop over the parts does
   not hear it and goes on, and a result with lost copies replaces the fuller
   one (`src/bitmap_nesting.cpp:2130`). The passing run has a sticky hook. The
   repair of the incumbent meets the same hook but reports every part
   (`RepairConserves`), since it counts again what no sheet holds; a part that
   had a place may lose it (with `Pulsed` set `RefillGrows` fails for it too).

One divergence has no run of its own. `RecursiveSearch` leaves out a border of
the sheet spacing rounded up to whole steps of the lattice, on all four sides
(`src/recursive_bitmap_search.hpp:268`). The lattice starts at the left and the
top, so there the rounding skips only positions that are too near to the edge;
at the right and the bottom it can skip positions that keep the spacing. The
comment at line 266 calls the candidates it skips "obviously invalid". With
resolution 1, step 2 and spacing 1, a square of 2 fits at (2,2) on a sheet of 5
with the spacing all around; no position is left, and the search says that it is
exhausted. TLC shows it as a violation of `Complete` when `Problems` contains
`[parts |-> <<Square>>, sheets |-> <<Framed(5, 5)>>, step |-> 2, spacing |-> 1]`.
The passing run has step 2 without spacing, and spacing with step 1, where the
border is as wide as the spacing (`Aligned`). There the lattices miss no place
where a part fits (`Reached`), which TLC checks of the problems of the run as an
assumption; it is the hypothesis of the theorem about `Complete`, and this
divergence is what it excludes.

Two limitations of the files are in the models, because the code promises
nothing about them. `exportPlacementResultToDxf` never tests its stream after
writing (`src/dxf_export.cpp:304`), and `writeNestingJson` tests its stream
before the last flush (`src/json_io.cpp:416`). `ResultDirectory` is checked with
`Lossy = {"json", "dxf"}`: a numbered JSON then still means that all companions
are in place and were written by the same session, but one of those two files
may lack its end; for the SVG, whose stream is tested, it means that the file is
complete. In `LatestJson` the constant `TailLost` has the same effect on the
root JSON. The run sets it to `FALSE`; with `TRUE`, `OutputWhole` fails, because
a truncated file is renamed over the output. The two theorems that need it name
it as their assumption.

## 4. What is proved

All theorems hold for every value of the constants that satisfies the named
assumption of the module: natural bounds, finite sets and non-zero sizes, that
no helper or session is called "nobody" (the free lock), and in two modules what
the code takes from elsewhere. `SearchAssumption` says that there is a part to
place and that every part has an allowed angle (`src/bitmap_nesting.cpp:1994`
refuses other inputs). `RefinementAssumption` relates the raster to the polygons, whose geometry is not
modelled: parts whose pixels are apart and on the sheet's material, and which
the exact check accepts, are valid as polygons; no spacing is larger than the
gap that the index of the refinement looks around a part; and a distance is the
same both ways.

* `LatestResultPublisherProofs`: `TypeCorrect`, `NothingLostAlways` and
  `Implements`: the mailbox
  implements the safety part of `LatestValue`. The invariant adds to the
  properties what ties the worker to the slot: a value is delivered, being
  consumed or pending, in this order and without gap at the end; the worker is
  done only with `closing_` set and an empty slot or an error; `error_` is set
  exactly when a report has thrown. Each step of the mailbox then maps to a
  step of `LatestValue` or to a stutter.
* `ContinuousNestingProofs`: `TypeCorrect`, `IncumbentSoundAlways` and
  `ReturnsHonestlyAlways`, for any helpers, parts, wastes and number of
  improvements. `MailboxUsed` says that every step of a session is a step of the
  mailbox, so that its invariant holds here without another proof. The rest is
  about the critical section of `incumbentMutex`: the mailbox has everything
  that was accepted but for the one layout in the critical section, until a
  report fails (`CountInv`); what is accepted is a chain of ever better layouts
  that the incumbent is at least as good as (`ChainInv`); only the seed pass
  finds layouts in progress, and its last one replaces them (`FlagInv`); and the
  reason for which the main thread leaves explains what it returns (`EndInv`).
* The same module has `DirectorySoundAlways` and `HistoryKeptAlways` of
  `ResultDirectory`, for any sessions, kinds and numbers of results. A session that has found
  the directory clear is alone in it (`AloneInv`), because the others must take
  the lock, and each file of a number above the counter is of the result being
  saved or of one that failed and could not be removed (`NumberInv`); what
  `save()` has done up to its position in `Script` is there (`SavingInv`).
* `RasterProofs`, first part: `TypeCorrect`, `BarrierAlways` and
  `ExactlyOnceAlways` of `ParallelLoop`. The barrier is not
  inductive: it needs that `finished_` counts exactly the helpers that have
  seen the current epoch and are waiting again, so that "all finished" means
  that no helper can still execute. For the work, the ranges of the slots are
  disjoint and cover all indices, and who has not left its slot has processed
  nothing of it (`WorkInv`).
* `RasterProofs`, second part: `PixelsImplement` and `PixelsWholeAlways` of
  `RasterPixels`. Every step of the pixels is a step of the loop or leaves it
  alone, so the barrier and `ExactlyOnce` hold while pixels are drawn; a run
  that returned has therefore drawn every row. The invariant says that the masks of
  a batch have room by their estimates (`PinInv`) and that a mask is drawn only
  when there is room for it or nothing else is kept (`DrawInv`). `Sum` is a fold
  of the community modules, so what it does to a set with one element more or
  less (`SumAdd`, `SumRemove`) is proved from its equation: `SolvesExists` and
  `SolvesOnce` show that the equation has exactly one solution on a finite set.
* `RasterProofs`, third part: `AllWidthsExact` and `RowsExactAlways`, the
  arithmetic of `BitmapRows` for words, masks and sheets of any width. A pixel is
  a word and a bit (`PixelOn`, `PixelBack`); a word of a shifted row has the bits
  of the pixels moved into it (`CoveredBit`), and the words that are compared are
  words of the sheet (`WordsWithin`), so that collisions and changes of words
  are those of sets of pixels. A span sets the bits between its ends in every
  word it reaches (`SpanWordIs`), and an odd number of crossings lies behind the
  pixels of the spans (`CrossingsBeyond`). The loops are recursive functions, of
  which the proof shows that they have a sequence of states that keeps an invariant
  (`IterateWithin`). For the histogram these are, from the inside out: while
  columns are taken from the stack, all that is no longer on it is higher than the
  new column, and the runs of columns that end there were measured (`Popping`);
  the columns on the stack rise, each is the lowest since the one below it, and
  every run that ended earlier was measured (`Pushed`); and the heights count what
  is filled up to the row, so that each filled rectangle that ends in it is
  such a run (`Histogrammed`). A stripe that is taken without the histogram is either the
  whole box or within the tenth that `CoreFilled` allows.
* `SearchProofs`, first part: `FramesSoundAlways`, `BestValidAlways` and, when
  sheets are filled from the left, `MasksDisjointAlways` of `RecursiveSearch`,
  for any parts, sheets, masks, batches and number of threads. Each invariant is
  about all frames of the stack. The active frames hold the placements
  (`PathInv`). A policy is excluded as often as frames of it were skipped
  (`ExcludedInv`), and such a frame is always left by `Leave`, which gives the
  exclusion back, and never cut off by `Cut`, because the best count stays within what the frame
  allows (`BoundInv`). The device differs from the worker's bitmap by the
  toggles it has not seen (`DeviceInv`). The heart is `TreeInv`: the bitmap is
  made of the pixels toggled an odd number of times, and the flags of a frame
  are right for what the frames below it have placed, so its own subtree may do
  and undo what it likes. `CoverInv` turns this into disjoint masks; it holds
  from the left only. The other directions are finding 1.
* `SearchProofs`, second part: `CompleteAlways`. For any problems whose lattices
  miss no place (`Reached`), filled from the left, an exhausted search has found
  the largest number of parts of any layout. A frame looks for the layouts that
  agree with the placements above it and place every later copy of a part behind
  the earlier ones (`Remaining`). That these are enough is an argument by
  exchange: if a layout places a copy before the one whose turn it is, exchanging
  the two places keeps the layout and its number of parts. The invariant
  (`CompleteInv`) says, for every frame of the stack, that no such layout has
  more parts than the largest count published if its first copy is at a candidate
  that the frame is past, or if it has no copy and the skip branch is done
  (`ExploredInv`); the exception is the candidate that the frame's child is
  working on. It also says that the worker whose stack is empty, and those before
  it, have explored the layouts that start with an angle of their share
  (`ExhaustedInv`), and how far the flags of each frame are (`ScannedInv`). A cut
  frame is explored because its bound counts every part that is not excluded. The
  shares are consecutive and cover all angles, and worker 0 has the layouts
  without the first part. `AlignedReached` shows that `Reached` holds of
  every problem whose spacing is a multiple of the step and whose masks reach the
  sides of their boxes.
* `SearchProofs`, third part: `TypeCorrect`, `FlagsTrueAlways`,
  `ResidencyBoundedAlways` and `LeaseMovesOnAlways` of `GpuBroker`, for any number of workers, sheets and
  masks. The line holds every worker with a ticket once and only its first may
  have the lease (`LineInv`). A bitmap of the current sheet that is on the
  device differs from its worker's own by exactly the updates that are pending
  (`ContentInv`), whoever else used the device meanwhile; applying them makes
  the two equal (`StageInv`). The slot in use has no saved bitmap (`SurfaceInv`), so
  switching slots moves a bitmap and does not add one.
* `LatestJsonProofs`: `TypeCorrect`, `EndsCleanAlways`, `Implements` (the root
  JSON implements the safety part of `LatestValue`), `RootInHistoryAlways` and,
  when the disk keeps what was written, `OutputWholeAlways` and
  `ExitsHonestlyAlways`, all of the specification of sessions. The invariant of
  the writer orders output, snapshot and pending slot by their numbers, and ties
  the temporary file to the writer's position: once the newest snapshot is in
  place the rename has used the file up, so that the cleanliness of a finished
  session needs no removal to succeed. The one of the session
  relates what was accepted to what is numbered and recorded, and says that once
  `finish` has returned nothing changes the output any more. Every step of a
  session is a step of `LatestJson` (`SessionStepImplements`), so that the first
  invariant needs no proof of its own there.
* `RejectionCacheProofs`: `TypeCorrect`, `BudgetKeptAlways` and
  `ScanExactAlways`. `used_` equals the page cost times the cardinality of
  the owned pages plus the number of reservations under way; the proof tracks
  that cardinality through insertion, failed allocation and destruction. The
  peak may lag behind the highest use, but then the strategy that raised the use
  has still to report it. `TrialsImplement` carries all this over to the
  workers of `StrategyTrials`, and `ReturnsBestAlways` shows for any number of
  workers and trials that the choice does not depend on the schedule: a trial
  that was started is being made, has ended (with the score it deserves, while
  time is not over), or the run fails.
  `NextFree` is a recursive function: `FirstFree`, the first position that is
  not rejected, solves its equation (`FirstFreeSolves`), since a word lies in
  one page and a bit beyond the last origin is never set; and no other function
  does, since the last position in which two solutions differ would need a later
  one (`NextFreeFirst`).
* `SheetTrialProofs`: `TypeCorrect` and `RepairConserves`, for both kinds of
  deadline, and, for a sticky deadline, `ConservedAlways`, `RasterCompleteAlways`,
  `RefillGrowsAlways` and `CompletedHonestlyAlways`. The invariant says that the running fill holds every
  remaining part exactly once (placed, seed, current, untried or missed) unless
  the fill has lost seeds, and that seeds can be lost only after the stop was
  heard: with a sticky deadline such a fill places nothing more and cannot be
  larger than the layout it started from, so it is thrown away. `Held` and
  `InHand` are what the sheet holds and what the fill may place, of either
  task, so one argument serves both. Without the sticky deadline the last step
  fails, which is finding 2.
* `PartPlacerProofs`: `TypeCorrect`, `NothingHiddenAlways`, `LayoutValidAlways`
  and `RefusedHonestlyAlways`, for any shapes, clearances, orders, scores and
  bounds. A place that is free only ever disappears (`FreeShrinks`), so whatever
  was true of a failed try stays true. The invariant adds what is on the way to being remembered:
  a free place of an untried hole is still queued until the hole is used up,
  a free proposal is queued until a corner-first search gives up, a flag of the
  device is right until its origin is tried, and the accepted origin is free
  until the part is placed. `FilterTrue` and `ValidateTrue` say that a batch rejects
  nothing free and chooses only what is.
* `PartPlacerProofs` also has the two modules around `PartPlacer`.
  `SpaceNeverMissedAlways`, for any bitmap, cores and
  limit of fragments: a rectangle beside a core lies within one of the strips
  (`PiecesCover`), and pruning keeps a largest region around everything it
  drops (`MaximalCover`). `SpaceImplements` follows: the search with rectangles
  only gives up shapes that fit nowhere, so it implements `PartPlacer`, whose
  theorems hold of it. `RefinedValidAlways` says the same of `Refinement` and the
  layout, for any sizes and moves: the parts stay on the stock and apart (`Apart`)
  because the index lists every part in the cells of its box (`Indexed`), so that
  a part that is too close to another is always compared with it, and because
  all views of the layout agree when a sheet is done (`Agreeing`).
* `PartPlacerProofs`, last part: `PatternsLaidOut` of `PairPatterns`, for all
  motifs, clearances and sheets and all four directions, and `PatternLaidOutAlways`,
  which states it of the direction a sheet is filled in. The cells of a pattern
  are counted out without gaps or repetitions, also when the two kinds of rows differ in
  length or the last row is of the first kind (`GridCells`, `ColumnCells`,
  `RowCells`). What was compared before the pattern is used is finite; `PitchApart`
  and `RowsApart` show that it does for all cells: beyond what was tried, two
  copies are further apart than the motif and its clearance are long, and a row below
  is the mirror image of a row above. `PatternAssumption` says that sides,
  clearances and edges are numbers of pixels and that no motif is empty.

`TypeOK` of the modules with proofs is proved rather than checked by a run
(`SearchTyped` is a part of `FramesSound`).

Every invariant that a run checks is also proved. Only model-checked: all
liveness properties (the prover has no rule for fairness and `ENABLED` here).

## 5. What is not modelled, and the plan

The order was: the mailboxes and the session that uses them (the interleavings
that every continuous run goes through), the files, the shared low-level parts
(loop, cache, broker), then the searches from the inside out, and then what
surrounds them (trials, sessions, pixels, patterns, refinement). What is left,
in this order:

1. The search for groups of several rotated copies (`improveGroupPattern`,
   `src/group_pattern_search.hpp`): a beam of candidates that are real-valued
   and validated like any other position.
2. The termination of `PartPlacer` and `Refinement`, and the progress of
   `GpuBroker`, as liveness properties.

Out of reach or without state of interest: computational geometry over Clipper
and real coordinates (`Geometry`; its verdicts are arbitrary choices, relations
or constants in the models), memo tables keyed by floating-point identities
(`NfpCache`, the convex-pair cache; memoisation of pure functions, of which
`Refinement` leaves open whether a pair is decided by the cache), the order in
which parts are taken, the parsing of arguments and of the input
(`CommandLine`), the text of a DXF, the offcut's measurement, the sequential
adapter `Orchestrator`, the legacy demonstration and vendored headers.

Known hazards that no model reaches: two processes that share one `--output`
file (`demo/latest_json.hpp:95`), and the tolerance of 1e-9 in the comparison of
layouts (`src/continuous_nesting.cpp:35`), which is not transitive.
