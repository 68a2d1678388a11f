------------------------------ MODULE SheetTrial ------------------------------
(***************************************************************************)
(* The two callers of placePartsBitmapOnSingleSheet, which fills a sheet   *)
(* with the parts that remain, and may start from a layout of it (the      *)
(* seeds).                                                                 *)
(*   "trial"   one strategy of placePartsBitmap, in the mode "first": it   *)
(*             fills sheet after sheet, and refills each as long as the    *)
(*             new fill holds more parts;                                  *)
(*   "repair"  refillBitmapLayout: a helper takes a copy of the incumbent, *)
(*             may take some parts off a sheet, and offers what is not     *)
(*             placed to every sheet in use.                               *)
(* Every fill can be cut short when it polls its SearchDeadline.           *)
(*                                                                         *)
(* Where a part fits is arbitrary, and so is the order of the parts.       *)
(* refineVectors and relocateIntoConcavePockets move parts and leave what  *)
(* is placed alone.                                                        *)
(* A poll is sticky, as in a plain search, or it is the throttled hook of  *)
(* the contact helpers (continuous_nesting.cpp:201), which tells a stop    *)
(* once and then, for 20 ms, answers no again.                             *)
(***************************************************************************)
EXTENDS Naturals, FiniteSets

CONSTANTS Parts,   \* the ids of the parts
          Stock,   \* the number of sheets
          Pulsed   \* the deadline has the throttled hook of a helper

ASSUME TrialAssumption ==
  /\ IsFiniteSet(Parts)
  /\ Stock \in Nat
  /\ Pulsed \in BOOLEAN

VARIABLES
  task,       \* "trial" or "repair"
  at,         \* where it is
  stop,       \* the user has stopped the search, or its time is over
  sheet,      \* the sheet that is being filled
  remaining,  \* remaining: the parts that this sheet is offered
  layout,     \* trial.result.placements, result.placements of a repair
  kept, left, \* r.placements and r.unplaced: the best fill of this sheet
  refill,     \* the fill that runs starts from seeds
  seeds,      \* the seeds that it has not entered yet
  placed,     \* placements
  drawn,      \* the placements whose pixels are in occupancy
  current,    \* the part that it is trying, if any
  todo,       \* the parts that it has not tried
  missed,     \* out.unplaced
  limit,      \* timeLimitReached, of the fills and of the trial
  report,     \* the last layout given to onLayout
  untried     \* history: parts that some sheet did not try to the end

fill == <<refill, seeds, placed, drawn, current, todo, missed>>
trial == <<sheet, remaining, layout, kept, left>>
vars == <<task, at, stop, trial, fill, limit, report, untried>>

Sheets == 1 .. Stock
Layouts == [placed : [Sheets -> SUBSET Parts], unplaced : SUBSET Parts]

\* Every variable keeps its type, and a fill counts no part twice.
TypeOK ==
  /\ task \in {"trial", "repair"}
  /\ at \in {"sheets", "released", "offering", "preparing",
             "seeding", "placing", "searching", "accepted", "filled",
             "deciding", "ending", "done"}
  /\ stop \in BOOLEAN
  /\ sheet \in 1 .. Stock + 1
  /\ layout \in [Sheets -> SUBSET Parts]
  /\ remaining \subseteq Parts /\ kept \subseteq Parts /\ left \subseteq Parts
  /\ seeds \subseteq Parts /\ placed \subseteq Parts /\ drawn \subseteq Parts
  /\ current \subseteq Parts /\ todo \subseteq Parts /\ missed \subseteq Parts
  /\ untried \subseteq Parts
  /\ refill \in BOOLEAN
  /\ limit \in BOOLEAN
  /\ report \in Layouts
  /\ placed \cap (seeds \cup current \cup todo \cup missed) = {}
  /\ drawn \subseteq placed
  /\ current \cap (todo \cup missed) = {}
  /\ todo \cap missed = {}

Nowhere == [s \in Sheets |-> {}]

TrialInit ==
  /\ task = "trial" /\ at = "sheets"
  /\ remaining = Parts
  /\ layout = Nowhere

\* The incumbent is any layout of the parts.
RepairInit ==
  /\ task = "repair" /\ at = "released"
  /\ \E place \in [Parts -> 0 .. Stock] :
       /\ layout = [s \in Sheets |-> {p \in Parts : place[p] = s}]
       /\ remaining = {p \in Parts : place[p] = 0}

Init ==
  /\ TrialInit \/ RepairInit
  /\ stop = FALSE
  /\ sheet = 1
  /\ kept = {} /\ left = {}
  /\ refill = FALSE
  /\ seeds = {} /\ placed = {} /\ drawn = {}
  /\ current = {} /\ todo = {} /\ missed = {}
  /\ limit = FALSE
  /\ report = [placed |-> layout, unplaced |-> remaining]
  /\ untried = {}

-----------------------------------------------------------------------------
(* A poll of the deadline may answer that it is, or is not, expired.       *)

Expired == stop
Continues == ~stop \/ Pulsed

Stop ==
  /\ at # "done"
  /\ ~stop
  /\ stop' = TRUE
  /\ UNCHANGED <<task, at, trial, fill, limit, report, untried>>

-----------------------------------------------------------------------------
(* placePartsBitmapOnSingleSheet                                           *)

\* The rasterisation of the sheet is interrupted.
PrepareStops ==
  /\ at = "preparing"
  /\ Expired
  /\ seeds' = {}
  /\ todo' = {}
  /\ missed' = todo
  /\ untried' = untried \cup todo
  /\ limit' = TRUE
  /\ at' = "filled"
  /\ UNCHANGED <<task, stop, trial, refill, placed, drawn, current, report>>

Prepared ==
  /\ at = "preparing"
  /\ at' = "seeding"
  /\ UNCHANGED <<task, stop, trial, fill, limit, report, untried>>

\* Mutant: applyMask is forgotten.
EnterSeedUndrawn ==
  /\ at = "seeding"
  /\ Continues
  /\ \E p \in seeds : seeds' = seeds \ {p} /\ placed' = placed \cup {p}
  /\ UNCHANGED <<task, at, stop, trial, refill, drawn, current, todo, missed, limit,
                 report, untried>>

EnterSeed ==
  /\ at = "seeding"
  /\ Continues
  /\ \E p \in seeds : /\ seeds' = seeds \ {p}
                      /\ placed' = placed \cup {p}
                      /\ drawn' = drawn \cup {p}
  /\ UNCHANGED <<task, at, stop, trial, refill, current, todo, missed, limit, report,
                 untried>>

\* The seeds that were not entered are dropped.
SeedingStops ==
  /\ at = "seeding"
  /\ seeds # {}
  /\ Expired
  /\ seeds' = {}
  /\ limit' = TRUE
  /\ at' = "placing"
  /\ UNCHANGED <<task, stop, trial, refill, placed, drawn, current, todo, missed,
                 report, untried>>

Seeded ==
  /\ at = "seeding"
  /\ seeds = {}
  /\ at' = "placing"
  /\ UNCHANGED <<task, stop, trial, fill, limit, report, untried>>

\* Mutant: the part at partIndex is not among the unplaced ones.
PlacingStopsAfter ==
  /\ at = "placing"
  /\ todo # {}
  /\ Expired
  /\ \E p \in todo : missed' = missed \cup (todo \ {p})
  /\ todo' = {}
  /\ untried' = untried \cup todo
  /\ limit' = TRUE
  /\ at' = "filled"
  /\ UNCHANGED <<task, stop, trial, refill, seeds, placed, drawn, current, report>>

PlacingStops ==
  /\ at = "placing"
  /\ todo # {}
  /\ Expired
  /\ missed' = missed \cup todo
  /\ todo' = {}
  /\ untried' = untried \cup todo
  /\ limit' = TRUE
  /\ at' = "filled"
  /\ UNCHANGED <<task, stop, trial, refill, seeds, placed, drawn, current, report>>

PartBegins ==
  /\ at = "placing"
  /\ Continues
  /\ \E p \in todo : current' = {p} /\ todo' = todo \ {p}
  /\ at' = "searching"
  /\ UNCHANGED <<task, stop, trial, refill, seeds, placed, drawn, missed, limit,
                 report, untried>>

\* No place is found.
PartMissed ==
  /\ at = "searching"
  /\ missed' = missed \cup current
  /\ current' = {}
  /\ at' = "placing"
  /\ UNCHANGED <<task, stop, trial, refill, seeds, placed, drawn, todo, limit,
                 report, untried>>

\* Mutant: timeLimitReached is not set.
PartCutSilently ==
  /\ at = "searching"
  /\ Expired
  /\ missed' = missed \cup current
  /\ untried' = untried \cup current
  /\ current' = {}
  /\ at' = "placing"
  /\ UNCHANGED <<task, stop, trial, refill, seeds, placed, drawn, todo, limit, report>>

\* The search of a place is interrupted before it has found one.
PartCut ==
  /\ at = "searching"
  /\ Expired
  /\ missed' = missed \cup current
  /\ untried' = untried \cup current
  /\ limit' = TRUE
  /\ current' = {}
  /\ at' = "placing"
  /\ UNCHANGED <<task, stop, trial, refill, seeds, placed, drawn, todo, report>>

\* A place is found, perhaps before the search was interrupted.
PartFound ==
  /\ at = "searching"
  /\ limit' \in {limit, limit \/ Expired}
  /\ at' = "accepted"
  /\ UNCHANGED <<task, stop, trial, fill, report, untried>>

\* onSnapshot: layoutSnapshotSeconds have passed, and parts are left.
Snapshot(now) ==
  \/ UNCHANGED report
  \/ /\ task = "trial" /\ ~refill
     /\ todo # {}
     /\ report' = [placed |-> [layout EXCEPT ![sheet] = now],
                   unplaced |-> missed \cup todo]

\* The pixels of the part are drawn unless the deadline is expired.
PartPlaced ==
  /\ at = "accepted"
  /\ \/ Continues /\ drawn' = drawn \cup current
     \/ Expired /\ UNCHANGED drawn
  /\ placed' = placed \cup current
  /\ current' = {}
  /\ Snapshot(placed')
  /\ at' = "placing"
  /\ UNCHANGED <<task, stop, trial, refill, seeds, todo, missed, limit, untried>>

AllTried ==
  /\ at = "placing"
  /\ todo = {}
  /\ at' = "filled"
  /\ UNCHANGED <<task, stop, trial, fill, limit, report, untried>>

-----------------------------------------------------------------------------
(* The loop over the sheets in placePartsBitmap, and its refill loop.      *)

Fill(parts, from) ==
  /\ refill' = (from # {})
  /\ seeds' = from
  /\ todo' = parts
  /\ placed' = {} /\ drawn' = {} /\ current' = {} /\ missed' = {}
  /\ at' = "preparing"
  /\ UNCHANGED <<task, stop, trial, limit, report, untried>>

SheetBegins ==
  /\ at = "sheets"
  /\ remaining # {}
  /\ sheet <= Stock
  /\ Continues
  /\ Fill(remaining, {})

SheetsStop ==
  /\ at = "sheets"
  /\ remaining # {}
  /\ sheet <= Stock
  /\ Expired
  /\ limit' = TRUE
  /\ untried' = untried \cup remaining
  /\ at' = "ending"
  /\ UNCHANGED <<task, stop, trial, fill, report>>

SheetsEnd ==
  /\ at = "sheets"
  /\ remaining = {} \/ sheet > Stock
  /\ at' = "ending"
  /\ UNCHANGED <<task, stop, trial, fill, limit, report, untried>>

Keep ==
  /\ kept' = placed
  /\ left' = missed
  /\ at' = "deciding"
  /\ UNCHANGED <<task, stop, sheet, remaining, layout, fill, limit, report, untried>>

FirstFilled ==
  /\ task = "trial" /\ at = "filled"
  /\ ~refill
  /\ Keep

\* Mutant: a refill without a new part is kept as well.
RefilledEqually ==
  /\ task = "trial" /\ at = "filled"
  /\ refill
  /\ Cardinality(placed) >= Cardinality(kept)
  /\ Keep

Refilled ==
  /\ task = "trial" /\ at = "filled"
  /\ refill
  /\ Cardinality(placed) > Cardinality(kept)
  /\ Keep

TakeSheet ==
  /\ layout' = [layout EXCEPT ![sheet] = kept]
  /\ remaining' = left
  /\ sheet' = sheet + 1
  /\ kept' = {} /\ left' = {}
  /\ at' = "sheets"
  /\ UNCHANGED <<task, stop, fill, limit, report, untried>>

RefillFailed ==
  /\ task = "trial" /\ at = "filled"
  /\ refill
  /\ Cardinality(placed) <= Cardinality(kept)
  /\ TakeSheet

\* Mutant: the parts that the sheet holds are not passed on.
RefillBeginsUnseeded ==
  /\ at = "deciding"
  /\ left # {} /\ kept # {}
  /\ Continues
  /\ refill' = TRUE
  /\ seeds' = {}
  /\ todo' = left
  /\ placed' = {} /\ drawn' = {} /\ current' = {} /\ missed' = {}
  /\ at' = "preparing"
  /\ UNCHANGED <<task, stop, trial, limit, report, untried>>

RefillBegins ==
  /\ at = "deciding"
  /\ left # {} /\ kept # {}
  /\ Continues
  /\ Fill(left, kept)

SheetEnds ==
  /\ at = "deciding"
  /\ left = {} \/ kept = {} \/ Expired
  /\ TakeSheet

\* The result is given to onLayout, and returned.
TrialEnds ==
  /\ at = "ending"
  /\ report' = [placed |-> layout, unplaced |-> remaining]
  /\ at' = "done"
  /\ UNCHANGED <<task, stop, trial, fill, limit, untried>>

-----------------------------------------------------------------------------
(* refillBitmapLayout                                                      *)

\* Nothing is released, or a part with its 2 to 7 neighbours, if the sheet
\* holds as many.
Release ==
  /\ at = "released"
  /\ \E s \in Sheets, parts \in SUBSET Parts :
       /\ parts \subseteq layout[s]
       /\ \/ parts = {} \/ Cardinality(parts) \in 3 .. 8
          \/ parts = layout[s] /\ Cardinality(parts) < 3
       /\ layout' = [layout EXCEPT ![s] = @ \ parts]
       /\ remaining' = remaining \cup parts
  /\ at' = "offering"
  /\ UNCHANGED <<task, stop, sheet, kept, left, fill, limit, report, untried>>

Offering ==
  /\ at = "offering"
  /\ remaining # {}
  /\ sheet <= Stock
  /\ Continues

\* A sheet is offered the rest; it may be in use and hold no part.
OfferSheet == Offering /\ Fill(remaining, layout[sheet])

NextSheet ==
  /\ sheet' = sheet + 1
  /\ at' = "offering"
  /\ UNCHANGED <<task, stop, kept, left, fill, limit, report, untried>>

\* The incumbent does not use the sheet.
PassSheet ==
  /\ Offering
  /\ report.placed[sheet] = {}
  /\ NextSheet
  /\ UNCHANGED <<layout, remaining>>

SheetRepaired ==
  /\ task = "repair" /\ at = "filled"
  /\ Cardinality(placed) > Cardinality(layout[sheet])
  /\ layout' = [layout EXCEPT ![sheet] = placed]
  /\ remaining' = missed
  /\ NextSheet

SheetKept ==
  /\ task = "repair" /\ at = "filled"
  /\ Cardinality(placed) <= Cardinality(layout[sheet])
  /\ NextSheet
  /\ UNCHANGED <<layout, remaining>>

\* What no sheet holds is unplaced, however that came about.
RepairEnds ==
  /\ at = "offering"
  /\ remaining = {} \/ sheet > Stock \/ Expired
  /\ report' = [placed   |-> layout,
                unplaced |-> Parts \ UNION {layout[s] : s \in Sheets}]
  /\ at' = "done"
  /\ UNCHANGED <<task, stop, trial, fill, limit, untried>>

-----------------------------------------------------------------------------

Step ==
  \/ PrepareStops \/ Prepared
  \/ EnterSeed \/ SeedingStops \/ Seeded
  \/ PlacingStops \/ PartBegins \/ PartMissed \/ PartCut \/ PartFound
  \/ PartPlaced \/ AllTried
  \/ SheetBegins \/ SheetsStop \/ SheetsEnd \/ FirstFilled \/ Refilled
  \/ RefillFailed \/ RefillBegins \/ SheetEnds \/ TrialEnds
  \/ Release \/ OfferSheet \/ PassSheet \/ SheetRepaired \/ SheetKept
  \/ RepairEnds

Next == Step \/ Stop

Spec == Init /\ [][Next]_vars /\ WF_vars(Step)

-----------------------------------------------------------------------------
(* Properties.                                                             *)

\* "Cancellation lost copies" (tests/regression.cpp:197): every layout that
\* is reported or returned holds every part once, on a sheet or unplaced.
Conserved ==
  /\ report.unplaced \cup UNION {report.placed[s] : s \in Sheets} = Parts
  /\ \A s \in Sheets :
       /\ report.placed[s] \cap report.unplaced = {}
       /\ \A t \in Sheets \ {s} : report.placed[s] \cap report.placed[t] = {}

\* Whenever a place for a part is searched, all placed parts are drawn: the
\* raster may be left incomplete only when nothing is searched any more.
RasterComplete == at = "searching" => drawn = placed

\* A trial that reports no interruption has tried every part to the end.
CompletedHonestly ==
  task = "trial" /\ at = "done" /\ ~limit => untried = {}

\* "non-destructive refill" (README.md:470): a new fill of a sheet keeps what
\* was on it, in a trial and in the repair of a copy of the incumbent.
RefillGrows ==
  [][/\ kept \subseteq kept' \/ sheet' > sheet
     /\ at # "released" => \A s \in Sheets : layout[s] \subseteq layout'[s]]_vars

\* "Every successful pass reduces the finite remaining-part count": the
\* trial ends.
TrialReturns == <>(at = "done")

=============================================================================
