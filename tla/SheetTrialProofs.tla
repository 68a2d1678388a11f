--------------------------- MODULE SheetTrialProofs ---------------------------
(***************************************************************************)
(* Proofs about SheetTrial, for any parts and any number of sheets.  With  *)
(* a sticky deadline no layout that is reported loses or doubles a part,   *)
(* refills only add parts, and no place is searched on a raster that       *)
(* misses a part.  A repair conserves the parts with any deadline, and no  *)
(* trial hides an interruption.                                            *)
(*                                                                         *)
(* The argument: an interruption that drops seeds leaves fewer parts on    *)
(* the sheet than it held, and no part is tried after it, because a sticky *)
(* deadline stays expired.  So the count rejects that fill (Lost below).   *)
(***************************************************************************)
EXTENDS SheetTrial, FiniteSetTheorems, TLAPS

Filling == at \in {"preparing", "seeding", "placing", "searching", "accepted",
                   "filled", "deciding"}

\* What the sheet holds while a fill competes with it, and what that fill may
\* place.
Held == IF task = "trial" THEN kept ELSE layout[sheet]
InHand == IF task = "trial" THEN remaining ELSE remaining \cup layout[sheet]

\* What is empty where, and what is counted apart.
Shape ==
  /\ Filling => sheet <= Stock
  /\ at \notin {"preparing", "seeding"} => seeds = {}
  /\ at \notin {"searching", "accepted"} => current = {}
  /\ at = "filled" => todo = {}
  /\ seeds \cap (current \cup todo \cup missed) = {}
  /\ kept \cap left = {}
  /\ ~refill => seeds = {}
  /\ at \in {"preparing", "seeding"} =>
       placed \cup seeds \subseteq Held /\ missed = {}
  /\ at \in {"sheets", "deciding", "ending"} => task = "trial"
  /\ at \in {"released", "offering"} => task = "repair"

\* A repair places only what it has in hand, on sheets that share nothing.
Repair ==
  task = "repair" =>
    /\ \A s \in Sheets : layout[s] \cap remaining = {}
    /\ \A s, t \in Sheets : s # t => layout[s] \cap layout[t] = {}
    /\ Filling => placed \cup seeds \cup current \cup todo \cup missed
                    \subseteq InHand
    /\ Conserved

Base == TypeOK /\ Shape /\ Repair

LEMMA SheetInStock == ASSUME TypeOK, sheet <= Stock PROVE sheet \in Sheets
BY TrialAssumption DEF TrialAssumption, TypeOK, Sheets

\* A layout and a rest that divide the parts make a report that conserves them.
LEMMA ReportConserves ==
  ASSUME NEW f \in [Sheets -> SUBSET Parts], NEW rest \in SUBSET Parts,
         report' = [placed |-> f, unplaced |-> rest],
         \A s \in Sheets : f[s] \cap rest = {},
         \A s, t \in Sheets : s # t => f[s] \cap f[t] = {},
         Parts = rest \cup UNION {f[s] : s \in Sheets}
  PROVE  Conserved'
BY DEF Conserved

LEMMA ReportUnchanged ==
  ASSUME Conserved, UNCHANGED report
  PROVE  Conserved'
BY DEF Conserved

LEMMA InitDivides ==
  ASSUME Init
  PROVE  /\ layout \in [Sheets -> SUBSET Parts] /\ remaining \subseteq Parts
         /\ \A s \in Sheets : layout[s] \cap remaining = {}
         /\ \A s, t \in Sheets : s # t => layout[s] \cap layout[t] = {}
         /\ Parts = remaining \cup UNION {layout[s] : s \in Sheets}
         /\ Conserved
<1>1. CASE TrialInit
  <2>1. layout \in [Sheets -> SUBSET Parts] /\ remaining = Parts
        /\ \A s \in Sheets : layout[s] = {}
    BY <1>1 DEF TrialInit, Nowhere
  <2> QED
    BY <2>1 DEF Init, Conserved
<1>2. CASE RepairInit
  <2>1. PICK place \in [Parts -> 0 .. Stock] :
          /\ layout = [s \in Sheets |-> {p \in Parts : place[p] = s}]
          /\ remaining = {p \in Parts : place[p] = 0}
    BY <1>2 DEF RepairInit
  <2>2. \A p \in Parts : place[p] = 0 \/ place[p] \in Sheets
    BY TrialAssumption DEF TrialAssumption, Sheets
  <2>3. 0 \notin Sheets
    BY DEF Sheets
  <2>4. /\ layout \in [Sheets -> SUBSET Parts] /\ remaining \subseteq Parts
        /\ \A s \in Sheets : layout[s] \cap remaining = {}
        /\ \A s, t \in Sheets : s # t => layout[s] \cap layout[t] = {}
    BY <2>1, <2>3
  <2>5. Parts = remaining \cup UNION {layout[s] : s \in Sheets}
    BY <2>1, <2>2
  <2> QED
    BY <2>4, <2>5 DEF Init, Conserved
<1> QED
  BY <1>1, <1>2 DEF Init

LEMMA InitTyped == Init => Base
<1> SUFFICES ASSUME Init PROVE Base
  OBVIOUS
<1>1. /\ layout \in [Sheets -> SUBSET Parts] /\ remaining \subseteq Parts
      /\ \A s \in Sheets : layout[s] \cap remaining = {}
      /\ \A s, t \in Sheets : s # t => layout[s] \cap layout[t] = {}
      /\ Conserved
  BY InitDivides
<1>2. report \in Layouts
  BY <1>1 DEF Init, Layouts
<1>3. sheet \in 1 .. Stock + 1
  BY TrialAssumption DEF TrialAssumption, Init
<1>4. \/ task = "trial" /\ at = "sheets"
      \/ task = "repair" /\ at = "released"
  BY DEF Init, TrialInit, RepairInit
<1>5. TypeOK
  BY <1>1, <1>2, <1>3, <1>4 DEF Init, TypeOK
<1>6. Shape
  BY <1>4 DEF Init, Shape, Filling
<1>7. Repair
  BY <1>1, <1>4 DEF Repair, Filling
<1> QED
  BY <1>5, <1>6, <1>7 DEF Base

LEMMA FillTyped ==
  ASSUME Base, NEW parts \in SUBSET Parts, NEW from \in SUBSET Parts,
         parts \cap from = {}, from \subseteq Held,
         task = "repair" => parts \cup from \subseteq InHand,
         sheet <= Stock, Fill(parts, from)
  PROVE  Base'
<1>1. TypeOK'
  BY DEF Fill, Base, TypeOK, trial
<1>2. Held' = Held /\ InHand' = InHand
  BY DEF Fill, Held, InHand, trial
<1>3. Shape'
  BY <1>2 DEF Fill, Base, Shape, Filling, trial
<1>4. Repair'
  BY <1>2, ReportUnchanged DEF Fill, Base, Repair, Filling, trial
<1> QED
  BY <1>1, <1>3, <1>4 DEF Base

LEMMA KeepTyped ==
  ASSUME Base, task = "trial", at = "filled", Keep
  PROVE  Base'
<1>1. TypeOK' /\ Repair'
  BY DEF Keep, Base, TypeOK, Repair, fill
<1>2. Shape'
  BY DEF Keep, Base, TypeOK, Shape, Filling, fill
<1> QED
  BY <1>1, <1>2 DEF Base

LEMMA TakeSheetTyped ==
  ASSUME Base, task = "trial", Filling, at \notin {"preparing", "seeding",
         "searching", "accepted"}, TakeSheet
  PROVE  Base'
<1>1. sheet' \in 1 .. Stock + 1
  BY TrialAssumption DEF TrialAssumption, TakeSheet, Base, TypeOK, Shape
<1>2. layout' \in [Sheets -> SUBSET Parts]
  BY DEF TakeSheet, Base, TypeOK
<1>3. TypeOK'
  BY <1>1, <1>2 DEF TakeSheet, Base, TypeOK, fill
<1>4. Shape' /\ Repair'
  BY DEF TakeSheet, Base, Shape, Repair, Filling, fill
<1> QED
  BY <1>3, <1>4 DEF Base

LEMMA PartPlacedTyped ==
  ASSUME Base, PartPlaced
  PROVE  Base'
<1>1. report' \in Layouts
  <2>1. CASE UNCHANGED report
    BY <2>1 DEF Base, TypeOK
  <2>2. CASE ~UNCHANGED report
    BY <2>2 DEF PartPlaced, Snapshot, Layouts, Base, TypeOK
  <2> QED
    BY <2>1, <2>2
<1>2. placed' \subseteq Parts /\ drawn' \subseteq placed'
  BY DEF PartPlaced, Base, TypeOK
<1>3. placed' \cap (seeds' \cup current' \cup todo' \cup missed') = {}
  BY DEF PartPlaced, Base, TypeOK, Shape
<1>4. TypeOK'
  BY <1>1, <1>2, <1>3 DEF PartPlaced, Base, TypeOK, trial
<1>5. Held' = Held /\ InHand' = InHand
  BY DEF PartPlaced, Held, InHand, trial
<1>6. Shape'
  BY <1>5 DEF PartPlaced, Base, Shape, Filling, trial
<1>7. task = "repair" => UNCHANGED report
  BY DEF PartPlaced, Snapshot
<1>8. Repair'
  BY <1>5, <1>7, ReportUnchanged DEF PartPlaced, Base, Repair, Filling, trial
<1> QED
  BY <1>4, <1>6, <1>8 DEF Base

\* A step inside a fill.
LEMMA FillStepTyped ==
  ASSUME Base, PrepareStops \/ Prepared \/ EnterSeed \/ SeedingStops \/ Seeded
               \/ PlacingStops \/ PartBegins \/ PartMissed \/ PartCut
               \/ PartFound \/ AllTried
  PROVE  Base'
<1> USE DEF PrepareStops, Prepared, EnterSeed, SeedingStops, Seeded,
            PlacingStops, PartBegins, PartMissed, PartCut, PartFound, AllTried
<1>0. Held' = Held /\ InHand' = InHand
  BY DEF Held, InHand, trial
<1>1. CASE PrepareStops \/ Prepared \/ Seeded \/ SeedingStops
  BY <1>0, <1>1, ReportUnchanged
     DEF Base, TypeOK, Shape, Repair, Filling, trial, fill
<1>2. CASE EnterSeed
  BY <1>0, <1>2, ReportUnchanged
     DEF Base, TypeOK, Shape, Repair, Filling, trial, fill
<1>3. CASE PlacingStops \/ PartBegins \/ AllTried
  BY <1>0, <1>3, ReportUnchanged
     DEF Base, TypeOK, Shape, Repair, Filling, trial, fill
<1>4. CASE PartMissed \/ PartCut
  BY <1>0, <1>4, ReportUnchanged
     DEF Base, TypeOK, Shape, Repair, Filling, trial, fill
<1>5. CASE PartFound
  BY <1>0, <1>5, ReportUnchanged
     DEF Base, TypeOK, Shape, Repair, Filling, Expired, trial, fill
<1> QED
  BY <1>1, <1>2, <1>3, <1>4, <1>5

LEMMA ReleaseTyped ==
  ASSUME Base, Release
  PROVE  Base'
<1>1. PICK s \in Sheets, parts \in SUBSET Parts :
         /\ parts \subseteq layout[s]
         /\ layout' = [layout EXCEPT ![s] = @ \ parts]
         /\ remaining' = remaining \cup parts
  BY DEF Release
<1>2. \A t \in Sheets : layout'[t] = IF t = s THEN layout[s] \ parts ELSE layout[t]
  BY <1>1 DEF Base, TypeOK
<1>3. layout' \in [Sheets -> SUBSET Parts]
  BY <1>1 DEF Base, TypeOK
<1>4. TypeOK'
  BY <1>1, <1>3 DEF Release, Base, TypeOK, fill
<1>5. Shape'
  BY DEF Release, Base, Shape, Filling, fill
<1>6. task = "repair"
  BY DEF Release, Base, Shape
<1>7. \A t \in Sheets : layout'[t] \cap remaining' = {}
  BY <1>1, <1>2, <1>6 DEF Base, Repair
<1>8. \A t, u \in Sheets : t # u => layout'[t] \cap layout'[u] = {}
  BY <1>2, <1>6 DEF Base, Repair
<1>9. Conserved'
  BY <1>6, ReportUnchanged DEF Release, Base, Repair
<1>10. ~Filling'
  BY DEF Release, Filling
<1> QED
  BY <1>4, <1>5, <1>7, <1>8, <1>9, <1>10 DEF Base, Repair

LEMMA SheetRepairedTyped ==
  ASSUME Base, SheetRepaired
  PROVE  Base'
<1>1. sheet \in Sheets /\ sheet' \in 1 .. Stock + 1
  BY TrialAssumption
     DEF TrialAssumption, SheetRepaired, NextSheet, Base, TypeOK, Shape, Filling,
         Sheets
<1>2. \A t \in Sheets : layout'[t] = IF t = sheet THEN placed ELSE layout[t]
  BY <1>1 DEF SheetRepaired, Base, TypeOK
<1>3. layout' \in [Sheets -> SUBSET Parts] /\ remaining' = missed
  BY DEF SheetRepaired, Base, TypeOK
<1>4. TypeOK'
  BY <1>1, <1>3 DEF SheetRepaired, NextSheet, Base, TypeOK, fill
<1>5. Shape'
  BY DEF SheetRepaired, NextSheet, Base, Shape, Filling, fill
<1>6. placed \cup missed \subseteq remaining \cup layout[sheet]
  BY DEF SheetRepaired, Base, Repair, Filling, InHand
<1>7. \A t \in Sheets : layout'[t] \cap remaining' = {}
  BY <1>1, <1>2, <1>3, <1>6 DEF SheetRepaired, Base, TypeOK, Repair
<1>8. \A t, u \in Sheets : t # u => layout'[t] \cap layout'[u] = {}
  BY <1>1, <1>2, <1>6 DEF SheetRepaired, Base, Repair
<1>9. Conserved'
  BY ReportUnchanged DEF SheetRepaired, NextSheet, Base, Repair
<1>10. ~Filling'
  BY DEF SheetRepaired, NextSheet, Filling
<1> QED
  BY <1>4, <1>5, <1>7, <1>8, <1>9, <1>10 DEF Base, Repair

LEMMA NextSheetTyped ==
  ASSUME Base, PassSheet \/ SheetKept
  PROVE  Base'
<1>1. sheet <= Stock /\ NextSheet /\ UNCHANGED <<layout, remaining>>
  BY DEF PassSheet, SheetKept, Offering, Base, Shape, Filling
<1>2. sheet' \in 1 .. Stock + 1
  BY <1>1, TrialAssumption DEF TrialAssumption, NextSheet, Base, TypeOK
<1>3. TypeOK'
  BY <1>1, <1>2 DEF NextSheet, Base, TypeOK, fill
<1>4. Shape'
  BY <1>1 DEF PassSheet, SheetKept, Offering, NextSheet, Base, Shape, Filling, fill
<1>5. Repair'
  BY <1>1, ReportUnchanged DEF NextSheet, Base, Repair, Filling
<1> QED
  BY <1>3, <1>4, <1>5 DEF Base

LEMMA RepairEndsTyped ==
  ASSUME Base, RepairEnds
  PROVE  Base'
<1> DEFINE rest == Parts \ UNION {layout[s] : s \in Sheets}
<1>1. layout \in [Sheets -> SUBSET Parts] /\ task = "repair"
  BY DEF RepairEnds, Base, TypeOK, Shape
<1>2. /\ \A s \in Sheets : layout[s] \cap rest = {}
      /\ Parts = rest \cup UNION {layout[s] : s \in Sheets}
  BY <1>1
<1>3. report' = [placed |-> layout, unplaced |-> rest]
  BY DEF RepairEnds
<1>4. rest \in SUBSET Parts /\ report' \in Layouts
  BY <1>1, <1>3 DEF Layouts
<1> HIDE DEF rest
<1>5. Conserved'
  BY <1>1, <1>2, <1>3, <1>4, ReportConserves DEF Base, Repair
<1>6. TypeOK'
  BY <1>4 DEF RepairEnds, Base, TypeOK, trial, fill
<1>7. Shape'
  BY DEF RepairEnds, Base, Shape, Filling, trial, fill
<1>8. Repair'
  BY <1>5 DEF RepairEnds, Base, Repair, Filling, trial
<1> QED
  BY <1>6, <1>7, <1>8 DEF Base

\* Steps that only move on or stop.
LEMMA QuietTyped ==
  ASSUME Base, SheetsStop \/ SheetsEnd \/ TrialEnds \/ Stop \/ UNCHANGED vars
  PROVE  Base'
<1>0. Held' = Held /\ InHand' = InHand
  BY DEF SheetsStop, SheetsEnd, TrialEnds, Stop, vars, Held, InHand, trial
<1>1. CASE SheetsStop \/ SheetsEnd
  BY <1>0, <1>1 DEF SheetsStop, SheetsEnd, Base, TypeOK, Shape, Repair, Filling,
     trial, fill
<1>2. CASE TrialEnds
  BY <1>0, <1>2 DEF TrialEnds, Base, TypeOK, Shape, Repair, Filling, Layouts,
     trial, fill
<1>3. CASE Stop \/ UNCHANGED vars
  BY <1>0, <1>3, ReportUnchanged DEF Stop, vars, Base, TypeOK, Shape, Repair,
     Filling, trial, fill
<1> QED
  BY <1>1, <1>2, <1>3

LEMMA OfferTyped ==
  ASSUME Base, OfferSheet
  PROVE  Base' /\ sheet \in Sheets /\ task = "repair"
<1>1. sheet <= Stock /\ task = "repair" /\ Fill(remaining, layout[sheet])
  BY DEF OfferSheet, Offering, Base, Shape
<1>2. sheet \in Sheets
  BY <1>1, SheetInStock DEF Base
<1>3. /\ layout[sheet] \in SUBSET Parts /\ remaining \in SUBSET Parts
      /\ remaining \cap layout[sheet] = {}
  BY <1>1, <1>2 DEF Base, TypeOK, Repair
<1>4. layout[sheet] = Held /\ remaining \cup layout[sheet] = InHand
  BY <1>1 DEF Held, InHand
<1> QED
  BY <1>1, <1>2, <1>3, <1>4, FillTyped

LEMMA StepTyped == Base /\ [Next]_vars => Base'
<1> SUFFICES ASSUME Base, [Next]_vars PROVE Base'
  OBVIOUS
<1>1. CASE PrepareStops \/ Prepared \/ EnterSeed \/ SeedingStops \/ Seeded
           \/ PlacingStops \/ PartBegins \/ PartMissed \/ PartCut
           \/ PartFound \/ AllTried
  BY <1>1, FillStepTyped
<1>2. CASE PartPlaced
  BY <1>2, PartPlacedTyped
<1>3. CASE SheetBegins
  <2>1. task = "trial" /\ remaining \in SUBSET Parts /\ sheet <= Stock
    BY <1>3 DEF SheetBegins, Base, TypeOK, Shape
  <2>2. {} \in SUBSET Parts /\ Fill(remaining, {})
    BY <1>3 DEF SheetBegins
  <2> QED
    BY <2>1, <2>2, FillTyped
<1>4. CASE RefillBegins
  <2>1. task = "trial" /\ left \in SUBSET Parts /\ kept \in SUBSET Parts
        /\ kept \cap left = {} /\ sheet <= Stock /\ Fill(left, kept)
    BY <1>4 DEF RefillBegins, Base, TypeOK, Shape, Filling
  <2>2. kept \subseteq Held
    BY <2>1 DEF Held
  <2> QED
    BY <2>1, <2>2, FillTyped
<1>5. CASE FirstFilled \/ Refilled
  BY <1>5, KeepTyped DEF FirstFilled, Refilled
<1>6. CASE RefillFailed \/ SheetEnds
  <2>1. task = "trial"
    BY <1>6 DEF RefillFailed, SheetEnds, Base, Shape
  <2> QED
    BY <1>6, <2>1, TakeSheetTyped DEF RefillFailed, SheetEnds, Filling
<1>7. CASE SheetsStop \/ SheetsEnd \/ TrialEnds \/ Stop \/ UNCHANGED vars
  BY <1>7, QuietTyped
<1>8. CASE Release \/ OfferSheet \/ SheetRepaired
  BY <1>8, ReleaseTyped, OfferTyped, SheetRepairedTyped
<1>9. CASE PassSheet \/ SheetKept \/ RepairEnds
  BY <1>9, NextSheetTyped, RepairEndsTyped
<1> QED
  BY <1>1, <1>2, <1>3, <1>4, <1>5, <1>6, <1>7, <1>8, <1>9 DEF Next, Step

\* The trial keeps its types, and no fill counts a part twice.
THEOREM TypeCorrect == Spec => []TypeOK
<1>1. Base => TypeOK
  BY DEF Base
<1> QED
  BY <1>1, InitTyped, StepTyped, PTL DEF Spec

\* A repair reports every part exactly once, also with a deadline that hears
\* a stop and forgets it: what was lost on the way is unplaced.
THEOREM RepairConserves == Spec => [](task = "repair" => Conserved)
<1>1. Base => (task = "repair" => Conserved)
  BY DEF Base, Repair
<1> QED
  BY <1>1, InitTyped, StepTyped, PTL DEF Spec

-----------------------------------------------------------------------------
(* No interruption is hidden.                                              *)

\* Whatever leaves a part untried says so, and nothing takes it back.
Honest == ~limit => untried = {}

LEMMA StepHonest ==
  ASSUME limit \in BOOLEAN, Honest, [Next]_vars
  PROVE  Honest'
<1>1. CASE PrepareStops \/ PlacingStops \/ PartCut \/ SheetsStop
  <2>1. limit' = TRUE
    BY <1>1 DEF PrepareStops, PlacingStops, PartCut, SheetsStop
  <2> QED
    BY <2>1 DEF Honest
<1>2. CASE SeedingStops \/ PartFound
  <2>1. untried' = untried /\ (limit => limit')
    BY <1>2 DEF SeedingStops, PartFound
  <2> QED
    BY <2>1 DEF Honest
<1>3. CASE UNCHANGED <<limit, untried>>
  BY <1>3 DEF Honest
<1> QED
  BY <1>1, <1>2, <1>3
     DEF Next, Step, Prepared, EnterSeed, Seeded, PartBegins, PartMissed,
         PartPlaced, AllTried, SheetBegins, SheetsEnd, FirstFilled, Refilled,
         Keep, RefillFailed, TakeSheet, RefillBegins, Fill, SheetEnds,
         TrialEnds, Release, OfferSheet, PassSheet, SheetRepaired, SheetKept,
         NextSheet, RepairEnds, Stop, vars

\* A trial that reports no interruption has tried every part to the end, with
\* either hook: timeLimitReached, once set, stays set.
THEOREM CompletedHonestlyAlways == Spec => []CompletedHonestly
<1>1. Init => Honest
  BY DEF Init, Honest
<1>2. Base /\ Honest /\ [Next]_vars => Honest'
  BY StepHonest DEF Base, TypeOK
<1>3. Honest => CompletedHonestly
  BY DEF Honest, CompletedHonestly
<1> QED
  BY <1>1, <1>2, <1>3, InitTyped, StepTyped, PTL DEF Spec

-----------------------------------------------------------------------------
(* Nothing is lost.                                                        *)

Working == Filling /\ at # "deciding"

\* The parts are divided among the sheets that are done and the rest.
Divided ==
  /\ \A s \in Sheets : s >= sheet => layout[s] = {}
  /\ \A s \in Sheets : layout[s] \cap remaining = {}
  /\ \A s, t \in Sheets : s # t => layout[s] \cap layout[t] = {}
  /\ Parts = remaining \cup UNION {layout[s] : s \in Sheets}

\* The rest is divided by the last fill of the sheet.
Shared ==
  /\ at = "deciding" \/ (Working /\ refill) => kept \cup left = remaining
  /\ at # "deciding" /\ ~(Working /\ refill) => kept = {} /\ left = {}

TrialInv == task = "trial" => Divided /\ Shared /\ Conserved

\* A fill has everything in hand, or it was cut short and is a loser.
Whole ==
  /\ placed \cup seeds \cup current \cup todo \cup missed = InHand
  /\ Held \subseteq placed \cup seeds

Lost ==
  /\ stop
  /\ refill
  /\ at \in {"placing", "filled"}
  /\ placed \subseteq Held

Drawn ==
  at \in {"preparing", "seeding", "searching", "accepted"} \/ ~stop =>
    drawn = placed

IInv == Base /\ TrialInv /\ (Working => Whole \/ Lost) /\ Drawn

LEMMA InitIInv == Init => IInv
<1> SUFFICES ASSUME Init PROVE IInv
  OBVIOUS
<1>1. Base
  BY InitTyped
<1>2. /\ layout \in [Sheets -> SUBSET Parts]
      /\ \A s \in Sheets : layout[s] \cap remaining = {}
      /\ \A s, t \in Sheets : s # t => layout[s] \cap layout[t] = {}
      /\ Parts = remaining \cup UNION {layout[s] : s \in Sheets}
      /\ Conserved
  BY InitDivides
<1>3. ~Working /\ at # "deciding" /\ Drawn
  BY DEF Init, TrialInit, RepairInit, Working, Filling, Drawn
<1>4. task = "trial" => \A s \in Sheets : layout[s] = {}
  BY DEF Init, TrialInit, RepairInit, Nowhere
<1>5. TrialInv
  BY <1>2, <1>3, <1>4 DEF Init, TrialInv, Divided, Shared
<1> QED
  BY <1>1, <1>3, <1>5 DEF IInv

\* Steps inside a fill leave everything else alone.
LEMMA FillStepTrial ==
  ASSUME IInv, UNCHANGED <<task, trial, refill, report>>, Working, Working'
  PROVE  TrialInv' /\ Held' = Held /\ InHand' = InHand
<1>1. task = "trial" => Conserved'
  BY ReportUnchanged DEF IInv, TrialInv
<1> QED
  BY <1>1 DEF IInv, TrialInv, trial, Divided, Shared, Working, Filling, Held, InHand

\* A lost fill does not hold more parts than the fill it would replace.
LEMMA LostIsSmaller ==
  ASSUME Lost, Held \subseteq Parts
  PROVE  ~(Cardinality(placed) > Cardinality(Held))
<1>1. IsFiniteSet(Held)
  BY TrialAssumption, FS_Subset DEF TrialAssumption
<1>2. Cardinality(placed) <= Cardinality(Held) /\ IsFiniteSet(placed)
  BY <1>1, FS_Subset DEF Lost
<1>3. Cardinality(placed) \in Nat /\ Cardinality(Held) \in Nat
  BY <1>1, <1>2, FS_CardinalityType
<1> QED
  BY <1>2, <1>3

LEMMA TakeSheetDivides ==
  ASSUME IInv, task = "trial", sheet <= Stock, kept \cap left = {},
         kept \cup left = remaining, TakeSheet
  PROVE  Divided' /\ Shared'
<1>0. TypeOK /\ Divided
  BY DEF IInv, Base, TrialInv
<1>1. sheet \in Sheets
  BY <1>0, SheetInStock
<1>2. \A s \in Sheets : layout'[s] = IF s = sheet THEN kept ELSE layout[s]
  BY <1>0, <1>1 DEF TakeSheet, TypeOK
<1>3. layout[sheet] = {}
  BY <1>0, <1>1, TrialAssumption DEF TrialAssumption, TypeOK, Divided, Sheets
<1>4. \A s \in Sheets : s >= sheet' => layout'[s] = {}
  BY <1>0, <1>1, <1>2, TrialAssumption
     DEF TrialAssumption, TakeSheet, TypeOK, Divided, Sheets
<1>5. \A s \in Sheets : layout'[s] \cap remaining' = {}
  BY <1>0, <1>2 DEF TakeSheet, Divided
<1>6. \A s, t \in Sheets : s # t => layout'[s] \cap layout'[t] = {}
  BY <1>0, <1>1, <1>2 DEF Divided
<1>7. Parts = remaining' \cup UNION {layout'[s] : s \in Sheets}
  <2>1. ASSUME NEW p \in Parts
        PROVE  p \in remaining' \/ \E s \in Sheets : p \in layout'[s]
    <3>1. p \in remaining \/ \E s \in Sheets : p \in layout[s]
      BY <1>0 DEF Divided
    <3>2. CASE p \in remaining
      BY <1>1, <1>2, <3>2 DEF TakeSheet
    <3>3. CASE \E s \in Sheets : p \in layout[s]
      BY <1>2, <1>3, <3>3
    <3> QED
      BY <3>1, <3>2, <3>3
  <2>2. remaining' \subseteq Parts /\ \A s \in Sheets : layout'[s] \subseteq Parts
    BY <1>0, <1>2 DEF TakeSheet, TypeOK
  <2> QED
    BY <2>1, <2>2
<1>8. Shared'
  BY DEF TakeSheet, Shared, Working, Filling
<1> QED
  BY <1>4, <1>5, <1>6, <1>7, <1>8 DEF Divided

LEMMA SnapshotConserves ==
  ASSUME IInv, task = "trial", Whole, at = "accepted", PartPlaced,
         ~UNCHANGED report
  PROVE  Conserved'
<1> DEFINE f == [layout EXCEPT ![sheet] = placed']
           rest == missed \cup todo
<1>0. TypeOK /\ Divided /\ Shape
  BY DEF IInv, Base, TrialInv
<1>1. sheet \in Sheets
  BY <1>0, SheetInStock DEF Shape, Filling
<1>2. report' = [placed |-> f, unplaced |-> rest]
  BY DEF PartPlaced, Snapshot
<1>3. f \in [Sheets -> SUBSET Parts] /\ rest \in SUBSET Parts
  BY <1>0 DEF PartPlaced, TypeOK
<1>4. \A s \in Sheets : f[s] = IF s = sheet THEN placed' ELSE layout[s]
  BY <1>0, <1>1 DEF TypeOK
<1>5. layout[sheet] = {}
  BY <1>0, <1>1, TrialAssumption DEF TrialAssumption, TypeOK, Divided, Sheets
<1>6. placed' \cup rest = remaining /\ placed' \cap rest = {}
  BY <1>0 DEF PartPlaced, TypeOK, Shape, Whole, InHand
<1> HIDE DEF f, rest
<1>7. \A s \in Sheets : f[s] \cap rest = {}
  BY <1>0, <1>4, <1>6 DEF Divided
<1>8. \A s, t \in Sheets : s # t => f[s] \cap f[t] = {}
  BY <1>0, <1>1, <1>4, <1>6 DEF Divided
<1>9. Parts = rest \cup UNION {f[s] : s \in Sheets}
  <2>1. ASSUME NEW p \in Parts
        PROVE  p \in rest \/ \E s \in Sheets : p \in f[s]
    <3>1. p \in remaining \/ \E s \in Sheets : p \in layout[s]
      BY <1>0 DEF Divided
    <3>2. CASE p \in remaining
      BY <1>1, <1>4, <1>6, <3>2
    <3>3. CASE \E s \in Sheets : p \in layout[s]
      BY <1>4, <1>5, <3>3
    <3> QED
      BY <3>1, <3>2, <3>3
  <2>2. \A s \in Sheets : f[s] \subseteq Parts
    BY <1>3
  <2> QED
    BY <1>3, <2>1, <2>2
<1> QED
  BY <1>2, <1>3, <1>7, <1>8, <1>9, ReportConserves

\* A new fill has everything in hand: the seeds and the parts to be tried.
LEMMA FillInHand ==
  ASSUME IInv, NEW parts, NEW from, Fill(parts, from), Held = from,
         parts \cup from = InHand,
         task = "trial" => at = IF from = {} THEN "sheets" ELSE "deciding"
  PROVE  TrialInv' /\ Whole' /\ Drawn'
<1>1. Held' = Held /\ InHand' = InHand
  BY DEF Fill, Held, InHand, trial
<1>2. Whole' /\ Drawn'
  BY <1>1 DEF Fill, Whole, Drawn
<1>3. ASSUME task = "trial" PROVE Divided' /\ Shared' /\ Conserved'
  <2>1. Divided' /\ Conserved'
    BY <1>3, ReportUnchanged DEF Fill, trial, IInv, TrialInv, Divided
  <2>2. at' = "preparing" /\ kept' = kept /\ left' = left
        /\ remaining' = remaining /\ refill' = (from # {}) /\ Shared
    BY <1>3 DEF Fill, trial, IInv, TrialInv
  <2>3. CASE from = {}
    BY <1>3, <2>1, <2>2, <2>3 DEF Shared, Working, Filling
  <2>4. CASE from # {}
    BY <1>3, <2>1, <2>2, <2>4 DEF Shared, Working, Filling
  <2> QED
    BY <2>1, <2>3, <2>4
<1> QED
  BY <1>2, <1>3 DEF Fill, TrialInv

LEMMA StepIInv == ~Pulsed /\ IInv /\ [Next]_vars => IInv'
<1> SUFFICES ASSUME ~Pulsed, IInv, [Next]_vars PROVE IInv'
  OBVIOUS
<1> USE DEF Expired, Continues
<1>0. Base' /\ TypeOK /\ Shape /\ Repair
  BY StepTyped DEF IInv, Base
<1> SUFFICES TrialInv' /\ (Working' => Whole' \/ Lost') /\ Drawn'
  BY <1>0 DEF IInv
<1>1. CASE PrepareStops
  <2>1. TrialInv' /\ Held' = Held /\ InHand' = InHand
    BY <1>1, FillStepTrial DEF PrepareStops, Working, Filling
  <2>2. CASE refill
    BY <1>0, <1>1, <2>1, <2>2 DEF PrepareStops, Shape, Lost, IInv, Drawn
  <2>3. CASE ~refill
    <3>1. seeds = {} /\ Whole /\ missed = {}
      BY <1>0, <1>1, <2>3 DEF PrepareStops, IInv, Shape, Lost, Working, Filling
    <3>2. Whole'
      BY <1>1, <2>1, <3>1 DEF PrepareStops, Whole
    <3> QED
      BY <1>1, <2>1, <3>2 DEF PrepareStops, IInv, Drawn
  <2> QED
    BY <2>2, <2>3
<1>2. CASE Prepared
  <2>1. TrialInv' /\ Held' = Held /\ InHand' = InHand
    BY <1>2, FillStepTrial DEF Prepared, fill, Working, Filling
  <2> QED
    BY <1>2, <2>1 DEF Prepared, fill, IInv, Whole, Lost, Working, Filling, Drawn
<1>3. CASE EnterSeed
  <2>1. TrialInv' /\ Held' = Held /\ InHand' = InHand
    BY <1>3, FillStepTrial DEF EnterSeed, Working, Filling
  <2>2. Whole'
    BY <1>3, <2>1 DEF EnterSeed, IInv, Whole, Lost, Working, Filling
  <2> QED
    BY <1>3, <2>1, <2>2 DEF EnterSeed, Drawn, IInv
<1>4. CASE SeedingStops
  <2>1. TrialInv' /\ Held' = Held /\ InHand' = InHand
    BY <1>4, FillStepTrial DEF SeedingStops, Working, Filling
  <2>2. refill /\ placed \subseteq Held
    BY <1>0, <1>4 DEF SeedingStops, Shape
  <2>3. Lost'
    BY <1>4, <2>1, <2>2 DEF SeedingStops, Lost
  <2> QED
    BY <1>4, <2>1, <2>3 DEF SeedingStops, Drawn, IInv
<1>5. CASE Seeded
  <2>1. TrialInv' /\ Held' = Held /\ InHand' = InHand
    BY <1>5, FillStepTrial DEF Seeded, fill, Working, Filling
  <2> QED
    BY <1>5, <2>1 DEF Seeded, fill, IInv, Whole, Lost, Working, Filling, Drawn
<1>6. CASE PlacingStops
  <2>1. TrialInv' /\ Held' = Held /\ InHand' = InHand
    BY <1>6, FillStepTrial DEF PlacingStops, Working, Filling
  <2>2. Whole' \/ Lost'
    BY <1>6, <2>1 DEF PlacingStops, IInv, Whole, Lost, Working, Filling
  <2> QED
    BY <1>6, <2>1, <2>2 DEF PlacingStops, Drawn, IInv
<1>7. CASE PartBegins
  <2>1. TrialInv' /\ Held' = Held /\ InHand' = InHand
    BY <1>7, FillStepTrial DEF PartBegins, Working, Filling
  <2>2. Whole'
    BY <1>0, <1>7, <2>1 DEF PartBegins, IInv, Shape, Whole, Lost, Working, Filling
  <2> QED
    BY <1>7, <2>1, <2>2 DEF PartBegins, Drawn, IInv
<1>8. CASE PartMissed \/ PartCut
  <2>1. TrialInv' /\ Held' = Held /\ InHand' = InHand
    BY <1>8, FillStepTrial DEF PartMissed, PartCut, Working, Filling
  <2>2. Whole
    BY <1>8 DEF PartMissed, PartCut, IInv, Lost, Working, Filling
  <2>3. UNCHANGED <<placed, seeds, todo>>
        /\ missed' = missed \cup current /\ current' = {}
    BY <1>8 DEF PartMissed, PartCut
  <2>4. Whole'
    BY <2>1, <2>2, <2>3 DEF Whole
  <2> QED
    BY <1>8, <2>1, <2>4 DEF PartMissed, PartCut, Drawn, IInv
<1>9. CASE PartFound
  <2>1. TrialInv' /\ Held' = Held /\ InHand' = InHand
    BY <1>9, FillStepTrial DEF PartFound, fill, Working, Filling
  <2> QED
    BY <1>9, <2>1 DEF PartFound, fill, IInv, Whole, Lost, Working, Filling, Drawn
<1>10. CASE PartPlaced
  <2>1. Held' = Held /\ InHand' = InHand
    BY <1>10 DEF PartPlaced, trial, Held, InHand
  <2>2. Whole
    BY <1>10 DEF PartPlaced, IInv, Lost, Working, Filling
  <2>3. UNCHANGED <<seeds, todo, missed>>
        /\ placed' = placed \cup current /\ current' = {}
    BY <1>10 DEF PartPlaced
  <2>4. Whole' /\ Drawn'
    BY <1>10, <2>1, <2>2, <2>3 DEF PartPlaced, IInv, Whole, Drawn
  <2>5. CASE UNCHANGED report
    BY <1>10, <2>4, <2>5, FillStepTrial DEF PartPlaced, Working, Filling
  <2>6. CASE ~UNCHANGED report
    <3>1. task = "trial" /\ at = "accepted"
      BY <1>10, <2>6 DEF PartPlaced, Snapshot
    <3>2. Conserved'
      BY <1>10, <2>2, <2>6, <3>1, SnapshotConserves
    <3>3. Divided' /\ Shared'
      BY <1>10, <3>1 DEF PartPlaced, trial, IInv, TrialInv, Divided, Shared,
         Working, Filling
    <3> QED
      BY <2>4, <3>2, <3>3 DEF TrialInv
  <2> QED
    BY <2>5, <2>6
<1>11. CASE AllTried
  <2>1. TrialInv' /\ Held' = Held /\ InHand' = InHand
    BY <1>11, FillStepTrial DEF AllTried, fill, Working, Filling
  <2> QED
    BY <1>11, <2>1 DEF AllTried, fill, IInv, Whole, Lost, Working, Filling, Drawn
<1>12. CASE SheetBegins
  <2>1. task = "trial" /\ at = "sheets"
    BY <1>0, <1>12 DEF SheetBegins, Shape
  <2>2. Held = {} /\ InHand = remaining
    BY <2>1 DEF IInv, TrialInv, Shared, Working, Filling, Held, InHand
  <2> QED
    BY <1>12, <2>1, <2>2, FillInHand DEF SheetBegins
<1>13. CASE SheetsStop \/ SheetsEnd
  <2>1. Conserved => Conserved'
    BY <1>13, ReportUnchanged DEF SheetsStop, SheetsEnd
  <2> QED
    BY <1>13, <2>1
       DEF SheetsStop, SheetsEnd, trial, fill, IInv, TrialInv, Divided, Shared,
           Drawn, Working, Filling
<1>14. CASE FirstFilled \/ Refilled
  <2>1. task = "trial" /\ at = "filled" /\ Keep
    BY <1>14 DEF FirstFilled, Refilled
  <2>2. Held = kept /\ InHand = remaining
    BY <2>1 DEF Held, InHand
  <2>3. Whole
    BY <1>0, <1>14, <2>2, LostIsSmaller
       DEF FirstFilled, Refilled, IInv, TypeOK, Lost, Working, Filling
  <2>4. kept' \cup left' = remaining'
    BY <1>0, <2>1, <2>2, <2>3 DEF Keep, Shape, Whole
  <2>5. Conserved'
    BY <2>1, ReportUnchanged DEF Keep, IInv, TrialInv
  <2> QED
    BY <2>1, <2>4, <2>5
       DEF Keep, fill, IInv, TrialInv, Divided, Shared, Drawn, Working, Filling
<1>15. CASE RefillFailed \/ SheetEnds
  <2>1. task = "trial" /\ TakeSheet /\ sheet <= Stock
    BY <1>0, <1>15 DEF RefillFailed, SheetEnds, Shape, Filling
  <2>2. kept \cap left = {} /\ kept \cup left = remaining
    BY <1>0, <1>15, <2>1
       DEF RefillFailed, SheetEnds, IInv, Shape, TrialInv, Shared, Working, Filling
  <2>3. Divided' /\ Shared'
    BY <2>1, <2>2, TakeSheetDivides
  <2>4. Conserved'
    BY <2>1, ReportUnchanged DEF TakeSheet, IInv, TrialInv
  <2> QED
    BY <2>1, <2>3, <2>4
       DEF TakeSheet, fill, IInv, TrialInv, Drawn, Working, Filling
<1>16. CASE RefillBegins
  <2>1. task = "trial" /\ kept \cup left = remaining /\ kept # {}
    BY <1>0, <1>16 DEF RefillBegins, IInv, Shape, TrialInv, Shared
  <2>2. Held = kept /\ InHand = remaining
    BY <2>1 DEF Held, InHand
  <2> QED
    BY <1>16, <2>1, <2>2, FillInHand DEF RefillBegins
<1>17. CASE TrialEnds
  <2>1. task = "trial" /\ Divided
    BY <1>0, <1>17 DEF TrialEnds, Shape, IInv, TrialInv
  <2>2. Conserved'
    BY <1>0, <1>17, <2>1, ReportConserves DEF TrialEnds, TypeOK, Divided
  <2> QED
    BY <1>17, <2>2
       DEF TrialEnds, trial, fill, IInv, TrialInv, Divided, Shared, Drawn,
           Working, Filling
<1>18. CASE Stop \/ UNCHANGED vars
  <2>1. Held' = Held /\ InHand' = InHand /\ (Conserved => Conserved')
    BY <1>18, ReportUnchanged DEF Stop, vars, trial, Held, InHand
  <2> QED
    BY <1>18, <2>1
       DEF Stop, vars, trial, fill, IInv, TrialInv, Divided, Shared, Drawn,
           Whole, Lost, Working, Filling
<1>19. CASE OfferSheet
  <2>1. task = "repair" /\ Fill(remaining, layout[sheet]) /\ at = "offering"
    BY <1>0, <1>19 DEF OfferSheet, Offering, Shape
  <2>2. Held = layout[sheet] /\ InHand = remaining \cup layout[sheet]
    BY <2>1 DEF Held, InHand
  <2> QED
    BY <2>1, <2>2, FillInHand
<1>20. CASE Release \/ PassSheet \/ SheetRepaired \/ SheetKept \/ RepairEnds
  <2>1. task' = "repair" /\ ~Working' /\ UNCHANGED <<placed, drawn, stop>>
        /\ at' \in {"offering", "done"}
    BY <1>0, <1>20
       DEF Release, PassSheet, SheetRepaired, SheetKept, RepairEnds, Offering,
           NextSheet, fill, Shape, Working, Filling
  <2> QED
    BY <2>1 DEF TrialInv, IInv, Drawn
<1> QED
  BY <1>1, <1>2, <1>3, <1>4, <1>5, <1>6, <1>7, <1>8, <1>9, <1>10, <1>11, <1>12,
     <1>13, <1>14, <1>15, <1>16, <1>17, <1>18, <1>19, <1>20 DEF Next, Step

\* With a sticky deadline every layout that is reported or returned holds
\* every part exactly once, wherever the search is interrupted.
THEOREM ConservedAlways ==
  ASSUME ~Pulsed
  PROVE  Spec => []Conserved
<1>1. IInv /\ [Next]_vars => IInv'
  BY StepIInv
<1>2. IInv => Conserved
  BY DEF IInv, Base, TypeOK, Repair, TrialInv
<1> QED
  BY <1>1, <1>2, InitIInv, PTL DEF Spec

\* With a sticky deadline no place is searched while a placed part is missing
\* from the raster.
THEOREM RasterCompleteAlways ==
  ASSUME ~Pulsed
  PROVE  Spec => []RasterComplete
<1>1. IInv /\ [Next]_vars => IInv'
  BY StepIInv
<1>2. IInv => RasterComplete
  BY DEF IInv, Drawn, RasterComplete
<1> QED
  BY <1>1, <1>2, InitIInv, PTL DEF Spec

\* What a step does to the fill that is kept and to the layout.
LEMMA StepGrows ==
  ASSUME IInv, [Next]_vars
  PROVE  /\ kept \subseteq kept' \/ sheet' > sheet
         /\ at # "released" => \A s \in Sheets : layout[s] \subseteq layout'[s]
<1>0. TypeOK /\ Shape
  BY DEF IInv, Base
<1>1. CASE FirstFilled
  BY <1>1 DEF FirstFilled, Keep, IInv, TrialInv, Shared, Working, Filling
<1>2. CASE Refilled
  <2>1. Held = kept
    BY <1>2 DEF Refilled, Held
  <2>2. Whole
    BY <1>0, <1>2, <2>1, LostIsSmaller DEF Refilled, IInv, TypeOK, Working, Filling
  <2> QED
    BY <1>0, <1>2, <2>1, <2>2 DEF Refilled, Keep, Shape, Whole
<1>3. CASE RefillFailed \/ SheetEnds
  <2>1. task = "trial" /\ TakeSheet /\ sheet <= Stock
    BY <1>0, <1>3 DEF RefillFailed, SheetEnds, Shape, Filling
  <2>2. sheet \in Sheets /\ layout[sheet] = {}
    BY <1>0, <2>1, SheetInStock, TrialAssumption
       DEF TrialAssumption, TypeOK, IInv, TrialInv, Divided, Sheets
  <2>3. \A s \in Sheets : layout'[s] = IF s = sheet THEN kept ELSE layout[s]
    BY <1>0, <2>1 DEF TakeSheet, TypeOK
  <2>4. sheet' > sheet
    BY <1>0, <2>1, TrialAssumption DEF TrialAssumption, TakeSheet, TypeOK
  <2> QED
    BY <2>2, <2>3, <2>4
<1>4. CASE SheetRepaired
  <2>1. task = "repair" /\ at = "filled" /\ sheet \in Sheets
    BY <1>0, <1>4, SheetInStock DEF SheetRepaired, Shape, Filling
  <2>2. Held = layout[sheet] /\ Held \subseteq Parts
    BY <1>0, <2>1 DEF Held, TypeOK
  <2>3. Held \subseteq placed
    BY <1>0, <1>4, <2>1, <2>2, LostIsSmaller
       DEF SheetRepaired, IInv, Shape, Whole, Working, Filling
  <2>4. \A s \in Sheets : layout'[s] = IF s = sheet THEN placed ELSE layout[s]
    BY <1>0, <1>4 DEF SheetRepaired, TypeOK
  <2> QED
    BY <1>4, <2>2, <2>3, <2>4 DEF SheetRepaired, NextSheet
<1>5. CASE UNCHANGED kept /\ (at = "released" \/ UNCHANGED layout)
  BY <1>5
<1> QED
  BY <1>1, <1>2, <1>3, <1>4, <1>5
     DEF Next, Step, PrepareStops, Prepared, EnterSeed, SeedingStops, Seeded,
         PlacingStops, PartBegins, PartMissed, PartCut, PartFound, PartPlaced,
         AllTried, SheetBegins, SheetsStop, SheetsEnd, RefillBegins, Fill,
         TrialEnds, Release, OfferSheet, PassSheet, SheetKept, RepairEnds,
         NextSheet, Stop, trial, vars

\* With a sticky deadline a refill of a sheet keeps every part it held.
THEOREM RefillGrowsAlways ==
  ASSUME ~Pulsed
  PROVE  Spec => RefillGrows
<1>1. IInv /\ [Next]_vars => IInv'
  BY StepIInv
<1>2. IInv /\ [Next]_vars =>
        [/\ kept \subseteq kept' \/ sheet' > sheet
         /\ at # "released" => \A s \in Sheets : layout[s] \subseteq layout'[s]]_vars
  BY StepGrows
<1> QED
  BY <1>1, <1>2, InitIInv, PTL DEF Spec, RefillGrows

=============================================================================
