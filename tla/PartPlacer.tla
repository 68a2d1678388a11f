------------------------------ MODULE PartPlacer ------------------------------
(***************************************************************************)
(* The search for the place of one part after the other on a sheet,        *)
(* placePartsBitmapOnSingleSheet.  Several sources propose origins: holes  *)
(* of placed parts, a repeated pattern, contacts with placed parts, coarse *)
(* grids in a growing window, and at last every origin.  A batch of them   *)
(* is filtered by pixels, on the device or on the CPU, then exactly; what  *)
(* is accepted is moved towards a better score.                            *)
(*                                                                         *)
(* The search remembers much of what it has tried: rejected origins, how   *)
(* far the scan has come, shapes that fit nowhere, holes that are used up, *)
(* flags of the device for origins ahead.  All of it must stay true while  *)
(* the sheet fills, because nothing that is remembered is tried again.     *)
(*                                                                         *)
(* An origin stands for a position and an angle, numbered as they are      *)
(* scanned; the search step is one, rejections are cached, the sheet is    *)
(* empty at first, and a device that fails is given up for the CPU.  The   *)
(* deadline is sticky (SheetTrial is about one that is not).               *)
(***************************************************************************)
EXTENDS Integers, FiniteSets, FiniteSetsExt, Sequences

CONSTANTS
  Kinds,     \* the shapes, each with its angles (searchPolicyKey)
  End,       \* the origins are 0 .. End - 1
  Inside,    \* Inside[k]: where the mask of k lies within the bitmap
  Raster,    \* Raster[k][o]: the pixels of its mask there
  Material,  \* the pixels of the sheet
  OnSheet,   \* OnSheet[k]: where k keeps its distance from the edge
  Clash,     \* the pairs of placements that violate the clearance
  Rank,      \* Rank[k][o]: the score, the smaller the better
  Corners,   \* Corners[k]: what is proposed whatever was placed
  Contacts,  \* Contacts[j][k]: where k may touch a placed j, relative to it
  Pocketed,  \* Pocketed[j][k]: what a hole of j proposes to k, and whether
             \* the hole contains k there
  Pattern,   \* Pattern[k]: the origins of the repeated pattern
  Orders,    \* the sequences of parts that are to be placed
  Batch,     \* how many candidates are validated at once
  Coarse,    \* the step of the coarse grid
  Width,     \* by how much the window grows at least
  Stride     \* the first step of the compaction

Origins == 0 .. End - 1
Placements == [kind : Kinds, at : Origins]

ASSUME PlacerAssumption ==
  /\ End \in Nat \ {0}
  /\ IsFiniteSet(Kinds)
  /\ Inside \in [Kinds -> SUBSET Origins]
  \* A mask has pixels, and every pixel belongs to the bitmap.
  /\ Raster \in [Kinds -> [Origins -> SUBSET Int]]
  /\ \A k \in Kinds, o \in Origins : Raster[k][o] # {}
  /\ OnSheet \in [Kinds -> SUBSET Origins]
  \* The clearance is that of a distance.
  /\ \A p, q \in Placements : <<p, q>> \in Clash => <<q, p>> \in Clash
  /\ Rank \in [Kinds -> [Origins -> Nat]]
  /\ Corners \in [Kinds -> SUBSET Int]
  /\ Contacts \in [Kinds -> [Kinds -> SUBSET Int]]
  /\ Pocketed \in [Kinds -> [Kinds -> SUBSET [at : Int, contained : BOOLEAN]]]
  /\ Pattern \in [Kinds -> SUBSET Origins]
  /\ Orders \subseteq Seq(Kinds)
  /\ Batch \in Nat \ {0} /\ Coarse \in Nat \ {0}
  /\ Width \in Nat \ {0} /\ Stride \in Nat \ {0}

VARIABLES
  config,    \* bitmapBottomLeft and bitmapPatternTrial
  todo,      \* the parts from partIndex on
  placed,    \* the placements, and with them holePockets
  raster,    \* occupancy
  used,      \* usedWidth and usedHeight
  unplaced,  \* out.unplaced
  rejected,  \* rejectedOrigins of each kind
  cursor,    \* fineSearchCursor
  exhausted,
  failedAt,  \* failedContactVersions, -1 when there is none
  tried,     \* exhaustedPockets, as the placements they belong to
  ahead,     \* the origins of the pattern that have been looked ahead
  pending,   \* those that have still to be tried, with the device's flags
  gpu,       \* whether there is a device, and what is on it
  expired,   \* the deadline
  stopped,   \* timeLimitReached
  phase,     \* where the search for the part in hand is
  queue,     \* the candidates it has still to validate
  best,      \* the accepted origin, or None
  window, step, start, round  \* of the growing window and the compaction

memory == <<rejected, cursor, exhausted, failedAt, tried, ahead, pending>>
sheet == <<placed, raster, used, unplaced>>
loop == <<window, step, start, round>>
vars == <<config, todo, sheet, memory, gpu, expired, stopped, phase, queue,
          best, loop>>

None == -1
Part == Head(todo)
Count == Cardinality(placed)

Phases == {"begin", "pockets", "pattern", "propose", "ordered", "coarse",
           "fine", "accepted", "compact", "settle", "done"}

Candidates == [at : Origins, contained : BOOLEAN, flag : BOOLEAN]
Devices == [up : BOOLEAN, masks : SUBSET Kinds, version : Int,
            pixels : SUBSET Int]

\* Every variable keeps its type.
TypeOK ==
  /\ config \in [bottomLeft : BOOLEAN, patternTrial : BOOLEAN]
  /\ todo \in Seq(Kinds) /\ unplaced \in Seq(Kinds)
  /\ placed \in SUBSET Placements /\ IsFiniteSet(placed)
  /\ raster \in SUBSET Int /\ used \in Nat
  /\ rejected \in [Kinds -> SUBSET Origins]
  /\ cursor \in [Kinds -> 0 .. End]
  /\ exhausted \in SUBSET Kinds
  /\ failedAt \in [Kinds -> Int]
  /\ tried \in [Kinds -> SUBSET Placements]
  /\ ahead \in [Kinds -> SUBSET Origins]
  /\ pending \in [Kinds -> SUBSET Candidates]
  /\ gpu \in Devices
  /\ expired \in BOOLEAN /\ stopped \in BOOLEAN
  /\ phase \in Phases
  /\ queue \in SUBSET Candidates
  /\ best \in Origins \cup {None}
  /\ window \in Nat /\ step \in Nat
  /\ start \in Origins \cup {None} /\ round \in 0 .. 8

Init ==
  /\ config \in [bottomLeft : BOOLEAN, patternTrial : BOOLEAN]
  /\ todo \in Orders
  /\ placed = {} /\ raster = {} /\ used = 0 /\ unplaced = <<>>
  /\ rejected = [k \in Kinds |-> {}]
  /\ cursor = [k \in Kinds |-> 0]
  /\ exhausted = {}
  /\ failedAt = [k \in Kinds |-> -1]
  /\ tried = [k \in Kinds |-> {}]
  /\ ahead = [k \in Kinds |-> {}]
  /\ pending = [k \in Kinds |-> {}]
  /\ gpu \in [up : BOOLEAN, masks : {{}}, version : {-1}, pixels : {{}}]
  /\ expired = FALSE /\ stopped = FALSE
  /\ phase = "begin" /\ queue = {} /\ best = None
  /\ window = 0 /\ step = 0 /\ start = None /\ round = 0

-----------------------------------------------------------------------------
(* Candidates and their validation.                                        *)

\* The contours are tested against the edge and the placed parts.
Clear(k, o) == o \in OnSheet[k]
               /\ \A p \in placed : <<[kind |-> k, at |-> o], p>> \notin Clash

\* maskFits
Fits(k, o, pixels) == Raster[k][o] \subseteq Material \ pixels

\* applyMask
Covered(k, o, pixels) == pixels \cup Raster[k][o]

\* Where a part could be placed.
Free(k, o) == o \in Inside[k] /\ Fits(k, o, raster) /\ Clear(k, o)

Candidate(o) == [at |-> o, contained |-> TRUE, flag |-> TRUE]
AsCandidates(S) == {Candidate(o) : o \in S}

\* The orders in which candidates are taken: by score, as they are scanned,
\* or one that does not matter here.
Score == Rank[Part]
Scan == [o \in Origins |-> o]
AnyOrder == [o \in Origins |-> 0]

\* Mutant: the bitmap is uploaded once.
LoadedOnce == [up |-> TRUE, masks |-> {Part}, version |-> Count,
               pixels |-> IF gpu.version >= 0 THEN gpu.pixels ELSE raster]

\* prepareGpu: the bitmap is uploaded unless the device has followed.
Loaded == [up |-> TRUE, masks |-> {Part}, version |-> Count,
           pixels |-> IF gpu.version = Count THEN gpu.pixels ELSE raster]

\* gpuFailed
Lost == [up |-> FALSE, masks |-> {}, version |-> -1, pixels |-> {}]

\* Who filters a batch, and against which pixels.  The device is not asked
\* about nothing, and leaves a batch to the CPU when it fails.
OnCpu == [device |-> gpu, pixels |-> raster]
Filters == {OnCpu} \cup
           IF gpu.up THEN {[device |-> Loaded, pixels |-> Loaded.pixels],
                           [device |-> Lost, pixels |-> raster]}
           ELSE {}

\* What is valid, and what can be valid nowhere any more: that a hole does not
\* contain the part says nothing about the origin.
Valid(k, decided) == {c \in decided : c.contained /\ Clear(k, c.at)}

\* Mutant: what a hole does not contain is rejected too.
FailedOrOutside(k, covered, decided) == covered \cup (decided \ Valid(k, decided))

Failed(k, covered, decided) ==
  covered \cup {c \in decided : c.contained /\ ~Clear(k, c.at)}

\* evaluateBatch: what is known to fail, and what is no better, is left out;
\* the pixels and then the contours decide about the others.  The deadline may
\* expire when some of them are undecided.  Failures are stored as far as
\* their budget allows, and the first of the valid candidates is selected.
Validate(batch, order, select, filter) ==
  LET k == Part
      eligible == {c \in batch :
                     /\ c.at \in Inside[k] \ rejected[k]
                     /\ best = None \/ Rank[k][c.at] < Rank[k][best]}
      covered == {c \in eligible : ~c.flag \/ ~Fits(k, c.at, filter.pixels)}
  IN \E decided \in SUBSET (eligible \ covered) :
       LET valid == Valid(k, decided)
       IN /\ expired' = (decided # eligible \ covered) /\ stopped' = expired'
          /\ \E stored \in SUBSET Failed(k, covered, decided) :
               rejected' = [rejected EXCEPT ![k] = @ \cup {c.at : c \in stored}]
          /\ IF select /\ valid # {}
             THEN \E c \in valid : /\ \A d \in valid : order[c.at] <= order[d.at]
                                   /\ best' = c.at
             ELSE UNCHANGED best
          /\ gpu' = filter.device

\* The next batch of the queue is validated.
ValidateNext(order) ==
  /\ queue # {} /\ ~expired
  /\ \E batch \in SUBSET queue, filter \in Filters :
       /\ Cardinality(batch) = Min({Batch, Cardinality(queue)})
       /\ \A c \in batch, d \in queue \ batch : order[c.at] <= order[d.at]
       /\ Validate(batch, order, TRUE, filter)
       /\ queue' = queue \ batch

\* Where the search goes on, unless the deadline has expired meanwhile.
Goto(place) == phase' = IF expired' THEN "settle" ELSE place

Running == ~expired /\ UNCHANGED <<expired, stopped>>

-----------------------------------------------------------------------------
(* A part is taken.                                                        *)

\* The deadline expires.
Expire ==
  /\ phase # "done" /\ ~expired
  /\ expired' = TRUE
  /\ UNCHANGED <<config, todo, sheet, memory, gpu, stopped, phase, queue, best,
                 loop>>

\* deadline.check(): what was validated is kept.
Interrupt ==
  /\ expired /\ phase \notin {"begin", "settle", "done"}
  /\ stopped' = TRUE /\ phase' = "settle"
  /\ UNCHANGED <<config, todo, sheet, memory, gpu, expired, queue, best, loop>>

Finish ==
  /\ phase = "begin" /\ (todo = <<>> \/ expired)
  /\ stopped' = (stopped \/ todo # <<>>)
  /\ unplaced' = unplaced \o todo
  /\ todo' = <<>> /\ phase' = "done"
  /\ UNCHANGED <<config, placed, raster, used, memory, gpu, expired, queue,
                 best, loop>>

\* Mutant: a failed search is not repeated although the sheet has changed.
SkipFailedEver ==
  /\ phase = "begin" /\ todo # <<>> /\ Running
  /\ config.bottomLeft /\ failedAt[Part] >= 0
  /\ phase' = "settle"
  /\ UNCHANGED <<config, todo, sheet, memory, gpu, queue, best, loop>>

\* A corner-first search that has failed is not repeated on the same sheet.
SkipFailed ==
  /\ phase = "begin" /\ todo # <<>> /\ Running
  /\ config.bottomLeft /\ failedAt[Part] = Count
  /\ phase' = "settle"
  /\ UNCHANGED <<config, todo, sheet, memory, gpu, queue, best, loop>>

\* What the holes propose that a shape has not been tried in yet.
Pockets(k) ==
  UNION {{[at |-> p.at + t.at, contained |-> t.contained, flag |-> TRUE] :
            t \in Pocketed[p.kind][k]} : p \in placed \ tried[k]}

\* The free rectangles may prove that a shape fits nowhere.
Begin ==
  /\ phase = "begin" /\ todo # <<>> /\ Running
  /\ ~(config.bottomLeft /\ failedAt[Part] = Count)
  /\ \/ UNCHANGED exhausted
     \/ /\ placed # {} /\ \A o \in Origins : ~Free(Part, o)
        /\ exhausted' = exhausted \cup {Part}
  /\ phase' = "pockets"
  /\ queue' = IF config.patternTrial
              THEN {c \in Pockets(Part) : c.at \in Origins \ rejected[Part]}
              ELSE {}
  /\ UNCHANGED <<config, todo, sheet, rejected, cursor, failedAt, tried, ahead,
                 pending, gpu, best, loop>>

-----------------------------------------------------------------------------
(* Holes and patterns.                                                     *)

TryPockets ==
  /\ phase = "pockets"
  /\ ValidateNext(AnyOrder)
  /\ Goto(IF best' # None THEN "settle" ELSE "pockets")
  /\ UNCHANGED <<config, todo, sheet, cursor, exhausted, failedAt, tried, ahead,
                 pending, loop>>

NoPocketLeft ==
  /\ phase = "pockets" /\ queue = {} /\ Running
  /\ tried' = IF config.patternTrial THEN [tried EXCEPT ![Part] = placed]
              ELSE tried
  /\ phase' = "pattern"
  /\ UNCHANGED <<config, todo, sheet, rejected, cursor, exhausted, failedAt,
                 ahead, pending, gpu, queue, best, loop>>

HasPattern == ~config.bottomLeft /\ config.patternTrial

\* The next origins of the pattern are validated ahead, without a choice.
LookAhead ==
  /\ phase = "pattern" /\ HasPattern /\ ~expired
  /\ pending[Part] = {} /\ Pattern[Part] \ ahead[Part] # {}
  /\ \E next \in SUBSET (Pattern[Part] \ ahead[Part]), filter \in Filters :
       LET flagged == {[at |-> o, contained |-> TRUE, flag |->
                          filter.device.up => Fits(Part, o, filter.pixels)] :
                         o \in next}
       IN /\ Cardinality(next) =
               Min({Batch, Cardinality(Pattern[Part] \ ahead[Part])})
          /\ Validate(flagged, AnyOrder, FALSE, filter)
          /\ pending' = [pending EXCEPT ![Part] = flagged]
          /\ ahead' = [ahead EXCEPT ![Part] = @ \cup next]
  /\ Goto("pattern")
  /\ UNCHANGED <<config, todo, sheet, cursor, exhausted, failedAt, tried, queue,
                 loop>>

\* One origin is taken; the CPU validates it again.
TryPattern ==
  /\ phase = "pattern" /\ HasPattern /\ ~expired
  /\ \E c \in pending[Part] :
       /\ Validate({c}, AnyOrder, TRUE, OnCpu)
       /\ pending' = IF expired' THEN pending
                     ELSE [pending EXCEPT ![Part] = @ \ {c}]
  /\ Goto(IF best' # None THEN "settle" ELSE "pattern")
  /\ UNCHANGED <<config, todo, sheet, cursor, exhausted, failedAt, tried, ahead,
                 queue, loop>>

NoPatternLeft ==
  /\ phase = "pattern" /\ Running
  /\ HasPattern => pending[Part] = {} /\ Pattern[Part] \subseteq ahead[Part]
  /\ phase' = "propose"
  /\ UNCHANGED <<config, todo, sheet, memory, gpu, queue, best, loop>>

-----------------------------------------------------------------------------
(* Contacts and the window.                                                *)

\* Corners and contacts, each of them once.
Proposals(k) ==
  (Corners[k] \cup UNION {{p.at + d : d \in Contacts[p.kind][k]} : p \in placed})
    \cap (Inside[k] \ rejected[k])

InWindow(limit) == AsCandidates({o \in Proposals(Part) : o < limit})

Larger(m, n) == IF m > n THEN m ELSE n
Capped(limit) == IF limit < End THEN limit ELSE End

\* The occupied part of the sheet and one part more.
FirstWindow == Capped(used + Width)

SkipExhausted ==
  /\ phase = "propose" /\ Running
  /\ Part \in exhausted
  /\ phase' = "settle"
  /\ UNCHANGED <<config, todo, sheet, memory, gpu, queue, best, loop>>

Propose ==
  /\ phase = "propose" /\ Running
  /\ Part \notin exhausted
  /\ window' = IF config.bottomLeft THEN End ELSE FirstWindow
  /\ queue' = InWindow(window')
  /\ phase' = "ordered"
  /\ UNCHANGED <<config, todo, sheet, memory, gpu, best, step, start, round>>

\* evaluateOrdered: the first valid proposal ends the search.
TryOrdered ==
  /\ phase = "ordered"
  /\ ValidateNext(Score)
  /\ Goto(IF best' = None THEN "ordered"
          ELSE IF config.bottomLeft THEN "settle" ELSE "accepted")
  /\ UNCHANGED <<config, todo, sheet, cursor, exhausted, failedAt, tried, ahead,
                 pending, loop>>

\* A corner-first search ends here, any other tries a grid.
NoProposalLeft ==
  /\ phase = "ordered" /\ queue = {} /\ Running
  /\ IF config.bottomLeft THEN phase' = "settle" /\ UNCHANGED queue
     ELSE /\ phase' = "coarse"
          /\ queue' = AsCandidates({o \in Origins : o < window /\ o % Coarse = 0})
  /\ UNCHANGED <<config, todo, sheet, memory, gpu, best, loop>>

\* The best of the grid is taken.
TryCoarse ==
  /\ phase = "coarse"
  /\ ValidateNext(Score)
  /\ Goto("coarse")
  /\ UNCHANGED <<config, todo, sheet, cursor, exhausted, failedAt, tried, ahead,
                 pending, loop>>

GrownWindow == Capped(Larger(window + Width, 2 * window))

CoarseTried ==
  /\ phase = "coarse" /\ queue = {} /\ Running
  /\ IF best = None /\ window < End
     THEN /\ window' = GrownWindow
          /\ queue' = InWindow(window')
          /\ phase' = "ordered"
     ELSE /\ phase' = IF best = None THEN "fine" ELSE "accepted"
          /\ UNCHANGED <<window, queue>>
  /\ UNCHANGED <<config, todo, sheet, memory, gpu, best, step, start, round>>

-----------------------------------------------------------------------------
(* Every origin.                                                           *)

\* A batch from the cursor on; the CPU leaves out what is known to fail.  The
\* cursor stays at an origin that was found: the part may move away from it.
TryFine ==
  /\ phase = "fine" /\ ~expired
  /\ cursor[Part] < End
  /\ \E next \in cursor[Part] + 1 .. End, filter \in Filters :
       LET batch == {o \in cursor[Part] .. next - 1 :
                       filter.device.up \/ o \notin rejected[Part]}
       IN /\ Cardinality(batch) <= Batch
          /\ next = End \/ (Cardinality(batch) = Batch /\ next - 1 \in batch)
          /\ Validate(AsCandidates(batch), Scan, TRUE, filter)
          /\ cursor' = IF expired' THEN cursor
                       ELSE [cursor EXCEPT ![Part] =
                               IF best' # None THEN best' ELSE next]
  /\ Goto(IF best' # None THEN "accepted" ELSE "fine")
  /\ UNCHANGED <<config, todo, sheet, exhausted, failedAt, tried, ahead, pending,
                 queue, loop>>

NothingLeft ==
  /\ phase = "fine" /\ Running
  /\ cursor[Part] = End
  /\ exhausted' = exhausted \cup {Part}
  /\ phase' = "settle"
  /\ UNCHANGED <<config, todo, sheet, rejected, cursor, failedAt, tried, ahead,
                 pending, gpu, queue, best, loop>>

-----------------------------------------------------------------------------
(* Compaction and the end.                                                 *)

\* The neighbours of the accepted origin, at a distance.
Around(size, number) ==
  /\ start' = best /\ step' = size /\ round' = number
  /\ queue' = AsCandidates({best - size, best, best + size} \cap Origins)
  /\ phase' = "compact"

BeginCompaction ==
  /\ phase = "accepted" /\ Running
  /\ Around(Stride, 1)
  /\ UNCHANGED <<config, todo, sheet, memory, gpu, best, window>>

TryCompact ==
  /\ phase = "compact"
  /\ ValidateNext(Score)
  /\ Goto("compact")
  /\ UNCHANGED <<config, todo, sheet, cursor, exhausted, failedAt, tried, ahead,
                 pending, loop>>

\* Again if the part has moved, closer if it has not.
NextRound ==
  /\ phase = "compact" /\ queue = {} /\ Running
  /\ IF best # start /\ round < 8 THEN Around(step, round + 1)
     ELSE IF step > 1 THEN Around(step \div 2, 1)
     ELSE phase' = "settle" /\ UNCHANGED <<start, step, round, queue>>
  /\ UNCHANGED <<config, todo, sheet, memory, gpu, best, window>>

\* The next part starts afresh.
Taken == /\ todo' = Tail(todo) /\ phase' = "begin"
         /\ queue' = {} /\ best' = None
         /\ window' = 0 /\ step' = 0 /\ start' = None /\ round' = 0

Refuse ==
  /\ phase = "settle" /\ best = None
  /\ failedAt' = IF config.bottomLeft /\ ~stopped
                 THEN [failedAt EXCEPT ![Part] = Count] ELSE failedAt
  /\ unplaced' = Append(unplaced, Part)
  /\ Taken
  /\ UNCHANGED <<config, placed, raster, used, rejected, cursor, exhausted,
                 tried, ahead, pending, gpu, expired, stopped>>

\* What the device shows once the mask has been drawn.
Drawn(pixels) ==
  IF gpu.up /\ gpu.masks = {Part} /\ gpu.version = Count /\ ~expired
  THEN {[gpu EXCEPT !.pixels = SymDiff(@, pixels), !.version = Count + 1], Lost}
  ELSE {gpu}

\* Once the deadline has expired nothing is drawn, and nothing searched.
Accept ==
  /\ phase = "settle" /\ best # None
  /\ placed' = placed \cup {[kind |-> Part, at |-> best]}
  /\ raster' = IF expired THEN raster ELSE Covered(Part, best, raster)
  /\ used' = Larger(used, best + 1)
  /\ gpu' \in Drawn(Raster[Part][best])
  /\ Taken
  /\ UNCHANGED <<config, unplaced, memory, expired, stopped>>

-----------------------------------------------------------------------------

Next ==
  \/ Expire \/ Interrupt \/ Finish \/ SkipFailed \/ Begin
  \/ TryPockets \/ NoPocketLeft \/ LookAhead \/ TryPattern \/ NoPatternLeft
  \/ SkipExhausted \/ Propose \/ TryOrdered \/ NoProposalLeft
  \/ TryCoarse \/ CoarseTried \/ TryFine \/ NothingLeft
  \/ BeginCompaction \/ TryCompact \/ NextRound \/ Refuse \/ Accept

Spec == Init /\ [][Next]_vars

-----------------------------------------------------------------------------
(* Properties.                                                             *)

\* What the search remembers never hides a place: where a part could be put,
\* its shape has not been rejected, the scan has not passed, the shape is not
\* taken to be exhausted, and it is not in a hole that is used up.
NothingHidden ==
  ~expired =>
    \A k \in Kinds, o \in Origins : Free(k, o) =>
      /\ o \notin rejected[k] /\ o >= cursor[k] /\ k \notin exhausted
      /\ \A p \in tried[k] :
           [at |-> o - p.at, contained |-> TRUE] \notin Pocketed[p.kind][k]

\* The parts on the sheet keep their distance from one another and from the
\* edge, also those that were accepted when the deadline interrupted a batch;
\* and what the search collides with, on the device too, is what they cover.
LayoutValid ==
  /\ \A p \in placed : p.at \in Inside[p.kind] \cap OnSheet[p.kind]
  /\ \A p, q \in placed : p # q =>
       <<p, q>> \notin Clash /\ Raster[p.kind][p.at] \cap Raster[q.kind][q.at] = {}
  /\ ~expired =>
       /\ raster = UNION {Raster[p.kind][p.at] : p \in placed}
       /\ gpu.up /\ gpu.version = Count => gpu.pixels = raster

\* A part that was searched for to the end, or not at all because an equal
\* one had failed, fits nowhere; with corner-first search, nowhere where
\* that search would look again.
RefusedHonestly ==
  phase = "settle" /\ best = None /\ ~expired =>
    \A o \in IF config.bottomLeft THEN Proposals(Part) ELSE Origins :
      ~Free(Part, o)

=============================================================================
