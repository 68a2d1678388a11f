------------------------------ MODULE Refinement ------------------------------
(***************************************************************************)
(* What follows the search for places: refineVectors moves the placed      *)
(* parts off the raster towards the edge where the sheet is filled from,   *)
(* and relocateIntoConcavePockets, in a companion search of its own, moves *)
(* parts into the notches of others.  Neither consults the bitmap.  Both   *)
(* work on several views of one layout that must stay the same: the        *)
(* placements that are returned, the contours drawn from them, what is     *)
(* derived from the contours, and the bins that propose neighbours.        *)
(*                                                                         *)
(* Lengths are whole numbers here.                                         *)
(***************************************************************************)
EXTENDS FreeRectangles, PairPatterns

CONSTANTS
  Spot,            \* Spot[k][o]: the contour of k placed at o
  TooClose(_, _),  \* whether two contours violate the clearance
  OnStock,         \* the contours that keep their distance from the edge
  Size,            \* Size[k]: the extents of k along both axes
  Stock,           \* the extents of the sheet
  Edge, Gap,       \* sheetSpacing, and the larger of the other spacings
  Cell,            \* cellSize
  Resolution, Tolerance,
  Notch,           \* Notch[j][k]: where a k lies in the notch of a j at 0
  Spread(_)        \* placementSpreadCost

\* boundsIntersect
Meet(c, d, gap) ==
  /\ c.x - gap < d.x + Size[d.kind].x /\ d.x < c.x + Size[c.kind].x + gap
  /\ c.y - gap < d.y + Size[d.kind].y /\ d.y < c.y + Size[c.kind].y + gap

ASSUME RefinementAssumption ==
  \* What the search accepts is valid without the raster.
  /\ \A p, q \in Placements : TooClose(Spot[p.kind][p.at], Spot[q.kind][q.at]) =>
       <<p, q>> \in Clash \/ Raster[p.kind][p.at] \cap Raster[q.kind][q.at] # {}
  /\ \A p \in Placements :
       /\ p.at \in Inside[p.kind] \cap OnSheet[p.kind]
       /\ Raster[p.kind][p.at] \subseteq Material
       => Spot[p.kind][p.at] \in OnStock
  \* No spacing is larger than the gap, and a distance is the same both ways.
  /\ \A c, d \in OnStock : TooClose(c, d) => TooClose(d, c) /\ Meet(c, d, Gap)
  /\ OnStock \subseteq [kind : Kinds, x : Int, y : Int]
  /\ \A k \in Kinds : Size[k].x \in Nat /\ Size[k].y \in Nat
  /\ Gap \in Nat /\ Tolerance \in Nat /\ Cell \in Nat \ {0}

VARIABLES
  flow,    \* the axis the sheet is filled along, and whether from its end
  stage,   \* where the refinement or the repair is
  pos,     \* layout.sheetplacements
  drawn,   \* absolute, and geometry in the repair
  derived, \* partEdges, and bounds in the repair
  bins,    \* the index of neighbours
  left,    \* the parts that have still to be taken, as hosts in the repair
  donors,  \* the donors of the host in hand
  hand,    \* the part in hand
  axis,    \* whether it is taken along its first or its second axis
  low, high,
  moved,   \* what has moved in this pass, or in the repair
  pass,
  late,    \* the deadline
  refill   \* whether this is the companion search

views == <<pos, drawn, derived, bins>>
probe == <<low, high>>
turn == <<left, donors, hand, axis, moved, pass>>
refined == <<flow, stage, views, turn, probe, late, refill>>

Still == UNCHANGED <<flow, refill, space>> /\ UNCHANGED vars

-----------------------------------------------------------------------------
(* Contours and the index.                                                 *)

Shifted(c, x, y) == [c EXCEPT !.x = @ + x, !.y = @ + y]

\* sheetFillOrder: down and then to the left unless a direction is given.
Along == IF axis = 1 THEN flow.axis ELSE 1 - flow.axis
Sign == IF flow.reverse /\ Along = flow.axis THEN 1 ELSE -1

Advanced(c, amount) == IF Along = 1 THEN Shifted(c, 0, Sign * amount)
                       ELSE Shifted(c, Sign * amount, 0)

\* How far the bounds of a part are from the edge.
Room(c) ==
  LET from == IF Along = 1 THEN c.y ELSE c.x
      to == IF Along = 1 THEN Stock.y - c.y - Size[c.kind].y
            ELSE Stock.x - c.x - Size[c.kind].x
  IN Larger(0, (IF Sign = 1 THEN to ELSE from) - Edge)

\* The cells that the bounds of a contour touch, expanded by a gap.
Cells(c, gap) ==
  ((c.x - gap) \div Cell .. (c.x + Size[c.kind].x + gap) \div Cell)
    \X ((c.y - gap) \div Cell .. (c.y + Size[c.kind].y + gap) \div Cell)

\* Mutant: a neighbour is looked for where the contour is, without the gap.
QueryBounds(c) == {e.part : e \in {f \in bins : f.cell \in Cells(c, 0)}}

\* query
Query(c) == {e.part : e \in {f \in bins : f.cell \in Cells(c, Gap)}}

\* insert: what is stale stays in the index.
Entries(i, c) == [part : {i}, cell : Cells(c, 0)]

\* validShift: a pair of convex shapes is decided by the difference of their
\* placements, unless that is close to the limit; any other pair by the
\* contours and what is derived from them.
ValidShift(i, amount, quick) ==
  LET c == Advanced(drawn[i], amount)
      Collide(view, j) == TooClose(Advanced(view[i], amount), view[j])
  IN /\ {c, Advanced(derived[i], amount)} \subseteq OnStock
     /\ \A j \in Query(c) \ {i} :
          IF quick THEN ~Collide(pos, j)
          ELSE ~Collide(drawn, j) /\ ~Collide(derived, j)

-----------------------------------------------------------------------------
(* refineVectors                                                           *)

RefineInit ==
  /\ SpaceInit
  /\ flow = [axis |-> 1, reverse |-> FALSE]
  /\ stage = "off"
  /\ pos = <<>> /\ drawn = <<>> /\ derived = <<>> /\ bins = {}
  /\ left = {} /\ donors = {} /\ hand = None /\ axis = 1
  /\ low = 0 /\ high = 0 /\ moved = {} /\ pass = 0
  /\ late = FALSE /\ refill = FALSE

\* Everything is derived afresh from the placements.
Draw(placements) ==
  /\ pos' = placements /\ drawn' = placements /\ derived' = placements
  /\ bins' = UNION {Entries(i, placements[i]) : i \in DOMAIN placements}
  /\ left' = DOMAIN placements /\ moved' = {} /\ pass' = 1 /\ axis' = 1
  /\ donors' = {} /\ hand' = None /\ low' = 0 /\ high' = 0

\* The sheet is handed over; what the search remembered is gone.
RefineBegins ==
  /\ phase = "done" /\ stage = "off" /\ placed # {}
  /\ stage' = "turn" /\ late' = expired
  /\ flow' \in Flows
  /\ Draw([p \in placed |-> Spot[p.kind][p.at]])
  /\ config' = [bottomLeft |-> FALSE, patternTrial |-> FALSE]
  /\ rejected' = [k \in Kinds |-> {}] /\ cursor' = [k \in Kinds |-> 0]
  /\ exhausted' = {} /\ failedAt' = [k \in Kinds |-> -1]
  /\ tried' = [k \in Kinds |-> {}] /\ ahead' = [k \in Kinds |-> {}]
  /\ pending' = [k \in Kinds |-> {}] /\ gpu' = Lost
  /\ free' = {} /\ enabled' = FALSE
  /\ UNCHANGED <<todo, sheet, expired, stopped, phase, queue, best, loop,
                 refill>>

\* The deadline expires.
RefineExpires ==
  /\ stage \notin {"off", "refined", "ended"} /\ ~late
  /\ late' = TRUE
  /\ UNCHANGED <<stage, views, turn, probe>> /\ Still

\* The next part, or the same along its other axis; without room it stays.
Turn ==
  /\ stage = "turn" /\ ~late
  /\ \E i \in IF axis = 1 THEN left ELSE {hand} :
       LET room == Room(drawn[i])
       IN /\ hand' = i /\ left' = left \ {i} /\ low' = 0
          /\ IF room <= Tolerance
             THEN stage' = "turn" /\ axis' = 3 - axis /\ high' = 0
             ELSE /\ stage' = "grow" /\ UNCHANGED axis
                  /\ high' = Min({room, Resolution})
  /\ UNCHANGED <<views, donors, moved, pass, late>> /\ Still

\* Longer and longer moves, until one is not valid or there is no more room.
Grow ==
  /\ stage = "grow"
  /\ LET room == Room(drawn[hand])
     IN \/ /\ late /\ stage' = "commit" /\ UNCHANGED probe
        \/ \E quick \in BOOLEAN :
             /\ ~late /\ ValidShift(hand, high, quick)
             /\ low' = high /\ high' = Min({room, 2 * high})
             /\ stage' = IF high >= room THEN "commit" ELSE "grow"
        \/ \E quick \in BOOLEAN :
             /\ ~late /\ ~ValidShift(hand, high, quick)
             /\ stage' = "halve" /\ UNCHANGED probe
  /\ UNCHANGED <<views, turn, late>> /\ Still

\* The bisection between a move that is valid and one that is not.
Halve ==
  /\ stage = "halve"
  /\ LET mid == (low + high) \div 2
     IN \/ /\ late \/ high - low <= Tolerance
           /\ stage' = "commit" /\ UNCHANGED probe
        \/ \E quick \in BOOLEAN :
             /\ ~late /\ high - low > Tolerance
             /\ IF ValidShift(hand, mid, quick)
                THEN low' = mid /\ UNCHANGED high
                ELSE high' = mid /\ UNCHANGED low
             /\ UNCHANGED stage
  /\ UNCHANGED <<views, turn, late>> /\ Still

\* The last valid move is made, also when the deadline ended the search.
Commit ==
  /\ stage = "commit"
  /\ IF low > Tolerance
     THEN /\ pos' = [pos EXCEPT ![hand] = Advanced(@, low)]
          /\ drawn' = [drawn EXCEPT ![hand] = Advanced(@, low)]
          /\ derived' = [derived EXCEPT ![hand] = drawn'[hand]]
          /\ bins' = bins \cup Entries(hand, drawn'[hand])
          /\ moved' = moved \cup {hand}
     ELSE UNCHANGED <<views, moved>>
  /\ stage' = "turn" /\ axis' = 3 - axis /\ low' = 0 /\ high' = 0
  /\ UNCHANGED <<left, donors, hand, pass, late>> /\ Still

\* Up to three passes, as long as something moves.
NextPass ==
  /\ stage = "turn" /\ axis = 1
  /\ IF left = {} /\ moved # {} /\ pass < 3
     THEN /\ left' = DOMAIN pos /\ moved' = {} /\ pass' = pass + 1
          /\ UNCHANGED stage
     ELSE /\ left = {} \/ late
          /\ stage' = IF refill THEN "ended" ELSE "refined"
          /\ UNCHANGED <<left, moved, pass>>
  /\ UNCHANGED <<views, donors, hand, axis, probe, late>> /\ Still

\* The deadline is seen between the two axes of a part.
StopBetween ==
  /\ stage = "turn" /\ axis = 2 /\ late
  /\ stage' = (IF refill THEN "ended" ELSE "refined")
  /\ UNCHANGED <<views, turn, probe, late>> /\ Still

-----------------------------------------------------------------------------
(* relocateIntoConcavePockets                                              *)

\* A companion search with a deadline of its own takes up the layout.
RepairBegins ==
  /\ stage = "refined"
  /\ stage' = "repair" /\ refill' = TRUE /\ late' = FALSE
  /\ Draw(pos)
  /\ UNCHANGED <<flow, space>> /\ UNCHANGED vars

\* The next host; a part that was moved may be one, at its new place.
Host ==
  /\ stage = "repair" /\ donors = {} /\ ~late
  /\ \E i \in left : /\ hand' = i /\ left' = left \ {i}
                     /\ donors' = DOMAIN pos \ {i}
  /\ UNCHANGED <<stage, views, axis, moved, pass, probe, late>> /\ Still

\* What the notch of the host proposes to a donor that would be better there.
Proposed(donor) ==
  {c \in {Shifted(n, drawn[hand].x, drawn[hand].y) :
            n \in Notch[drawn[hand].kind][donor.kind]} :
     Spread(c) < Spread(drawn[donor])}

Relocatable(donor, c) ==
  /\ c \in OnStock
  /\ \A j \in DOMAIN pos \ {donor} :
       Meet(c, derived[j], Gap) => ~TooClose(c, drawn[j])

\* A donor moves once.  It is passed over when it is too large or too near,
\* when nothing is valid, or when the deadline expires.
Donor ==
  /\ stage = "repair" /\ ~late
  /\ \E i \in donors :
       /\ donors' = donors \ {i}
       /\ \/ UNCHANGED <<views, moved>>
          \/ /\ i \notin moved
             /\ \E c \in Proposed(i) :
                  /\ Relocatable(i, c)
                  /\ pos' = [pos EXCEPT ![i] = c]
                  /\ drawn' = [drawn EXCEPT ![i] = c]
                  /\ derived' = [derived EXCEPT ![i] = c]
                  /\ moved' = moved \cup {i}
             /\ UNCHANGED bins
  /\ UNCHANGED <<stage, left, hand, axis, pass, probe, late>> /\ Still

\* A layout in which nothing was relocated is refined instead.
RepairEnds ==
  /\ stage = "repair"
  /\ late \/ (left = {} /\ donors = {})
  /\ IF moved = {} THEN stage' = "turn" /\ Draw(pos)
     ELSE stage' = "ended" /\ UNCHANGED <<views, turn, probe>>
  /\ UNCHANGED late /\ Still

-----------------------------------------------------------------------------

RefineNext ==
  \/ (SpaceNext /\ UNCHANGED refined)
  \/ RefineBegins \/ RefineExpires \/ Turn \/ Grow \/ Halve \/ Commit
  \/ NextPass \/ StopBetween
  \/ RepairBegins \/ Host \/ Donor \/ RepairEnds

RefineSpec == RefineInit /\ [][RefineNext]_<<vars, space, refined>>

-----------------------------------------------------------------------------

\* Whatever has moved, in whatever order, and whenever the deadline stopped
\* it: the parts keep their distance from one another and from the edge, and
\* the placements that are returned are those that were validated.
RefinedValid ==
  stage # "off" =>
    /\ \A i \in DOMAIN pos :
         pos[i] \in OnStock /\ drawn[i] = pos[i] /\ derived[i] = pos[i]
    /\ \A i, j \in DOMAIN pos : i # j => ~TooClose(pos[i], pos[j])

\* In whichever direction the sheet is filled: the patterns of its shapes fill
\* the cells that they promise, without conflicts.
PatternLaidOut == <<flow, TRUE>> \in Directions

=============================================================================
