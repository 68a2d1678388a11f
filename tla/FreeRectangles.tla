---------------------------- MODULE FreeRectangles ----------------------------
(***************************************************************************)
(* How the search for places proves that a shape fits nowhere without      *)
(* trying: FreeRectangles keeps the largest rectangles of pixels that are  *)
(* free of the solid cores of placed parts.  A mask that contains a        *)
(* rectangle too large for all of them cannot be placed.  Parts with thin  *)
(* cores are not subtracted, which only makes the proof weaker.            *)
(*                                                                         *)
(* PartPlacer leaves open when a shape is found to be exhausted; here the  *)
(* rectangles decide.                                                      *)
(***************************************************************************)
EXTENDS PartPlacer

CONSTANTS
  SheetWidth, SheetHeight,  \* of the bitmap
  PixelAt,    \* PixelAt[<<x, y>>]: the pixel there
  Core,       \* Core[k][o]: filledCore of k, where it lies at o
  MaskArea,   \* the area of the mask of k
  Fragments   \* the number of regions that are too many

Rectangles == [x : Int, y : Int, width : Int, height : Int]

\* The pixels of a rectangle, by their coordinates.
Within(px, r) == /\ r.x <= px[1] /\ px[1] < r.x + r.width
                 /\ r.y <= px[2] /\ px[2] < r.y + r.height

Contained(a, b) == /\ b.x <= a.x /\ a.x + a.width <= b.x + b.width
                   /\ b.y <= a.y /\ a.y + a.height <= b.y + b.height

Sheet == [x |-> 0, y |-> 0, width |-> SheetWidth, height |-> SheetHeight]

ASSUME RectangleAssumption ==
  /\ SheetWidth \in Nat \ {0} /\ SheetHeight \in Nat \ {0}
  /\ Fragments \in Nat
  /\ Core \in [Kinds -> [Origins -> Rectangles]]
  /\ MaskArea \in [Kinds -> Nat]
  \* A core consists of pixels of the mask, which lies in the bitmap.
  /\ \A k \in Kinds : \A o \in Inside[k] :
       /\ Contained(Core[k][o], Sheet)
       /\ \A x \in 0 .. SheetWidth - 1, y \in 0 .. SheetHeight - 1 :
            Within(<<x, y>>, Core[k][o]) => PixelAt[<<x, y>>] \in Raster[k][o]

VARIABLES free,    \* free_
          enabled  \* enabled_

space == <<free, enabled>>

-----------------------------------------------------------------------------
(* The rectangles.                                                         *)

\* fits
RectangleFits(r) ==
  \/ ~enabled \/ r.width <= 0 \/ r.height <= 0
  \/ \E f \in free : r.width <= f.width /\ r.height <= f.height

Disjoint(a, b) == \/ a.x + a.width <= b.x \/ b.x + b.width <= a.x
                  \/ a.y + a.height <= b.y \/ b.y + b.height <= a.y

\* Mutant: what is above a used rectangle is forgotten.
StripsBelow(r, core) ==
  {[r EXCEPT !.width = core.x - r.x],
   [r EXCEPT !.x = core.x + core.width,
             !.width = r.x + r.width - core.x - core.width],
   [r EXCEPT !.height = core.y - r.y]}

\* To the left, to the right, below and above.
Strips(r, core) ==
  {[r EXCEPT !.width = core.x - r.x],
   [r EXCEPT !.x = core.x + core.width,
             !.width = r.x + r.width - core.x - core.width],
   [r EXCEPT !.height = core.y - r.y],
   [r EXCEPT !.y = core.y + core.height,
             !.height = r.y + r.height - core.y - core.height]}

\* What is left of a region around a core.
Pieces(r, core) ==
  IF Disjoint(r, core) THEN {r}
  ELSE {p \in Strips(r, core) : p.width > 0 /\ p.height > 0}

\* Those that no other contains.
Maximal(S) == {a \in S : \A b \in S \ {a} : ~Contained(a, b)}

PieceCount(core) ==
  MapThenSumSet(LAMBDA r : Cardinality(Pieces(r, core)), free)

\* occupy
Occupy(core) ==
  IF ~enabled \/ core.width <= 0 \/ core.height <= 0 THEN UNCHANGED space
  ELSE IF PieceCount(core) > Fragments THEN enabled' = FALSE /\ free' = {}
  ELSE /\ free' = Maximal(UNION {Pieces(r, core) : r \in free})
       /\ UNCHANGED enabled

-----------------------------------------------------------------------------
(* Their use in the search.                                                *)

Solid(k, o) == Core[k][o].width * Core[k][o].height >= MaskArea[k] \div 2

\* The cores of the placed parts that have been subtracted.
Subtracted ==
  {c \in {Core[p.kind][p.at] : p \in {q \in placed : Solid(q.kind, q.at)}} :
     c.width > 0 /\ c.height > 0}

SpaceInit == Init /\ free = {Sheet} /\ enabled = TRUE

\* As Begin, but a shape whose cores are too large under every angle is
\* exhausted; clearanceRectangles, fed with wider cores, may prove it too.
BeginWithRectangles ==
  /\ phase = "begin" /\ todo # <<>> /\ Running
  /\ ~(config.bottomLeft /\ failedAt[Part] = Count)
  /\ LET possible == \E o \in Inside[Part] : RectangleFits(Core[Part][o])
     IN \/ (possible \/ placed = {}) /\ UNCHANGED exhausted
        \/ /\ placed # {} /\ (possible => \A o \in Origins : ~Free(Part, o))
           /\ exhausted' = exhausted \cup {Part}
  /\ phase' = "pockets"
  /\ queue' = IF config.patternTrial
              THEN {c \in Pockets(Part) : c.at \in Origins \ rejected[Part]}
              ELSE {}
  /\ UNCHANGED <<config, todo, sheet, rejected, cursor, failedAt, tried, ahead,
                 pending, gpu, best, loop>>
  /\ UNCHANGED space

\* A solid core is subtracted when its part is placed.
AcceptWithRectangles ==
  /\ Accept
  /\ IF Solid(Part, best) THEN Occupy(Core[Part][best]) ELSE UNCHANGED space

\* Nothing else concerns the rectangles.
OtherSteps ==
  /\ \/ Expire \/ Interrupt \/ Finish \/ SkipFailed
     \/ TryPockets \/ NoPocketLeft \/ LookAhead \/ TryPattern \/ NoPatternLeft
     \/ SkipExhausted \/ Propose \/ TryOrdered \/ NoProposalLeft
     \/ TryCoarse \/ CoarseTried \/ TryFine \/ NothingLeft
     \/ BeginCompaction \/ TryCompact \/ NextRound \/ Refuse
  /\ UNCHANGED space

SpaceNext == BeginWithRectangles \/ AcceptWithRectangles \/ OtherSteps

SpaceSpec == SpaceInit /\ [][SpaceNext]_<<vars, space>>

-----------------------------------------------------------------------------

\* However the regions were split and pruned: every rectangle of the bitmap
\* that the subtracted cores leave free lies within one region, so that what
\* fits in no region fits nowhere.
SpaceNeverMissed ==
  LET cores == Subtracted
  IN enabled =>
       \A x \in 0 .. SheetWidth - 1, y \in 0 .. SheetHeight - 1 :
         \A u \in x + 1 .. SheetWidth, v \in y + 1 .. SheetHeight :
           LET r == [x |-> x, y |-> y, width |-> u - x, height |-> v - y]
           IN \/ \E f \in free : Contained(r, f)
              \/ \E c \in cores : ~Disjoint(r, c)

=============================================================================
