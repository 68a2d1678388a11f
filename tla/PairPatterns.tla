----------------------------- MODULE PairPatterns -----------------------------
(***************************************************************************)
(* Repeated patterns of one shape: the cells of a grid, or of rows of which *)
(* every second one is shifted and the pitch is squeezed below the size of  *)
(* the motif.  What is certified before such a pattern is used, and the     *)
(* order in which its positions are proposed.                               *)
(*                                                                          *)
(* A motif is a set of pixels.  The contact heights and widths that are     *)
(* proposed as pitches are any numbers in the range the code bounds them to.*)
(***************************************************************************)
EXTENDS Integers, FiniteSets

CONSTANTS MotifSides,  \* widths and heights of motifs
          SheetSides,
          Gaps,        \* clearances between two parts, in pixels
          Edges        \* and to the edge of the sheet

ASSUME PatternAssumption ==
  /\ MotifSides \subseteq Nat \ {0}
  /\ SheetSides \subseteq Nat /\ Gaps \subseteq Nat /\ Edges \subseteq Nat

Motifs(size) ==
  LET box == (0 .. size[1] - 1) \X (0 .. size[2] - 1)
  IN {S \in SUBSET box : \A i \in {1, 2} : \A end \in {0, size[i] - 1} :
                            \E px \in S : px[i] = end}

\* A motif in its own clearance area is without a conflict with a copy of it
\* at (dx, dy).
Abs(n) == IF n < 0 THEN -n ELSE n
Compatible(S, gap, dx, dy) ==
  \A a, b \in S : Abs(a[1] - b[1] - dx) > gap \/ Abs(a[2] - b[2] - dy) > gap

-----------------------------------------------------------------------------
(* The patterns of a motif of size w x h on a sheet.                       *)

\* A grid of the boxes of the motif.
GridPattern(size, sheet, gap, edge) ==
  [width |-> size[1] + gap, height |-> size[2] + gap,
   columns |-> (sheet[1] - 2 * edge + gap) \div (size[1] + gap),
   oddColumns |-> -1,
   rows |-> (sheet[2] - 2 * edge + gap) \div (size[2] + gap),
   rowShift |-> 0]

\* makePairPattern leaves boxes out that are larger than the sheet.
GridPatterns(size, sheet, gap, edge) ==
  IF size[1] + gap > sheet[1] \/ size[2] + gap > sheet[2] THEN {}
  ELSE {p \in {GridPattern(size, sheet, gap, edge)} : p.columns > 0 /\ p.rows > 0}

Smallest(n) == IF n >= 4 THEN (n + 3) \div 4 ELSE 1

\* The pitches of a row at which no two copies in it are in conflict.
Pitches(S, size, gap) ==
  LET far == size[1] + gap
  IN {far} \cup {x \in Smallest(far) .. far :
                   \A k \in 1 .. far : k * x <= far => Compatible(S, gap, k * x, 0)}

Staggered(size, sheet, edge, x, y, shift) ==
  LET room == sheet[1] - 2 * edge - size[1]
      odd == IF room >= shift THEN 1 + (room - shift) \div x ELSE 0
  IN [width |-> x, height |-> y, columns |-> 1 + room \div x, oddColumns |-> odd,
      rows |-> IF odd = 0 THEN 1 ELSE 1 + (sheet[2] - 2 * edge - size[2]) \div y,
      rowShift |-> shift]

\* Mutant: the rows above are only tried to the right.
CertifiedRightwards(S, size, gap, p) ==
  \A row \in 1 .. p.rows - 1 :
    row * p.height <= size[2] + gap =>
      LET offset == IF row % 2 = 1 THEN p.rowShift ELSE 0
          extent == (size[1] + gap + offset) \div p.width + 1
      IN \A k \in (-extent) .. extent :
           Compatible(S, gap, offset + k * p.width, row * p.height)

\* Every row that reaches into the clearance of the first one is tried at both
\* offsets: a shifted row above an unshifted one, and the reverse.
Certified(S, size, gap, p) ==
  \A row \in 1 .. p.rows - 1, sign \in {-1, 1} :
    (row * p.height <= size[2] + gap /\ (sign > 0 \/ row + 1 < p.rows)) =>
      LET offset == IF row % 2 = 1 THEN sign * p.rowShift ELSE 0
          extent == (size[1] + gap + Abs(offset)) \div p.width + 1
      IN \A k \in (-extent) .. extent :
           Compatible(S, gap, offset + k * p.width, row * p.height)

\* improveInterlockingPattern
Interlocking(S, size, sheet, gap, edge) ==
  IF size[1] > sheet[1] - 2 * edge \/ size[2] > sheet[2] - 2 * edge THEN {}
  ELSE LET far == size[2] + gap
       IN {p \in UNION {{Staggered(size, sheet, edge, x, y, shift) :
                            y \in Smallest(far) .. far,
                            shift \in {0, x \div 4, x \div 2, (3 * x) \div 4}} :
                          x \in Pitches(S, size, gap)} : Certified(S, size, gap, p)}

-----------------------------------------------------------------------------
(* The cells of a pattern, in the order in which they are proposed.  Fill is *)
(* the direction in which a sheet is to be filled: the axis, and whether    *)
(* it is reversed.  Without one, rows are filled upwards.                   *)

Flows == [axis : {0, 1}, reverse : BOOLEAN]

Capacity(p) ==
  IF p.oddColumns < 0 THEN p.columns * p.rows
  ELSE p.columns * ((p.rows + 1) \div 2) + p.oddColumns * (p.rows \div 2)

GridCell(p, fill, cell) ==
  LET col == IF fill.axis = 0 THEN cell \div p.rows ELSE cell % p.columns
      row == IF fill.axis = 0 THEN cell % p.rows ELSE cell \div p.columns
  IN IF ~fill.reverse THEN <<col, row>>
     ELSE IF fill.axis = 0 THEN <<p.columns - 1 - col, row>>
     ELSE <<col, p.rows - 1 - row>>

\* Column after column: first those that both kinds of rows have.
StaggeredColumns(p, cell) ==
  LET both == IF p.columns < p.oddColumns THEN p.columns ELSE p.oddColumns
      rest == cell - both * p.rows
      more == p.columns > p.oddColumns
      extra == IF more THEN (p.rows + 1) \div 2 ELSE p.rows \div 2
  IN IF rest < 0 THEN <<cell \div p.rows, cell % p.rows>>
     ELSE <<both + (rest \div extra), 2 * (rest % extra) + (IF more THEN 0 ELSE 1)>>

\* Pairs of rows, one after another.
StaggeredRows(p, cell) ==
  LET pair == cell \div (p.columns + p.oddColumns)
      offset == cell % (p.columns + p.oddColumns)
  IN IF offset < p.columns THEN <<offset, 2 * pair>>
     ELSE <<offset - p.columns, 2 * pair + 1>>

CellOf(p, fill, cell) ==
  LET i == IF fill.reverse THEN Capacity(p) - 1 - cell ELSE cell
  IN IF p.oddColumns < 0 THEN GridCell(p, fill, cell)
     ELSE IF fill.axis = 0 THEN StaggeredColumns(p, i) ELSE StaggeredRows(p, i)

\* next
Position(p, fill, cell) ==
  LET c == CellOf(p, fill, cell)
  IN <<c[1] * p.width + (IF p.oddColumns >= 0 /\ c[2] % 2 = 1 THEN p.rowShift ELSE 0),
       c[2] * p.height>>

-----------------------------------------------------------------------------
(* Properties.                                                             *)

\* The positions of a pattern are all on the sheet.
WithinSheet(origin, size, sheet, edge) ==
  \A i \in {1, 2} : origin[i] >= 0 /\ origin[i] + size[i] <= sheet[i] - 2 * edge

\* A pattern proposes as many positions as its capacity promises, no two of
\* them in conflict, and all on the sheet: the few pairs of neighbours that were
\* compared stand for all pairs, whether rows are two or more and whichever of
\* the two kinds is longer.  Conflicts do not depend on the direction.
LaidOut(p, S, size, sheet, gap, edge, fill) ==
  LET positions == {Position(p, fill, i) : i \in 0 .. Capacity(p) - 1}
  IN /\ Cardinality(positions) = Capacity(p)
     /\ \A origin \in positions : WithinSheet(origin, size, sheet, edge)
     /\ fill = [axis |-> 1, reverse |-> FALSE] =>
          \A u, v \in positions :
            u # v => Compatible(S, gap, u[1] - v[1], u[2] - v[2])

\* Whether all patterns are laid out like that, by direction.
AllLaidOut(fill) ==
  \A size \in MotifSides \X MotifSides, sheet \in SheetSides \X SheetSides,
     gap \in Gaps, edge \in Edges :
    \A S \in Motifs(size) :
      \A p \in GridPatterns(size, sheet, gap, edge) \cup
               Interlocking(S, size, sheet, gap, edge) :
        LaidOut(p, S, size, sheet, gap, edge, fill)

Directions == {<<fill, AllLaidOut(fill)>> : fill \in Flows}

=============================================================================
