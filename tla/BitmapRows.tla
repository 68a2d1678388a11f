------------------------------ MODULE BitmapRows ------------------------------
(***************************************************************************)
(* The arithmetic of bitmaps: rows are packed into words, spans of pixels  *)
(* are drawn with masks of bits, a row of a mask is shifted over the words *)
(* of the sheet, on the CPU and by the kernels of the device, and the      *)
(* largest filled rectangle is found with a stack.  Everywhere else        *)
(* these are operations on sets of pixels; here it is checked that they    *)
(* are.                                                                    *)
(*                                                                         *)
(* A word is the set of the positions of its ones; it has WordBits of      *)
(* them, and what is shifted out of it is lost.                            *)
(***************************************************************************)
EXTENDS Integers, FiniteSets, Sequences, FiniteSetsExt, SequencesExt

CONSTANTS WordBits,
          Widest,  \* widths of sheets and masks are 1 .. Widest
          Grid     \* and of masks with a core, 1 .. Grid

ASSUME RowAssumption ==
  WordBits \in Nat \ {0} /\ Widest \in Nat /\ Grid \in Nat

Bits == 0 .. WordBits - 1
WordCount(n) == (n + WordBits - 1) \div WordBits

\* The shifts << and >>.
Up(word, n) == {b + n : b \in word} \cap Bits
Down(word, n) == {b - n : b \in word} \cap Bits

Packed(S, width) ==
  [i \in 0 .. WordCount(width) - 1 |-> {b \in Bits : i * WordBits + b \in S}]
Unpacked(r) == UNION {{i * WordBits + b : b \in r[i]} : i \in DOMAIN r}

-----------------------------------------------------------------------------
(* A row is drawn from the crossings of a scan line with a contour.        *)

\* A word of the pixels first .. last - 1.
SpanWord(first, last, i) ==
  LET offset == IF i = first \div WordBits THEN first % WordBits ELSE 0
      n == Min({last - i * WordBits - offset, WordBits - offset})
  IN Up(Down(Bits, WordBits - n), offset)

\* fill: the span is set, or a hole is cleared.
Fill(r, span, material) ==
  [i \in DOMAIN r |->
     IF span[1] < span[2] /\ i \in span[1] \div WordBits .. (span[2] - 1) \div WordBits
     THEN IF material THEN r[i] \cup SpanWord(span[1], span[2], i)
          ELSE r[i] \ SpanWord(span[1], span[2], i)
     ELSE r[i]]

\* pixel: the first pixel whose centre is not before a crossing.  Crossings
\* are counted in half pixels.
PixelOf(c, width) == Max({0, Min({width, c \div 2})})

\* rasterContourRow: every second gap between the sorted crossings is a span.
Gaps(crossings, width) ==
  [i \in 1 .. Len(crossings) \div 2 |->
     <<PixelOf(crossings[2 * i - 1], width), PixelOf(crossings[2 * i], width)>>]

FillAll(r, gaps, material) ==
  LET drawn[i \in 0 .. Len(gaps)] ==
        IF i = 0 THEN r ELSE Fill(drawn[i - 1], gaps[i], material)
  IN drawn[Len(gaps)]

DrawRow(outline, hole, width) ==
  FillAll(FillAll(Packed({}, width), Gaps(outline, width), TRUE),
          Gaps(hole, width), FALSE)

-----------------------------------------------------------------------------
(* A row of a mask over a row of the sheet.                                *)

\* Mutant: what a shift carries into the word after the last is lost.
ShiftedTooShort(mask, i, shift) ==
  IF i \in DOMAIN mask
  THEN Up(mask[i], shift) \cup
       (IF i > 0 THEN Down(mask[i - 1], WordBits - shift) ELSE {})
  ELSE {}

\* shiftedMaskWord
ShiftedWord(mask, i, shift) ==
  (IF i \in DOMAIN mask THEN Up(mask[i], shift) ELSE {}) \cup
  (IF i - 1 \in DOMAIN mask THEN Down(mask[i - 1], WordBits - shift) ELSE {})

Needed(width, x) == WordCount(width + (x % WordBits))

\* The words of the sheet that a mask covers, and what it covers of them: on
\* the CPU with a loop of its own for aligned rows, in the kernels with one.
CpuRow(mask, width, x) ==
  IF x % WordBits = 0 THEN mask
  ELSE [i \in 0 .. Needed(width, x) - 1 |-> ShiftedWord(mask, i, x % WordBits)]

GpuRow(mask, width, x) ==
  [i \in 0 .. Needed(width, x) - 1 |->
     IF x % WordBits = 0 THEN IF i \in DOMAIN mask THEN mask[i] ELSE {}
     ELSE ShiftedWord(mask, i, x % WordBits)]

\* rowsCollideAndInBounds
Collides(occupied, material, covered, x) ==
  \E i \in DOMAIN covered :
    LET word == x \div WordBits + i
    IN covered[i] \cap occupied[word] # {} \/ ~(covered[i] \subseteq material[word])

\* maskFits
CpuFits(occupied, material, mask, width, x, sheet) ==
  /\ x + width <= sheet
  /\ x \div WordBits + Needed(width, x) <= WordCount(sheet)
  /\ ~Collides(occupied, material, CpuRow(mask, width, x), x)

\* fits, of the device
GpuFits(occupied, material, mask, width, x, sheet) ==
  /\ width <= sheet /\ x <= sheet - width
  /\ ~Collides(occupied, material, GpuRow(mask, width, x), x)

Under(covered, x, j) ==
  IF j - x \div WordBits \in DOMAIN covered THEN covered[j - x \div WordBits] ELSE {}

\* applyMask
CommittedRow(occupied, covered, x) ==
  [j \in DOMAIN occupied |-> occupied[j] \cup Under(covered, x, j)]

\* toggle_mask
ToggledRow(occupied, covered, x) ==
  [j \in DOMAIN occupied |-> SymDiff(occupied[j], Under(covered, x, j))]

-----------------------------------------------------------------------------
(* The largest filled rectangle of a mask.                                 *)

NoCore == [x |-> 0, y |-> 0, width |-> 0, height |-> 0]
AreaOf(core) == core.width * core.height

\* The longest run of the columns that are filled in all rows.
Stripe(columns, width, y0, y1) ==
  LET runs == {r \in (0 .. width) \X (0 .. width) :
                 r[1] < r[2] /\ r[1] .. r[2] - 1 \subseteq columns}
      longest == Max({r[2] - r[1] : r \in runs})
      left == Min({r[1] : r \in {s \in runs : s[2] - s[1] = longest}})
  IN IF runs = {} THEN NoCore
     ELSE [x |-> left, y |-> y0, width |-> longest, height |-> y1 - y0 + 1]

\* The column on top of the stack ends at x if it is higher than h: it spans
\* from the column below it on the stack.
PopColumn(s, heights, x, y, h) ==
  LET height == heights[Last(s.stack)]
      rest == Front(s.stack)
      left == IF rest = <<>> THEN 0 ELSE Last(rest) + 1
      found == [x |-> left, y |-> y - height + 1, width |-> x - left, height |-> height]
  IN IF s.stack = <<>> \/ height <= h THEN s
     ELSE [stack |-> rest, core |-> IF AreaOf(found) > AreaOf(s.core) THEN found ELSE s.core]

\* One column after the other is pushed on the stack, and at last the end.
PushColumn(s, heights, x, y) ==
  LET h == IF x \in DOMAIN heights THEN heights[x] ELSE 0
      popped[i \in 0 .. Len(s.stack)] ==
        IF i = 0 THEN s ELSE PopColumn(popped[i - 1], heights, x, y, h)
  IN [popped[Len(s.stack)] EXCEPT !.stack = Append(@, x)]

ScanRow(core, heights, width, y) ==
  LET pushed[i \in 0 .. width + 1] ==
        IF i = 0 THEN [stack |-> <<>>, core |-> core]
        ELSE PushColumn(pushed[i - 1], heights, i - 1, y)
  IN pushed[width + 1].core

\* How many pixels are filled up to a row, in each column.
Raise(heights, mask, y) ==
  [x \in DOMAIN heights |-> IF <<x, y>> \in mask THEN heights[x] + 1 ELSE 0]

Histogram(mask, core, width, y0, y1) ==
  LET scanned[i \in 0 .. y1 - y0 + 1] ==
        IF i = 0 THEN [heights |-> [x \in 0 .. width - 1 |-> 0], core |-> core]
        ELSE LET s == scanned[i - 1]
                 y == y0 + i - 1
                 heights == Raise(s.heights, mask, y)
             IN [heights |-> heights, core |-> ScanRow(s.core, heights, width, y)]
  IN scanned[y1 - y0 + 1].core

FilledCore(mask, width) ==
  LET ys == {px[2] : px \in mask}
      y0 == Min(ys)
      y1 == Max(ys)
      all == {x \in 0 .. width - 1 : \A y \in y0 .. y1 : <<x, y>> \in mask}
      stripe == Stripe(all, width, y0, y1)
  IN IF mask = {} THEN NoCore
     ELSE IF AreaOf(stripe) >= (width * (y1 - y0 + 1) * 9) \div 10 THEN stripe
     ELSE Histogram(mask, stripe, width, y0, y1)

-----------------------------------------------------------------------------
(* Properties.                                                             *)

\* The pixels of a row are those whose centres are inside the outline and
\* outside the hole, also where a crossing meets a centre, or the edge of the
\* bitmap or of a word.
RowDrawn(width) ==
  LET Sorted(n) == {c \in [1 .. n -> -1 .. 2 * Widest + 1] :
                      \A i \in 1 .. n - 1 : c[i] <= c[i + 1]}
      Inside(c, p) == Cardinality({i \in DOMAIN c : c[i] > 2 * p + 1}) % 2 = 1
  IN \A outline \in Sorted(2) \cup Sorted(4), hole \in Sorted(2) :
       Unpacked(DrawRow(outline, hole, width)) =
         {p \in 0 .. width - 1 : Inside(outline, p) /\ ~Inside(hole, p)}

\* CPU and device find the same collisions as sets of pixels do, and draw the
\* same pixels, wherever words begin and end.
RowsAgree(width) ==
  \A sheet \in width .. Widest : \A x \in 0 .. sheet :
    \A S \in SUBSET (0 .. width - 1), O \in SUBSET (0 .. sheet - 1) :
      LET mask == Packed(S, width)
          occupied == Packed(O, sheet)
          shifted == {x + p : p \in S}
      IN /\ \A M \in SUBSET (0 .. sheet - 1) :
              LET fit == x + width <= sheet /\ shifted \cap O = {} /\ shifted \subseteq M
              IN /\ CpuFits(occupied, Packed(M, sheet), mask, width, x, sheet) = fit
                 /\ GpuFits(occupied, Packed(M, sheet), mask, width, x, sheet) = fit
         /\ x + width <= sheet =>
              /\ Unpacked(CommittedRow(occupied, CpuRow(mask, width, x), x)) = O \cup shifted
              /\ Unpacked(ToggledRow(occupied, GpuRow(mask, width, x), x)) =
                   SymDiff(O, shifted)

\* The core of a mask is filled, and no filled rectangle is larger, unless the
\* core is as good as the bounds of the mask.
CoreFilled(width) ==
  \A mask \in SUBSET ((0 .. width - 1) \X (0 .. Grid - 1)) :
    LET core == FilledCore(mask, width)
        PixelsOf(r) == (r.x .. r.x + r.width - 1) \X (r.y .. r.y + r.height - 1)
        Filled(r) == PixelsOf(r) \subseteq mask
    IN /\ Filled(core)
       /\ \A r \in [x : 0 .. width - 1, y : 0 .. Grid - 1, width : 1 .. Grid, height : 1 .. Grid] :
            Filled(r) => 10 * AreaOf(r) <= 10 * AreaOf(core) + width * Grid

\* The widths at which what the search takes for sets of pixels is drawn,
\* moved and measured exactly.
ExactWidths ==
  {width \in 1 .. Widest :
     RowDrawn(width) /\ RowsAgree(width) /\ (width <= Grid => CoreFilled(width))}

=============================================================================
