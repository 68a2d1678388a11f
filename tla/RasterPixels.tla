----------------------------- MODULE RasterPixels -----------------------------
(***************************************************************************)
(* The pixels of masks, drawn when they are needed, by all slots of the    *)
(* ParallelLoop, and kept within a budget.  What is thrown in a slot ends  *)
(* the whole search for a part, but the masks and their pixels live on     *)
(* and are taken as they are by the next one: pixels that are not empty    *)
(* are complete.  A batch of candidates pins the masks that it collides    *)
(* with, as many as the budget allows, and checks them in another run.     *)
(*                                                                         *)
(* All of this happens in the thread that calls run().                     *)
(***************************************************************************)
EXTENDS ParallelLoop, BitmapRows

CONSTANTS Masks,
          Breadth,   \* widthPx
          Height,    \* heightPx
          Estimate,  \* the size that ensure expects
          Cost,      \* the size it finds: empty rows are not listed
          Budget

ASSUME PixelAssumption ==
  /\ IsFiniteSet(Masks)
  /\ Breadth \in [Masks -> 1 .. Widest]
  /\ Height \in [Masks -> 1 .. MaxCount]
  /\ Estimate \in [Masks -> Nat] /\ Cost \in [Masks -> Nat]
  /\ \A m \in Masks : Cost[m] <= Estimate[m]
  /\ Budget \in Nat

VARIABLES filled,       \* the masks whose bits are not empty
          rows,         \* the rows of them that have been drawn
          resident,     \* resident_
          bytes,        \* bytes_
          job,          \* what the calling thread is at
          hand,         \* the mask in ensure()
          cancellable,  \* and its argument
          wanted,       \* the masks of the batch that are still to come
          pinned

store == <<filled, rows, resident, bytes>>
call == <<job, hand, cancellable, wanted, pinned>>
pixelVars == <<store, call>>

PixelInit ==
  /\ Init
  /\ filled = {} /\ rows = [m \in Masks |-> {}]
  /\ resident = <<>> /\ bytes = 0
  /\ job = "none" /\ hand \in {CHOOSE m \in Masks : TRUE}
  /\ cancellable = TRUE /\ wanted = {} /\ pinned = {}

Sum(f, S) == MapThenSumSet(LAMBDA m : f[m], S)
AllRows(m) == 0 .. Height[m] - 1

-----------------------------------------------------------------------------
(* ensure, for a call that goes on with other masks and with these pinned. *)

\* The exception leaves the search for a part.
Abandon == job' = "none" /\ wanted' = {} /\ pinned' = {}

\* Where the batch goes on, or a single call returns.
Return == job' = IF pinned' = {} THEN "none" ELSE "batch"

Ensure(m, throws, others, pins) ==
  /\ hand' = m /\ cancellable' = throws
  /\ \/ /\ throws /\ Abandon /\ UNCHANGED store
     \/ /\ m \in filled /\ UNCHANGED store
        /\ wanted' = others /\ pinned' = pins /\ Return
     \/ /\ m \notin filled /\ UNCHANGED store
        /\ wanted' = others /\ pinned' = pins
        /\ job' = "room"

\* There is no room for the mask yet, and something can be evicted.
MustEvict ==
  /\ bytes + Estimate[hand] > Budget
  /\ \E i \in DOMAIN resident : resident[i] \notin pinned

\* The oldest mask that is not pinned goes.
Evicts ==
  /\ job = "room" /\ MustEvict
  /\ \E i \in DOMAIN resident :
       /\ resident[i] \notin pinned
       /\ \A j \in 1 .. i - 1 : resident[j] \in pinned
       /\ resident' = RemoveAt(resident, i)
       /\ filled' = filled \ {resident[i]}
       /\ rows' = [rows EXCEPT ![resident[i]] = {}]
       /\ bytes' = bytes - Cost[resident[i]]
  /\ UNCHANGED call /\ UNCHANGED vars

\* The loop runs over so many indices for the job.
Runs(from, n, to) ==
  /\ job = from /\ job' = to
  /\ RunInline(n) \/ RunBegins(n)
  /\ to = "drawing" /\ ~cancellable => outcome' # "threw"
  /\ UNCHANGED <<rows, resident, bytes, hand, cancellable, wanted, pinned>>

\* The bits have their size and are zero when the rows are begun.
Draws ==
  /\ ~MustEvict
  /\ filled' = filled \cup {hand}
  /\ Runs("room", Height[hand], "drawing")

\* Mutant: what has been drawn until the deadline stays.
DrawThrowsAway ==
  /\ job = "drawing" /\ caller = "idle"
  /\ outcome = "threw" \/ cancellable
  /\ rows' = [rows EXCEPT ![hand] = {i \in AllRows(hand) : work[i] = 1}]
  /\ Abandon
  /\ UNCHANGED <<filled, resident, bytes, hand, cancellable>> /\ UNCHANGED vars

\* The deadline has expired in a slot, or when the rows were sorted.
DrawThrows ==
  /\ job = "drawing" /\ caller = "idle"
  /\ outcome = "threw" \/ cancellable
  /\ filled' = filled \ {hand}
  /\ Abandon
  /\ UNCHANGED <<rows, resident, bytes, hand, cancellable>> /\ UNCHANGED vars

DrawEnds ==
  /\ job = "drawing" /\ caller = "idle" /\ outcome = "returned"
  /\ rows' = [rows EXCEPT ![hand] = {i \in AllRows(hand) : work[i] = 1}]
  /\ resident' = Append(resident, hand) /\ bytes' = bytes + Cost[hand]
  /\ UNCHANGED <<filled, hand, cancellable, wanted, pinned>>
  /\ Return
  /\ UNCHANGED vars

-----------------------------------------------------------------------------
(* The callers of ensure.                                                  *)

\* One mask, for a seed, a pattern or an accepted part.
EnsureOne ==
  /\ job = "none" /\ caller = "idle"
  /\ \E m \in Masks, throws \in BOOLEAN : Ensure(m, throws, {}, {})
  /\ UNCHANGED vars

\* evaluateBatch needs the masks of some angles.
BatchBegins ==
  /\ job = "none" /\ caller = "idle"
  /\ wanted' \in SUBSET Masks \ {{}}
  /\ job' = "batch" /\ pinned' = {}
  /\ UNCHANGED <<store, hand, cancellable>> /\ UNCHANGED vars

TooMany(m) == pinned # {} /\ Sum(Estimate, pinned \cup {m}) > Budget

\* The next mask is made and pinned, unless the pinned ones fill the budget.
BatchPins ==
  /\ job = "batch"
  /\ \E m \in wanted :
       /\ ~TooMany(m)
       /\ Ensure(m, TRUE, wanted \ {m}, pinned \cup {m})
  /\ UNCHANGED vars

\* checkPinned, when the budget is full or no mask is left.
BatchFull ==
  /\ job = "batch" /\ pinned # {}
  /\ wanted = {} \/ \E m \in wanted : TooMany(m)
  /\ job' = "check"
  /\ UNCHANGED <<store, hand, cancellable, wanted, pinned>> /\ UNCHANGED vars

Checks ==
  /\ \E n \in Cardinality(pinned) .. MaxCount : Runs("check", n, "checking")
  /\ UNCHANGED filled

BatchChecked ==
  /\ job = "checking" /\ caller = "idle"
  /\ IF outcome = "threw" THEN Abandon
     ELSE /\ pinned' = {} /\ UNCHANGED wanted
          /\ job' = IF wanted = {} THEN "none" ELSE "batch"
  /\ UNCHANGED <<store, hand, cancellable>> /\ UNCHANGED vars

-----------------------------------------------------------------------------

\* The loop at work; only a drawing that can be cancelled throws.
LoopSteps ==
  /\ \/ SpawnFails \/ CallerWakes \/ Caller
     \/ job = "none" /\ Stop
     \/ \E h \in Helpers : Spawn(h) \/ Helper(h) \/ HelperWakes(h)
  /\ job = "drawing" /\ ~cancellable /\ error' => error
  /\ UNCHANGED pixelVars

PixelNext ==
  \/ LoopSteps
  \/ EnsureOne \/ Evicts \/ Draws \/ DrawThrows \/ DrawEnds
  \/ BatchBegins \/ BatchPins \/ BatchFull \/ Checks \/ BatchChecked

PixelSpec == PixelInit /\ [][PixelNext]_<<vars, pixelVars>> /\ Fairness

-----------------------------------------------------------------------------

\* Whenever and wherever the deadline interrupts the slots, and whatever is
\* evicted: a mask whose bits are not empty has all its rows, unless it is
\* being drawn; a check has the pixels of all its masks; and the budget
\* accounts for what is kept, which is more than it allows only for one mask.
PixelsWhole ==
  LET drawing == IF job = "drawing" THEN {hand} ELSE {}
      kept == {resident[i] : i \in 1 .. Len(resident)}
  IN /\ \A m \in filled \ drawing : rows[m] = AllRows(m)
     /\ job \in {"check", "checking"} => pinned \subseteq filled
     /\ kept = filled \ drawing /\ Cardinality(kept) = Len(resident)
     /\ bytes = Sum(Cost, kept)
     /\ bytes <= Budget \/ Len(resident) <= 1

\* A mask whose rows are all drawn is drawn exactly: its pixels are those inside
\* the contour, and CPU and device move, compare and measure the words of its
\* rows as they would these pixels.
RowsExact == \A m \in Masks : rows[m] = AllRows(m) => Breadth[m] \in ExactWidths

=============================================================================
