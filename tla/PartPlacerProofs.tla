--------------------------- MODULE PartPlacerProofs ---------------------------
(***************************************************************************)
(* Proofs, for any shapes, clearances, orders and scores and any size of   *)
(* the sheet: what the search remembers hides no place, the layout is      *)
(* valid, and what is refused fits nowhere.                                *)
(*                                                                         *)
(* The second part is about the free rectangles of the same search: they   *)
(* cover all the space that is left, so that the search with them is one   *)
(* of PartPlacer's.  The third is about the refinement that moves the      *)
(* accepted parts: every part is in the cells of the index that its box    *)
(* meets, so that no part that is too close is overlooked.  The fourth is  *)
(* about the repeated patterns: what is certified of neighbours holds of   *)
(* all the cells of a pattern.                                             *)
(***************************************************************************)
EXTENDS Refinement, FiniteSetTheorems, WellFoundedInduction, TLAPS

\* Where a part is searched for, and where it has been found.
Control ==
  /\ phase \notin {"begin", "done"} => todo # <<>>
  /\ phase \in {"begin", "done"} => best = None
  /\ ~expired /\ phase \in {"pockets", "pattern", "propose", "ordered", "fine"}
       => best = None
  /\ phase \in {"accepted", "compact"} => best # None
  /\ config.bottomLeft => phase \notin {"coarse", "fine", "accepted", "compact"}

\* An origin that the device has refused is covered ever after.
QueueFlagged == \A c \in queue : c.flag
PendingFlagged ==
  ~expired => \A k \in Kinds : \A c \in pending[k] : ~c.flag => ~Free(k, c.at)

\* The device never knows more parts than are placed.
Device ==
  /\ gpu.version <= Count
  /\ ~expired => (gpu.up /\ gpu.version = Count => gpu.pixels = raster)

\* The accepted origin is free until the part is placed.
Chosen == best # None => Free(Part, best)

\* The bitmap shows the parts as long as it is used.
Covering ==
  ~expired \/ phase \notin {"begin", "done"} =>
    raster = UNION {Raster[p.kind][p.at] : p \in placed}

Distant ==
  /\ \A p \in placed : /\ p.at \in Inside[p.kind] \cap OnSheet[p.kind]
                        /\ Raster[p.kind][p.at] \subseteq Material
  /\ \A p, q \in placed : p # q =>
       <<p, q>> \notin Clash /\ Raster[p.kind][p.at] \cap Raster[q.kind][q.at] = {}

\* The parts of NothingHidden.
NotRejected ==
  ~expired => \A k \in Kinds, o \in Origins : Free(k, o) => o \notin rejected[k]
NotPassed ==
  ~expired => \A k \in Kinds, o \in Origins : Free(k, o) => o >= cursor[k]
NotExhausted ==
  ~expired => \A k \in Kinds, o \in Origins : Free(k, o) => k \notin exhausted
NotTried ==
  ~expired => \A k \in Kinds, o \in Origins : Free(k, o) =>
    \A p \in tried[k] :
      [at |-> o - p.at, contained |-> TRUE] \notin Pocketed[p.kind][k]

\* A place in a hole is tried before the hole is used up.
PocketsQueued ==
  ~expired /\ phase = "pockets" /\ config.patternTrial =>
    \A o \in Origins, p \in placed :
      /\ Free(Part, o)
      /\ [at |-> o - p.at, contained |-> TRUE] \in Pocketed[p.kind][Part]
      => p \in tried[Part] \/ Candidate(o) \in queue

\* A proposed place is tried before a corner-first search gives up, and the
\* failure of one is remembered for this sheet only.
ProposalsQueued ==
  ~expired /\ phase = "ordered" /\ config.bottomLeft =>
    \A o \in Proposals(Part) : Free(Part, o) => Candidate(o) \in queue
FailedTrue ==
  /\ \A k \in Kinds : failedAt[k] <= Count
  /\ ~expired /\ config.bottomLeft => \A k \in Kinds : failedAt[k] = Count =>
       \A o \in Proposals(k) : ~Free(k, o)

Hidden == NotRejected /\ NotPassed /\ NotExhausted /\ NotTried
Memory == Hidden /\ FailedTrue /\ PendingFlagged
Placing == Device /\ Chosen /\ Covering /\ Distant
Queue == QueueFlagged /\ PocketsQueued /\ ProposalsQueued
IInv == TypeOK /\ Control /\ Placing /\ Memory /\ Queue /\ RefusedHonestly

-----------------------------------------------------------------------------
(* Facts about states.                                                     *)

LEMMA PartKind == ASSUME TypeOK, todo # <<>> PROVE Part \in Kinds
BY DEF TypeOK, Part

LEMMA CountNat == ASSUME TypeOK PROVE Count \in Nat
BY FS_CardinalityType DEF TypeOK, Count

LEMMA FreeSame ==
  ASSUME UNCHANGED <<placed, raster>>
  PROVE  \A k, o : Free(k, o)' <=> Free(k, o)
BY DEF Free, Fits, Clear

\* A part that is placed leaves no place that was not there before.
LEMMA FreeShrinks ==
  ASSUME placed \subseteq placed', raster \subseteq raster'
  PROVE  \A k, o : Free(k, o)' => Free(k, o)
BY DEF Free, Fits, Clear

LEMMA ProposalsSame ==
  ASSUME UNCHANGED <<placed, rejected>>
  PROVE  \A k : Proposals(k)' = Proposals(k)
BY DEF Proposals

LEMMA ProposalsShrink ==
  ASSUME UNCHANGED placed, \A k \in Kinds : rejected[k] \subseteq rejected'[k]
  PROVE  \A k \in Kinds : Proposals(k)' \subseteq Proposals(k)
BY DEF Proposals

LEMMA ProposalsInside ==
  ASSUME NEW k \in Kinds
  PROVE  Proposals(k) \subseteq Inside[k] /\ Proposals(k) \subseteq Origins
BY PlacerAssumption DEF PlacerAssumption, Proposals

\* The device shows what the search collides with.
LEMMA FilterTrue ==
  ASSUME TypeOK, Device, ~expired, todo # <<>>, NEW filter \in Filters
  PROVE  /\ filter.pixels = raster
         /\ filter.device \in Devices /\ filter.device.version <= Count
         /\ filter.device.up /\ filter.device.version = Count
              => filter.device.pixels = raster
<1>1. Count \in Nat
  BY CountNat
<1>2. Part \in Kinds
  BY PartKind
<1>3. CASE ~gpu.up
  BY <1>3 DEF Filters, OnCpu, Device, TypeOK
<1>4. CASE gpu.up
  <2>1. Loaded.pixels = raster
    BY <1>4 DEF Loaded, Device
  <2>2. Loaded \in Devices /\ Loaded.version = Count
    BY <1>1, <1>2, <2>1 DEF Loaded, Devices, TypeOK
  <2>3. Lost \in Devices /\ Lost.version = -1 /\ ~Lost.up
    BY DEF Lost, Devices
  <2>4. QED
    BY <1>1, <1>4, <2>1, <2>2, <2>3 DEF Filters, OnCpu, Device, TypeOK
<1>5. QED
  BY <1>3, <1>4

-----------------------------------------------------------------------------
(* A batch is validated.                                                   *)

\* What a batch leaves behind: nothing that is free is rejected, what is
\* accepted is free, and a batch that was decided to the end without success
\* had nothing free before the origin that was selected.
Validated(batch, order, select, filter) ==
  /\ expired' \in BOOLEAN /\ stopped' \in BOOLEAN
  /\ rejected' \in [Kinds -> SUBSET Origins]
  /\ \A k \in Kinds : rejected[k] \subseteq rejected'[k]
  /\ \A k \in Kinds, o \in Origins : Free(k, o) => o \notin rejected'[k]
  /\ best' # best => Free(Part, best') /\ \E c \in batch : best' = c.at
  /\ best' \in Origins \cup {None} /\ (best # None => best' # None)
  /\ ~select => best' = best
  /\ gpu' = filter.device
  /\ ~expired' /\ select /\ best = None =>
       \A c \in batch : c.contained /\ Free(Part, c.at) =>
         best' # None /\ order[best'] <= order[c.at]

LEMMA ValidateTrue ==
  ASSUME TypeOK, NotRejected, ~expired, todo # <<>>,
         NEW batch \in SUBSET Candidates, NEW order, NEW select \in BOOLEAN,
         NEW filter, filter.pixels = raster,
         \A c \in batch : ~c.flag => ~Free(Part, c.at),
         Validate(batch, order, select, filter)
  PROVE  Validated(batch, order, select, filter)
<1>1. Part \in Kinds
  BY PartKind
<1> DEFINE eligible == {c \in batch :
                     /\ c.at \in Inside[Part] \ rejected[Part]
                     /\ best = None \/ Rank[Part][c.at] < Rank[Part][best]}
           covered == {c \in eligible : ~c.flag \/ ~Fits(Part, c.at, filter.pixels)}
<1>2. PICK decided \in SUBSET (eligible \ covered) :
        /\ expired' = (decided # eligible \ covered) /\ stopped' = expired'
        /\ \E stored \in SUBSET Failed(Part, covered, decided) :
             rejected' = [rejected EXCEPT ![Part] = @ \cup {c.at : c \in stored}]
        /\ IF select /\ Valid(Part, decided) # {}
           THEN \E c \in Valid(Part, decided) :
                  /\ \A d \in Valid(Part, decided) : order[c.at] <= order[d.at]
                  /\ best' = c.at
           ELSE UNCHANGED best
        /\ gpu' = filter.device
  BY Zenon DEF Validate
<1> HIDE DEF eligible, covered
<1>3. /\ eligible \subseteq batch /\ covered \subseteq eligible
      /\ \A c \in batch : c.at \in Origins /\ c.contained \in BOOLEAN
      /\ \A c \in eligible : c.at \in Inside[Part] /\ c.at \in Origins
      /\ \A c \in covered : ~Free(Part, c.at)
      /\ \A c \in eligible \ covered : Fits(Part, c.at, raster)
  BY DEF eligible, covered, Candidates, Free
<1>4. \A c \in Failed(Part, covered, decided) : c.at \in Origins /\ ~Free(Part, c.at)
  BY <1>3 DEF Failed, Free
<1>5. \A c \in Valid(Part, decided) : c \in batch /\ Free(Part, c.at)
  BY <1>3 DEF Valid, Free
<1>6. /\ rejected' \in [Kinds -> SUBSET Origins]
      /\ \A k \in Kinds : rejected[k] \subseteq rejected'[k]
      /\ \A k \in Kinds, o \in Origins : Free(k, o) => o \notin rejected'[k]
  <2>1. PICK stored \in SUBSET Failed(Part, covered, decided) :
          rejected' = [rejected EXCEPT ![Part] = @ \cup {c.at : c \in stored}]
    BY <1>2
  <2>2. \A k \in Kinds : rejected'[k] = IF k = Part
          THEN rejected[k] \cup {c.at : c \in stored} ELSE rejected[k]
    BY <2>1 DEF TypeOK
  <2>3. {c.at : c \in stored} \subseteq Origins
    BY <1>4
  <2>4. rejected' \in [Kinds -> SUBSET Origins]
    BY <2>1, <2>3, <1>1 DEF TypeOK
  <2>5. ASSUME NEW k \in Kinds, NEW o \in Origins, Free(k, o)
        PROVE  o \notin rejected'[k]
    <3>1. o \notin rejected[k]
      BY <2>5 DEF NotRejected
    <3>2. k = Part => \A c \in stored : c.at # o
      BY <2>5, <1>4
    <3>3. QED
      BY <2>2, <3>1, <3>2
  <2>6. QED
    BY <2>2, <2>4, <2>5
<1>7. /\ best' # best => /\ Free(Part, best') /\ best' \in Origins
                         /\ \E c \in batch : best' = c.at
      /\ ~select => best' = best
  BY <1>2, <1>3, <1>5
<1>8. ASSUME ~expired', select, best = None,
             NEW c \in batch, c.contained, Free(Part, c.at)
      PROVE  best' # None /\ order[best'] <= order[c.at]
  <2>1. c \in eligible
    <3>1. c.at \in Origins
      BY <1>3
    <3>2. c.at \in Inside[Part] \ rejected[Part]
      BY <3>1, <1>1, <1>8 DEF Free, NotRejected
    <3>3. QED
      BY <3>2, <1>8 DEF eligible
  <2>2. c \in decided
    BY <2>1, <1>2, <1>3, <1>8
  <2>3. c \in Valid(Part, decided)
    BY <2>2, <1>8 DEF Valid, Free
  <2>4. PICK d \in Valid(Part, decided) :
          /\ \A e \in Valid(Part, decided) : order[d.at] <= order[e.at]
          /\ best' = d.at
    BY <1>2, <1>8, <2>3
  <2>5. best' \in Origins
    BY <2>4, <1>3, <1>5
  <2>6. best' # None
    BY <2>5, PlacerAssumption DEF PlacerAssumption, Origins, None
  <2>7. QED
    BY <2>3, <2>4, <2>6
<1>9. expired' \in BOOLEAN /\ stopped' \in BOOLEAN /\ gpu' = filter.device
  BY <1>2
<1>10. best' \in Origins \cup {None} /\ (best # None => best' # None)
  <2>1. best' = best \/ best' \in Origins
    BY <1>7
  <2>2. \A o \in Origins : o # None
    BY PlacerAssumption DEF PlacerAssumption, Origins, None
  <2>3. QED
    BY <2>1, <2>2 DEF TypeOK
<1>11. QED
  BY <1>6, <1>7, <1>8, <1>9, <1>10 DEF Validated

\* What a batch keeps of the invariant, whoever has filtered it.
LEMMA ValidatedStep ==
  ASSUME IInv, ~expired, phase \notin {"begin", "done"},
         NEW batch, NEW order, NEW select,
         NEW filter \in Filters \cup {OnCpu},
         Validated(batch, order, select, filter),
         UNCHANGED <<config, todo, sheet, exhausted, failedAt, tried>>
  PROVE  /\ Placing' /\ NotRejected' /\ NotExhausted' /\ NotTried' /\ FailedTrue'
         /\ gpu' \in Devices
<1> USE DEF IInv, Placing, Memory, Hidden, sheet
<1>1. todo # <<>> /\ TypeOK
  BY DEF Control
<1>2. /\ filter.device \in Devices /\ filter.device.version <= Count
      /\ filter.device.up /\ filter.device.version = Count
           => filter.device.pixels = raster
  BY <1>1, FilterTrue DEF OnCpu, Device, TypeOK
<1>3. \A k, o : Free(k, o)' <=> Free(k, o)
  BY FreeSame
<1>4. Count' = Count /\ Part' = Part
  BY DEF Count, Part
<1>5. Device' /\ gpu' \in Devices
  BY <1>2, <1>4 DEF Device, Validated
<1>6. Chosen'
  BY <1>3, <1>4 DEF Chosen, Validated
<1>7. Covering' /\ Distant'
  BY DEF Covering, Distant
<1>8. NotRejected' /\ NotExhausted' /\ NotTried'
  BY <1>3 DEF NotRejected, NotExhausted, NotTried, Validated
<1>9. FailedTrue'
  BY <1>3, <1>4, ProposalsShrink DEF FailedTrue, Validated
<1>10. QED
  BY <1>5, <1>6, <1>7, <1>8, <1>9

-----------------------------------------------------------------------------
(* Steps that only move on.                                                *)

\* What stays true when nothing but the place in the search changes.
LEMMA QuietStep ==
  ASSUME IInv, UNCHANGED <<config, todo, sheet, memory, gpu, best>>,
         expired => expired',
         phase \in {"begin", "done"} => ~expired' \/ phase' = phase \/ ~expired
  PROVE  Placing' /\ Memory'
<1> USE DEF IInv, Placing, Memory, Hidden, sheet, memory
<1>1. \A k, o : Free(k, o)' <=> Free(k, o)
  BY FreeSame
<1>2. Count' = Count /\ Part' = Part
  BY DEF Count, Part
<1>3. \A k : Proposals(k)' = Proposals(k)
  BY ProposalsSame
<1>4. Device' /\ Chosen'
  BY <1>1, <1>2 DEF Device, Chosen, TypeOK
<1>5. Covering' /\ Distant'
  BY DEF Covering, Distant, TypeOK
<1>6. NotRejected' /\ NotPassed' /\ NotExhausted' /\ NotTried'
  BY <1>1 DEF NotRejected, NotPassed, NotExhausted, NotTried, TypeOK
<1>7. FailedTrue' /\ PendingFlagged'
  BY <1>1, <1>2, <1>3 DEF FailedTrue, PendingFlagged, TypeOK
<1>8. QED
  BY <1>4, <1>5, <1>6, <1>7

LEMMA CandidatesTyped ==
  ASSUME NEW S \in SUBSET Origins
  PROVE  /\ AsCandidates(S) \in SUBSET Candidates
         /\ \A c \in AsCandidates(S) : c.flag /\ c.contained /\ c.at \in S
         /\ \A o \in S : Candidate(o) \in AsCandidates(S)
<1>1. ASSUME NEW o \in S
      PROVE  /\ Candidate(o) \in Candidates /\ Candidate(o) \in AsCandidates(S)
             /\ Candidate(o).flag /\ Candidate(o).contained /\ Candidate(o).at = o
  BY DEF AsCandidates, Candidate, Candidates
<1>2. \A c \in AsCandidates(S) : \E o \in S : c = Candidate(o)
  BY DEF AsCandidates
<1>3. QED
  BY <1>1, <1>2

\* The deadline changes nothing but what may still be claimed.
LEMMA TimeStep == ASSUME IInv, Expire \/ Interrupt PROVE IInv'
<1> USE DEF IInv
<1>1. Placing' /\ Memory'
  BY QuietStep DEF Expire, Interrupt
<1>2. TypeOK' /\ Control'
  BY DEF Expire, Interrupt, TypeOK, Control, sheet, memory, loop, Phases
<1>3. Queue' /\ RefusedHonestly'
  BY DEF Expire, Interrupt, Queue, QueueFlagged, PocketsQueued, ProposalsQueued,
         RefusedHonestly
<1>4. QED
  BY <1>1, <1>2, <1>3

\* A search that is skipped would find nothing.
LEMMA SkipStep == ASSUME IInv, SkipFailed \/ SkipExhausted PROVE IInv'
<1> USE DEF IInv
<1>1. Placing' /\ Memory'
  BY QuietStep DEF SkipFailed, SkipExhausted, Running
<1>2. TypeOK' /\ Control'
  BY DEF SkipFailed, SkipExhausted, Running, TypeOK, Control, sheet, memory,
         loop, Phases
<1>3. Queue'
  BY DEF SkipFailed, SkipExhausted, Running, Queue, QueueFlagged, PocketsQueued,
         ProposalsQueued
<1>4. RefusedHonestly'
  <2>1. /\ todo # <<>> /\ ~expired /\ UNCHANGED <<placed, raster, todo, rejected, config>>
    BY DEF SkipFailed, SkipExhausted, Running, sheet, memory, Control
  <2>2. Part \in Kinds /\ Part' = Part
    BY <2>1, PartKind DEF Part
  <2>3. \A k, o : Free(k, o)' <=> Free(k, o)
    BY <2>1, FreeSame
  <2>4. Proposals(Part)' = Proposals(Part) /\ Proposals(Part) \subseteq Origins
    BY <2>1, <2>2, ProposalsInside DEF Proposals
  <2>5. CASE SkipFailed
    BY <2>1, <2>2, <2>3, <2>4, <2>5 DEF SkipFailed, RefusedHonestly, Memory, FailedTrue
  <2>6. CASE SkipExhausted
    BY <2>1, <2>2, <2>3, <2>4, <2>6
    DEF SkipExhausted, RefusedHonestly, Memory, Hidden, NotExhausted
  <2>7. QED
    BY <2>5, <2>6
<1>5. QED
  BY <1>1, <1>2, <1>3, <1>4

\* The sources of candidates follow one another.
LEMMA SourceStep ==
  ASSUME IInv, NoPatternLeft \/ Propose \/ NoProposalLeft \/ CoarseTried
  PROVE  IInv'
<1> USE DEF IInv
<1>1. /\ UNCHANGED <<config, todo, sheet, memory, gpu, best>>
      /\ ~expired /\ ~expired'
      /\ phase \notin {"begin", "done"} /\ todo # <<>>
  BY DEF NoPatternLeft, Propose, NoProposalLeft, CoarseTried, Running, Control
<1>2. Placing' /\ Memory'
  BY <1>1, QuietStep
<1>3. Part \in Kinds /\ Part' = Part
  BY <1>1, PartKind DEF Part
<1>4. Proposals(Part) \subseteq Origins
  BY <1>3, ProposalsInside
<1>5. TypeOK' /\ QueueFlagged'
  <2>1. window' \in Nat
    BY PlacerAssumption DEF PlacerAssumption, NoPatternLeft, Propose, NoProposalLeft,
      CoarseTried, FirstWindow, GrownWindow, Capped, Larger, TypeOK, loop
  <2>2. queue' \in SUBSET Candidates /\ QueueFlagged'
    <3>1. \A w : /\ InWindow(w) \in SUBSET Candidates
                 /\ \A c \in InWindow(w) : c.flag
      BY <1>4, CandidatesTyped DEF InWindow
    <3>2. CASE NoPatternLeft
      BY <3>2 DEF NoPatternLeft, TypeOK, Queue, QueueFlagged
    <3>3. CASE Propose \/ CoarseTried
      BY <3>1, <3>3 DEF Propose, CoarseTried, TypeOK, Queue, QueueFlagged
    <3>4. CASE NoProposalLeft
      <4>1. {o \in Origins : o < window /\ o % Coarse = 0} \in SUBSET Origins
        OBVIOUS
      <4>2. CASE config.bottomLeft
        BY <3>4, <4>2 DEF NoProposalLeft, TypeOK, Queue, QueueFlagged
      <4>3. CASE ~config.bottomLeft
        BY <3>4, <4>1, <4>3, CandidatesTyped DEF NoProposalLeft, QueueFlagged
      <4>4. QED
        BY <4>2, <4>3
    <3>5. QED
      BY <3>2, <3>3, <3>4
  <2>3. phase' \in Phases
    BY DEF NoPatternLeft, Propose, NoProposalLeft, CoarseTried, Phases
  <2>4. UNCHANGED <<step, start, round>> /\ UNCHANGED <<expired, stopped>>
    BY DEF NoPatternLeft, Propose, NoProposalLeft, CoarseTried, loop, Running
  <2>5. QED
    BY <1>1, <2>1, <2>2, <2>3, <2>4 DEF TypeOK, sheet, memory
<1>6. Control'
  BY <1>1 DEF NoPatternLeft, Propose, NoProposalLeft, CoarseTried, Control
<1>7. PocketsQueued'
  BY DEF NoPatternLeft, Propose, NoProposalLeft, CoarseTried, PocketsQueued
<1>8. ProposalsQueued'
  <2>1. CASE Propose
    <3>1. SUFFICES ASSUME config.bottomLeft,
                          NEW o \in Proposals(Part)
                   PROVE  Candidate(o) \in queue'
      BY <1>1, <1>3, ProposalsSame DEF ProposalsQueued, sheet, memory
    <3>2. o \in Origins /\ o < End /\ window' = End
      BY <2>1, <3>1, <1>4, PlacerAssumption DEF PlacerAssumption, Propose, Origins
    <3>3. QED
      BY <2>1, <3>2, <1>4, CandidatesTyped DEF Propose, InWindow
  <2>2. CASE ~Propose
    BY <2>2, <1>1 DEF NoPatternLeft, NoProposalLeft, CoarseTried, ProposalsQueued, Control
  <2>3. QED
    BY <2>1, <2>2
<1>9. RefusedHonestly'
  <2>1. SUFFICES ASSUME NoProposalLeft, config.bottomLeft, best = None,
                        NEW o \in Proposals(Part)
                 PROVE  ~Free(Part, o)
    <3>1. \A k, o : Free(k, o)' <=> Free(k, o)
      BY <1>1, FreeSame DEF sheet
    <3>2. Proposals(Part)' = Proposals(Part)
      BY <1>1, <1>3, ProposalsSame DEF sheet, memory
    <3>3. phase' = "settle" => NoProposalLeft /\ config.bottomLeft
      BY DEF NoPatternLeft, Propose, NoProposalLeft, CoarseTried
    <3>4. QED
      BY <1>1, <1>3, <2>1, <3>1, <3>2, <3>3 DEF RefusedHonestly
  <2>2. QED
    BY <1>1, <2>1 DEF NoProposalLeft, Queue, ProposalsQueued
<1>10. QED
  BY <1>2, <1>5, <1>6, <1>7, <1>8, <1>9 DEF Queue

\* Compaction only looks for something better.
LEMMA RoundStep == ASSUME IInv, BeginCompaction \/ NextRound PROVE IInv'
<1> USE DEF IInv
<1>1. /\ UNCHANGED <<config, todo, sheet, memory, gpu, best, window>>
      /\ UNCHANGED <<expired, stopped>> /\ ~expired /\ todo # <<>>
      /\ phase' \in {"compact", "settle"} /\ best # None
      /\ phase \in {"accepted", "compact"}
  BY DEF BeginCompaction, NextRound, Around, Running, Control
<1>2. Placing' /\ Memory'
  BY <1>1, QuietStep
<1>3. ASSUME NEW size \in Nat, NEW number \in 0 .. 8, Around(size, number)
      PROVE  /\ queue' \in SUBSET Candidates /\ QueueFlagged'
             /\ start' \in Origins \cup {None} /\ step' \in Nat /\ round' \in 0 .. 8
  BY <1>3, CandidatesTyped DEF Around, QueueFlagged, TypeOK
<1>4. /\ queue' \in SUBSET Candidates /\ QueueFlagged'
      /\ start' \in Origins \cup {None} /\ step' \in Nat /\ round' \in 0 .. 8
  <2>1. CASE BeginCompaction
    BY <2>1, <1>3, PlacerAssumption DEF BeginCompaction, PlacerAssumption
  <2>2. CASE NextRound
    <3>1. CASE best # start /\ round < 8
      <4>1. Around(step, round + 1)
        BY <2>2, <3>1 DEF NextRound
      <4>2. step \in Nat /\ round + 1 \in 0 .. 8
        BY <3>1 DEF TypeOK
      <4>3. QED
        BY <4>1, <4>2, <1>3
    <3>2. CASE ~(best # start /\ round < 8) /\ step > 1
      BY <2>2, <3>2, <1>3 DEF NextRound, TypeOK
    <3>3. CASE ~(best # start /\ round < 8) /\ ~(step > 1)
      BY <2>2, <3>3 DEF NextRound, TypeOK, Queue, QueueFlagged
    <3>4. QED
      BY <3>1, <3>2, <3>3
  <2>3. QED
    BY <2>1, <2>2
<1>5. TypeOK'
  BY <1>1, <1>4 DEF TypeOK, sheet, memory, Phases
<1>6. Control'
  BY <1>1 DEF Control
<1>7. PocketsQueued' /\ ProposalsQueued' /\ RefusedHonestly'
  BY <1>1 DEF PocketsQueued, ProposalsQueued, RefusedHonestly
<1>8. QED
  BY <1>2, <1>4, <1>5, <1>6, <1>7 DEF Queue

-----------------------------------------------------------------------------
(* Steps that validate.                                                    *)

LEMMA NextBatch ==
  ASSUME IInv, phase \notin {"begin", "done"}, NEW order, ValidateNext(order)
  PROVE  \E batch \in SUBSET queue, filter \in Filters :
           Validated(batch, order, TRUE, filter) /\ queue' = queue \ batch
<1>1. PICK batch \in SUBSET queue, filter \in Filters :
        Validate(batch, order, TRUE, filter) /\ queue' = queue \ batch
  BY DEF ValidateNext
<1>2. /\ TypeOK /\ NotRejected /\ Device /\ ~expired /\ todo # <<>>
      /\ batch \in SUBSET Candidates /\ \A c \in batch : c.flag
  BY DEF IInv, Memory, Hidden, Placing, Control, ValidateNext, Queue, QueueFlagged,
         TypeOK
<1>3. filter.pixels = raster
  BY <1>2, FilterTrue
<1>4. Validated(batch, order, TRUE, filter)
  BY <1>1, <1>2, <1>3, ValidateTrue
<1>5. QED
  BY <1>1, <1>4

\* Holes, proposals, grids and the compaction take batches off the queue.
LEMMA QueueStep ==
  ASSUME IInv, TryPockets \/ TryOrdered \/ TryCoarse \/ TryCompact
  PROVE  IInv'
<1> USE DEF IInv
<1>1. PICK order : ValidateNext(order)
  BY DEF TryPockets, TryOrdered, TryCoarse, TryCompact
<1>2. /\ phase \in {"pockets", "ordered", "coarse", "compact"}
      /\ todo # <<>> /\ ~expired
      /\ UNCHANGED <<config, todo, sheet, cursor, exhausted, failedAt, tried,
                     ahead, pending, loop>>
  BY DEF TryPockets, TryOrdered, TryCoarse, TryCompact, ValidateNext, Control
<1>3. PICK batch \in SUBSET queue, filter \in Filters :
        Validated(batch, order, TRUE, filter) /\ queue' = queue \ batch
  BY <1>1, <1>2, NextBatch
<1>4. /\ Placing' /\ NotRejected' /\ NotExhausted' /\ NotTried' /\ FailedTrue'
      /\ gpu' \in Devices
  BY <1>2, <1>3, ValidatedStep
<1>5. \A k, o : Free(k, o)' <=> Free(k, o)
  BY <1>2, FreeSame DEF sheet
<1>6. Part \in Kinds /\ Part' = Part
  BY <1>2, PartKind DEF Part
<1>7. TypeOK'
  BY <1>2, <1>3, <1>4 DEF TypeOK, Validated, sheet, loop, TryPockets, TryOrdered,
     TryCoarse, TryCompact, Goto, Phases
<1>8. NotPassed' /\ PendingFlagged'
  BY <1>2, <1>5 DEF NotPassed, PendingFlagged, Memory, Hidden
<1>9. Control'
  BY <1>2, <1>3 DEF Control, Validated, TryPockets, TryOrdered, TryCoarse,
     TryCompact, Goto
<1>10. QueueFlagged'
  BY <1>3 DEF Queue, QueueFlagged
<1>11. PocketsQueued'
  <2>1. SUFFICES ASSUME ~expired', phase' = "pockets", config.patternTrial,
                        NEW o \in Origins, NEW q \in placed, Free(Part, o),
                        [at |-> o - q.at, contained |-> TRUE]
                          \in Pocketed[q.kind][Part],
                        q \notin tried[Part]
                 PROVE  Candidate(o) \in queue'
    BY <1>2, <1>5, <1>6 DEF PocketsQueued, sheet
  <2>2. phase = "pockets" /\ best = None /\ best' = None
    BY <2>1, <1>2 DEF Control, TryPockets, TryOrdered, TryCoarse, TryCompact, Goto
  <2>3. Candidate(o) \in queue
    BY <1>2, <2>1, <2>2 DEF Queue, PocketsQueued
  <2>4. Candidate(o) \notin batch
    BY <1>3, <2>1, <2>2 DEF Validated, Candidate
  <2>5. QED
    BY <1>3, <2>3, <2>4
<1>12. ProposalsQueued'
  <2>1. SUFFICES ASSUME ~expired', phase' = "ordered", config.bottomLeft,
                        NEW o \in Proposals(Part)', Free(Part, o)
                 PROVE  Candidate(o) \in queue'
    BY <1>2, <1>5, <1>6 DEF ProposalsQueued
  <2>2. phase = "ordered" /\ best = None /\ best' = None
    BY <2>1, <1>2 DEF Control, TryPockets, TryOrdered, TryCoarse, TryCompact, Goto
  <2>3. o \in Proposals(Part)
    BY <1>2, <1>3, <1>6, <2>1 DEF Proposals, Validated, sheet
  <2>4. Candidate(o) \in queue
    BY <1>2, <2>1, <2>2, <2>3 DEF Queue, ProposalsQueued
  <2>5. Candidate(o) \notin batch
    BY <1>3, <2>1, <2>2 DEF Validated, Candidate
  <2>6. QED
    BY <1>3, <2>4, <2>5
<1>13. RefusedHonestly'
  BY DEF RefusedHonestly, TryPockets, TryOrdered, TryCoarse, TryCompact, Goto
<1>14. QED
  BY <1>4, <1>7, <1>8, <1>9, <1>10, <1>11, <1>12, <1>13 DEF Memory, Hidden, Queue

\* The pattern, ahead and at last.
LEMMA LookAheadStep == ASSUME IInv, LookAhead PROVE IInv'
<1> USE DEF IInv
<1>1. PICK next \in SUBSET (Pattern[Part] \ ahead[Part]), filter \in Filters :
        LET flagged == {[at |-> o, contained |-> TRUE, flag |->
                           filter.device.up => Fits(Part, o, filter.pixels)] :
                          o \in next}
        IN /\ Validate(flagged, AnyOrder, FALSE, filter)
           /\ pending' = [pending EXCEPT ![Part] = flagged]
           /\ ahead' = [ahead EXCEPT ![Part] = @ \cup next]
  BY Zenon DEF LookAhead
<1>2. /\ phase = "pattern" /\ todo # <<>> /\ ~expired /\ best = None
      /\ UNCHANGED <<config, todo, sheet, cursor, exhausted, failedAt, tried,
                     queue, loop>>
      /\ TypeOK /\ NotRejected /\ Device
  BY DEF LookAhead, Control, Memory, Hidden, Placing
<1>3. Part \in Kinds /\ Part' = Part
  BY <1>2, PartKind DEF Part
<1>4. filter.pixels = raster /\ filter \in Filters \cup {OnCpu}
  BY <1>2, FilterTrue
<1> DEFINE flagged == {[at |-> o, contained |-> TRUE, flag |->
                          filter.device.up => Fits(Part, o, filter.pixels)] :
                         o \in next}
<1>5. next \subseteq Origins
  BY <1>3, PlacerAssumption DEF PlacerAssumption
<1>6. /\ flagged \in SUBSET Candidates
      /\ \A c \in flagged : ~c.flag => ~Free(Part, c.at)
  <2>1. \A c \in flagged : \E o \in next :
          c = [at |-> o, contained |-> TRUE, flag |->
                 filter.device.up => Fits(Part, o, raster)]
    BY <1>4
  <2> HIDE DEF flagged
  <2>2. ASSUME NEW c \in flagged
        PROVE  c \in Candidates /\ (~c.flag => ~Free(Part, c.at))
    <3>1. PICK o \in next :
            c = [at |-> o, contained |-> TRUE, flag |->
                   filter.device.up => Fits(Part, o, raster)]
      BY <2>1
    <3>2. c.at = o /\ o \in Origins
      BY <1>5, <3>1
    <3>3. c.flag = (filter.device.up => Fits(Part, o, raster))
      BY <3>1, Zenon
    <3>4. (filter.device.up => Fits(Part, o, raster)) \in BOOLEAN
      OBVIOUS
    <3>5. c \in Candidates
      BY <3>1, <3>2, <3>4, Zenon DEF Candidates
    <3>6. ~c.flag => ~Free(Part, c.at)
      <4>1. ~c.flag => ~Fits(Part, o, raster)
        BY <3>3, Zenon
      <4>2. QED
        BY <3>2, <4>1 DEF Free
    <3>7. QED
      BY <3>5, <3>6
  <2>3. QED
    BY <2>2
<1>7. Validated(flagged, AnyOrder, FALSE, filter)
  <2>1. Validate(flagged, AnyOrder, FALSE, filter)
    BY <1>1
  <2> HIDE DEF flagged
  <2>2. QED
    BY <1>2, <1>4, <1>6, <2>1, ValidateTrue
<1>8. /\ pending' = [pending EXCEPT ![Part] = flagged]
      /\ ahead' = [ahead EXCEPT ![Part] = @ \cup next]
  BY <1>1
<1> HIDE DEF flagged
<1>9. /\ Placing' /\ NotRejected' /\ NotExhausted' /\ NotTried' /\ FailedTrue'
      /\ gpu' \in Devices
  BY <1>2, <1>4, <1>7, ValidatedStep
<1>10. \A k, o : Free(k, o)' <=> Free(k, o)
  BY <1>2, FreeSame DEF sheet
<1>11. TypeOK'
  <2>1. /\ pending' \in [Kinds -> SUBSET Candidates]
        /\ ahead' \in [Kinds -> SUBSET Origins]
    BY <1>3, <1>5, <1>6, <1>8 DEF TypeOK
  <2>2. phase' \in Phases
    BY DEF LookAhead, Goto, Phases
  <2>3. QED
    BY <1>2, <1>7, <1>9, <2>1, <2>2 DEF TypeOK, Validated, sheet, loop
<1>12. NotPassed'
  BY <1>2, <1>10 DEF NotPassed, Memory, Hidden
<1>13. PendingFlagged'
  BY <1>2, <1>3, <1>6, <1>8, <1>10 DEF PendingFlagged, Memory, TypeOK
<1>14. Control' /\ RefusedHonestly'
  BY <1>2, <1>7 DEF Control, Validated, LookAhead, Goto, RefusedHonestly
<1>15. Queue'
  BY <1>2 DEF Queue, QueueFlagged, PocketsQueued, ProposalsQueued, LookAhead, Goto
<1>16. QED
  BY <1>9, <1>11, <1>12, <1>13, <1>14, <1>15 DEF Memory, Hidden

LEMMA PatternStep == ASSUME IInv, TryPattern PROVE IInv'
<1> USE DEF IInv
<1>1. PICK c \in pending[Part] :
        /\ Validate({c}, AnyOrder, TRUE, OnCpu)
        /\ pending' = IF expired' THEN pending
                      ELSE [pending EXCEPT ![Part] = @ \ {c}]
  BY DEF TryPattern
<1>2. /\ phase = "pattern" /\ todo # <<>> /\ ~expired /\ best = None
      /\ UNCHANGED <<config, todo, sheet, cursor, exhausted, failedAt, tried,
                     ahead, queue, loop>>
      /\ TypeOK /\ NotRejected
  BY DEF TryPattern, Control, Memory, Hidden
<1>3. Part \in Kinds /\ Part' = Part
  BY <1>2, PartKind DEF Part
<1>4. {c} \in SUBSET Candidates /\ \A d \in {c} : ~d.flag => ~Free(Part, d.at)
  BY <1>2, <1>3 DEF TypeOK, Memory, PendingFlagged
<1>5. OnCpu.pixels = raster
  BY DEF OnCpu
<1>6. Validated({c}, AnyOrder, TRUE, OnCpu)
  BY <1>1, <1>2, <1>4, <1>5, ValidateTrue
<1>7. /\ Placing' /\ NotRejected' /\ NotExhausted' /\ NotTried' /\ FailedTrue'
      /\ gpu' \in Devices
  BY <1>2, <1>6, ValidatedStep
<1>8. \A k, o : Free(k, o)' <=> Free(k, o)
  BY <1>2, FreeSame DEF sheet
<1>9. \A k \in Kinds : pending'[k] \subseteq pending[k]
  BY <1>1, <1>3 DEF TypeOK
<1>10. TypeOK'
  <2>1. pending' \in [Kinds -> SUBSET Candidates]
    BY <1>1, <1>3 DEF TypeOK
  <2>2. phase' \in Phases
    BY DEF TryPattern, Goto, Phases
  <2>3. QED
    BY <1>2, <1>6, <1>7, <2>1, <2>2 DEF TypeOK, Validated, sheet, loop
<1>11. NotPassed' /\ PendingFlagged'
  BY <1>2, <1>8, <1>9 DEF NotPassed, PendingFlagged, Memory, Hidden
<1>12. Control' /\ RefusedHonestly'
  BY <1>2, <1>6 DEF Control, Validated, TryPattern, Goto, RefusedHonestly
<1>13. Queue'
  BY <1>2 DEF Queue, QueueFlagged, PocketsQueued, ProposalsQueued, TryPattern, Goto
<1>14. QED
  BY <1>7, <1>10, <1>11, <1>12, <1>13 DEF Memory, Hidden

\* The scan: what it leaves behind has been tried or was known to fail.
LEMMA FineStep == ASSUME IInv, TryFine PROVE IInv'
<1> USE DEF IInv
<1>1. PICK next \in cursor[Part] + 1 .. End, filter \in Filters :
        LET batch == {o \in cursor[Part] .. next - 1 :
                        filter.device.up \/ o \notin rejected[Part]}
        IN /\ Validate(AsCandidates(batch), Scan, TRUE, filter)
           /\ cursor' = IF expired' THEN cursor
                        ELSE [cursor EXCEPT ![Part] =
                                IF best' # None THEN best' ELSE next]
  BY DEF TryFine
<1> DEFINE batch == {o \in cursor[Part] .. next - 1 :
                       filter.device.up \/ o \notin rejected[Part]}
<1>2. /\ phase = "fine" /\ todo # <<>> /\ ~expired /\ best = None
      /\ UNCHANGED <<config, todo, sheet, exhausted, failedAt, tried, ahead,
                     pending, queue, loop>>
      /\ TypeOK /\ NotRejected /\ Device
  BY DEF TryFine, Control, Memory, Hidden, Placing
<1>3. Part \in Kinds /\ Part' = Part
  BY <1>2, PartKind DEF Part
<1>4. /\ cursor[Part] \in 0 .. End /\ next \in 0 .. End
      /\ batch \in SUBSET Origins
  <2>1. cursor[Part] \in 0 .. End
    BY <1>2, <1>3 DEF TypeOK
  <2>2. End \in Nat
    BY PlacerAssumption DEF PlacerAssumption
  <2>3. next \in 0 .. End
    BY <2>1, <2>2
  <2>4. QED
    BY <2>1, <2>2, <2>3 DEF Origins
<1>5. filter.pixels = raster
  BY <1>2, FilterTrue
<1>6. /\ AsCandidates(batch) \in SUBSET Candidates
      /\ \A c \in AsCandidates(batch) : c.flag /\ c.contained /\ c.at \in batch
      /\ \A o \in batch : Candidate(o) \in AsCandidates(batch)
  BY <1>4, CandidatesTyped
<1>7. /\ Validate(AsCandidates(batch), Scan, TRUE, filter)
      /\ cursor' = IF expired' THEN cursor
                   ELSE [cursor EXCEPT ![Part] =
                           IF best' # None THEN best' ELSE next]
  BY <1>1
<1> HIDE DEF batch
<1>8. Validated(AsCandidates(batch), Scan, TRUE, filter)
  BY <1>2, <1>5, <1>6, <1>7, ValidateTrue
<1>9. /\ Placing' /\ NotRejected' /\ NotExhausted' /\ NotTried' /\ FailedTrue'
      /\ gpu' \in Devices
  BY <1>2, <1>8, ValidatedStep
<1>10. \A k, o : Free(k, o)' <=> Free(k, o)
  BY <1>2, FreeSame DEF sheet
<1>11. TypeOK'
  <2>1. cursor' \in [Kinds -> 0 .. End]
    <3>1. best' \in Origins \cup {None}
      BY <1>8 DEF Validated
    <3>2. best' # None => best' \in 0 .. End
      BY <3>1, PlacerAssumption DEF PlacerAssumption, Origins
    <3>3. QED
      BY <1>2, <1>3, <1>4, <1>7, <3>2 DEF TypeOK
  <2>2. phase' \in Phases
    BY DEF TryFine, Goto, Phases
  <2>3. QED
    BY <1>2, <1>8, <1>9, <2>1, <2>2 DEF TypeOK, Validated, sheet, loop
<1>12. NotPassed'
  <2>1. SUFFICES ASSUME ~expired', NEW k \in Kinds, NEW o \in Origins, Free(k, o)
                 PROVE  o >= cursor'[k]
    BY <1>10 DEF NotPassed
  <2>2. o >= cursor[k] /\ o \notin rejected[k]
    BY <1>2, <2>1 DEF Memory, Hidden, NotPassed, NotRejected
  <2>3. CASE k # Part
    BY <1>2, <1>3, <1>7, <2>2, <2>3 DEF TypeOK
  <2>4. CASE k = Part
    <3>1. cursor'[Part] = IF best' # None THEN best' ELSE next
      BY <1>2, <1>3, <1>7, <2>1 DEF TypeOK
    <3>2. o \in Int /\ best' \in Origins \cup {None}
      BY <1>8, PlacerAssumption DEF PlacerAssumption, Origins, Validated
    <3>3. CASE o >= next
      <4>1. CASE best' = None
        BY <2>4, <3>1, <3>3, <4>1
      <4>2. CASE best' # None
        <5>1. PICK c \in AsCandidates(batch) : best' = c.at
          BY <1>2, <1>8, <4>2 DEF Validated
        <5>2. best' \in batch
          BY <1>6, <5>1
        <5>3. best' <= next - 1
          BY <1>4, <5>2 DEF batch
        <5>4. QED
          BY <1>4, <2>4, <3>1, <3>2, <3>3, <4>2, <5>2, <5>3 DEF Origins
      <4>3. QED
        BY <4>1, <4>2
    <3>4. CASE ~(o >= next)
      <4>1. o \in batch
        BY <1>4, <2>2, <2>4, <3>2, <3>4 DEF batch
      <4>2. /\ Candidate(o) \in AsCandidates(batch)
            /\ Candidate(o).contained /\ Candidate(o).at = o
        BY <1>6, <4>1 DEF Candidate
      <4>3. best' # None /\ Scan[best'] <= Scan[o]
        BY <1>2, <1>8, <2>1, <2>4, <4>2 DEF Validated
      <4>4. QED
        BY <2>4, <3>1, <3>2, <4>3 DEF Scan
    <3>5. QED
      BY <3>3, <3>4
  <2>5. QED
    BY <2>3, <2>4
<1>13. PendingFlagged'
  BY <1>2, <1>10 DEF PendingFlagged, Memory
<1>14. Control' /\ RefusedHonestly'
  BY <1>2, <1>8 DEF Control, Validated, TryFine, Goto, RefusedHonestly
<1>15. Queue'
  BY <1>2 DEF Queue, QueueFlagged, PocketsQueued, ProposalsQueued, TryFine, Goto
<1>16. QED
  BY <1>9, <1>11, <1>12, <1>13, <1>14, <1>15 DEF Memory, Hidden

-----------------------------------------------------------------------------
(* Steps that remember something about a shape, or place it.               *)

\* What the free rectangles have proved, or the whole scan.
LEMMA ExhaustStep == ASSUME IInv, Begin \/ NothingLeft PROVE IInv'
<1> USE DEF IInv
<1>1. /\ phase \in {"begin", "fine"} /\ todo # <<>> /\ best = None
      /\ ~expired /\ UNCHANGED <<expired, stopped>>
      /\ UNCHANGED <<config, todo, sheet, rejected, cursor, failedAt, tried,
                     ahead, pending, gpu, best, loop>>
  BY DEF Begin, NothingLeft, Running, Control
<1>2. Part \in Kinds /\ Part' = Part /\ Count' = Count
  BY <1>1, PartKind DEF Part, Count, sheet
<1>3. \A k, o : Free(k, o)' <=> Free(k, o)
  BY <1>1, FreeSame DEF sheet
<1>4. NothingLeft => \A o \in Origins : ~Free(Part, o)
  BY <1>1, <1>2, PlacerAssumption
  DEF NothingLeft, Memory, Hidden, NotPassed, PlacerAssumption, Origins
<1>5. \/ exhausted' = exhausted
      \/ exhausted' = exhausted \cup {Part} /\ \A o \in Origins : ~Free(Part, o)
  BY <1>4 DEF Begin, NothingLeft
<1>6. NotExhausted'
  BY <1>1, <1>3, <1>5 DEF NotExhausted, Memory, Hidden
<1>7. NotRejected' /\ NotPassed' /\ NotTried' /\ PendingFlagged'
  BY <1>1, <1>3 DEF Memory, Hidden, NotRejected, NotPassed, NotTried, PendingFlagged
<1>8. FailedTrue'
  <2>1. \A k : Proposals(k)' = Proposals(k)
    BY <1>1, ProposalsSame DEF sheet
  <2>2. QED
    BY <1>1, <1>2, <1>3, <2>1 DEF Memory, FailedTrue
<1>9. Placing'
  <2>1. Device' /\ Chosen'
    BY <1>1, <1>2 DEF Device, Chosen, Placing, sheet
  <2>2. Covering' /\ Distant'
    BY <1>1 DEF Covering, Distant, Placing, sheet
  <2>3. QED
    BY <2>1, <2>2 DEF Placing
<1>10. queue' \in SUBSET Candidates /\ QueueFlagged'
  <2>1. CASE NothingLeft
    BY <2>1 DEF NothingLeft, TypeOK, Queue, QueueFlagged
  <2>2. CASE Begin
    <3>1. ASSUME NEW c \in Pockets(Part), c.at \in Origins
          PROVE  c \in Candidates /\ c.flag
      <4>1. PICK q \in placed \ tried[Part] : \E t \in Pocketed[q.kind][Part] :
              c = [at |-> q.at + t.at, contained |-> t.contained, flag |-> TRUE]
        BY <3>1 DEF Pockets
      <4>2. PICK t \in Pocketed[q.kind][Part] :
              c = [at |-> q.at + t.at, contained |-> t.contained, flag |-> TRUE]
        BY <4>1
      <4>3. t.contained \in BOOLEAN
        BY <1>2, PlacerAssumption DEF PlacerAssumption, TypeOK, Placements
      <4>4. QED
        BY <3>1, <4>2, <4>3 DEF Candidates
    <3>2. QED
      BY <2>2, <3>1 DEF Begin, QueueFlagged
  <2>3. QED
    BY <2>1, <2>2
<1>11. TypeOK'
  BY <1>1, <1>2, <1>5, <1>10 DEF TypeOK, sheet, loop, Phases, Begin, NothingLeft
<1>12. Control'
  BY <1>1 DEF Control, Begin, NothingLeft
<1>13. PocketsQueued'
  <2>1. SUFFICES ASSUME Begin, config.patternTrial,
                        NEW o \in Origins, NEW q \in placed, Free(Part, o),
                        [at |-> o - q.at, contained |-> TRUE]
                          \in Pocketed[q.kind][Part],
                        q \notin tried[Part]
                 PROVE  Candidate(o) \in queue'
    BY <1>1, <1>2, <1>3 DEF PocketsQueued, NothingLeft, sheet
  <2>2. o \in Int /\ q.at \in Int
    BY PlacerAssumption DEF PlacerAssumption, Origins, TypeOK, Placements
  <2>3. PICK t \in Pocketed[q.kind][Part] : t.at = o - q.at /\ t.contained = TRUE
    BY <2>1
  <2>4. Candidate(o) \in Pockets(Part)
    <3>1. q.at + t.at = o
      BY <2>2, <2>3
    <3>2. Candidate(o) =
            [at |-> q.at + t.at, contained |-> t.contained, flag |-> TRUE]
      BY <2>3, <3>1 DEF Candidate
    <3> DEFINE offers(p) ==
          {[at |-> p.at + u.at, contained |-> u.contained, flag |-> TRUE] :
             u \in Pocketed[p.kind][Part]}
    <3>3. Candidate(o) \in offers(q)
      BY <2>3, <3>2
    <3>4. Pockets(Part) = UNION {offers(p) : p \in placed \ tried[Part]}
      BY DEF Pockets
    <3> HIDE DEF offers
    <3>5. QED
      BY <2>1, <3>3, <3>4
  <2>5. Candidate(o).at = o /\ o \notin rejected[Part]
    BY <1>1, <1>2, <2>1 DEF Candidate, Memory, Hidden, NotRejected
  <2>6. QED
    BY <2>1, <2>4, <2>5 DEF Begin
<1>14. ProposalsQueued'
  BY DEF ProposalsQueued, Begin, NothingLeft
<1>15. RefusedHonestly'
  BY <1>1, <1>2, <1>3, <1>4, ProposalsInside, ProposalsSame
  DEF RefusedHonestly, Begin, NothingLeft, sheet
<1>16. QED
  BY <1>6, <1>7, <1>8, <1>9, <1>10, <1>11, <1>12, <1>13, <1>14, <1>15
  DEF Memory, Hidden, Queue

\* A hole that is used up had nothing to offer.
LEMMA UsedUpStep == ASSUME IInv, NoPocketLeft PROVE IInv'
<1> USE DEF IInv
<1>1. /\ phase = "pockets" /\ phase' = "pattern" /\ todo # <<>> /\ best = None
      /\ ~expired /\ UNCHANGED <<expired, stopped>> /\ queue = {}
      /\ UNCHANGED <<config, todo, sheet, rejected, cursor, exhausted, failedAt,
                     ahead, pending, gpu, queue, best, loop>>
  BY DEF NoPocketLeft, Running, Control
<1>2. Part \in Kinds /\ Part' = Part /\ Count' = Count
  BY <1>1, PartKind DEF Part, Count, sheet
<1>3. \A k, o : Free(k, o)' <=> Free(k, o)
  BY <1>1, FreeSame DEF sheet
<1>4. NotTried'
  <2>1. SUFFICES ASSUME NEW k \in Kinds, NEW o \in Origins, Free(k, o),
                        NEW q \in tried'[k]
                 PROVE  [at |-> o - q.at, contained |-> TRUE]
                          \notin Pocketed[q.kind][k]
    BY <1>3 DEF NotTried
  <2>2. CASE q \in tried[k]
    BY <1>1, <2>1, <2>2 DEF Memory, Hidden, NotTried
  <2>3. CASE q \notin tried[k]
    <3>1. k = Part /\ config.patternTrial /\ q \in placed
      BY <1>2, <2>1, <2>3 DEF NoPocketLeft, TypeOK
    <3>2. QED
      BY <1>1, <2>1, <2>3, <3>1 DEF Queue, PocketsQueued
  <2>4. QED
    BY <2>2, <2>3
<1>5. NotRejected' /\ NotPassed' /\ NotExhausted' /\ PendingFlagged'
  BY <1>1, <1>3 DEF Memory, Hidden, NotRejected, NotPassed, NotExhausted, PendingFlagged
<1>6. FailedTrue'
  <2>1. \A k : Proposals(k)' = Proposals(k)
    BY <1>1, ProposalsSame DEF sheet
  <2>2. QED
    BY <1>1, <1>2, <1>3, <2>1 DEF Memory, FailedTrue
<1>7. Placing'
  <2>1. Device' /\ Chosen'
    BY <1>1, <1>2 DEF Device, Chosen, Placing, sheet
  <2>2. Covering' /\ Distant'
    BY <1>1 DEF Covering, Distant, Placing, sheet
  <2>3. QED
    BY <2>1, <2>2 DEF Placing
<1>8. TypeOK'
  <2>1. tried' \in [Kinds -> SUBSET Placements]
    BY <1>2 DEF NoPocketLeft, TypeOK
  <2>2. QED
    BY <1>1, <2>1 DEF TypeOK, sheet, loop, Phases
<1>9. Control' /\ RefusedHonestly'
  BY <1>1 DEF Control, RefusedHonestly
<1>10. Queue'
  BY <1>1 DEF Queue, QueueFlagged, PocketsQueued, ProposalsQueued
<1>11. QED
  BY <1>4, <1>5, <1>6, <1>7, <1>8, <1>9, <1>10 DEF Memory, Hidden

\* The failure of a corner-first search is remembered with the sheet.
LEMMA RefuseStep == ASSUME IInv, Refuse PROVE IInv'
<1> USE DEF IInv
<1>1. /\ phase = "settle" /\ phase' = "begin" /\ todo # <<>>
      /\ best = None /\ best' = None /\ queue' = {}
      /\ UNCHANGED <<config, placed, raster, used, rejected, cursor, exhausted,
                     tried, ahead, pending, gpu, expired, stopped>>
  BY DEF Refuse, Taken, Control
<1>2. Part \in Kinds /\ Count \in Nat /\ Count' = Count
  BY <1>1, PartKind, CountNat DEF Count
<1>3. \A k, o : Free(k, o)' <=> Free(k, o)
  BY <1>1, FreeSame
<1>4. \A k : Proposals(k)' = Proposals(k)
  BY <1>1, ProposalsSame
<1>5. Hidden' /\ PendingFlagged'
  BY <1>1, <1>3 DEF Memory, Hidden, NotRejected, NotPassed, NotExhausted, NotTried,
     PendingFlagged
<1>6. failedAt' \in [Kinds -> Int] /\ FailedTrue'
  <2>1. \/ failedAt' = failedAt
        \/ failedAt' = [failedAt EXCEPT ![Part] = Count] /\ config.bottomLeft
    BY DEF Refuse
  <2>2. ~expired /\ config.bottomLeft => \A o \in Proposals(Part) : ~Free(Part, o)
    BY <1>1 DEF RefusedHonestly
  <2>3. failedAt' \in [Kinds -> Int] /\ \A k \in Kinds : failedAt'[k] <= Count
    <3>1. failedAt \in [Kinds -> Int] /\ \A k \in Kinds : failedAt[k] <= Count
      BY DEF Memory, FailedTrue, TypeOK
    <3>2. QED
      BY <1>2, <2>1, <3>1
  <2>4. ASSUME ~expired, config.bottomLeft, NEW k \in Kinds, failedAt'[k] = Count
        PROVE  \A o \in Proposals(k) : ~Free(k, o)
    <3>1. failedAt'[k] = failedAt[k] \/ k = Part
      BY <2>1 DEF TypeOK
    <3>2. QED
      BY <2>2, <2>4, <3>1 DEF Memory, FailedTrue
  <2>5. QED
    BY <1>1, <1>2, <1>3, <1>4, <2>3, <2>4 DEF FailedTrue
<1>7. Placing'
  BY <1>1, <1>2 DEF Placing, Device, Chosen, Covering, Distant
<1>8. TypeOK'
  <2>1. todo' \in Seq(Kinds) /\ unplaced' \in Seq(Kinds)
    BY <1>1, <1>2 DEF Refuse, Taken, TypeOK
  <2>2. /\ window' = 0 /\ step' = 0 /\ start' = None /\ round' = 0
    BY DEF Refuse, Taken
  <2>3. 0 \in 0 .. 8 /\ 0 \in Nat
    OBVIOUS
  <2>4. QED
    BY <1>1, <1>6, <2>1, <2>2, <2>3 DEF TypeOK, Phases
<1>9. Control' /\ Queue' /\ RefusedHonestly'
  BY <1>1 DEF Control, Queue, QueueFlagged, PocketsQueued, ProposalsQueued,
     RefusedHonestly
<1>10. QED
  BY <1>5, <1>6, <1>7, <1>8, <1>9 DEF Memory

LEMMA FinishStep == ASSUME IInv, Finish PROVE IInv'
<1> USE DEF IInv
<1>1. /\ phase = "begin" /\ phase' = "done" /\ best = None
      /\ UNCHANGED <<config, placed, raster, used, memory, gpu, expired, queue,
                     best, loop>>
  BY DEF Finish, Control
<1>2. Count' = Count /\ \A k, o : Free(k, o)' <=> Free(k, o)
  BY <1>1, FreeSame DEF Count
<1>3. \A k : Proposals(k)' = Proposals(k)
  BY <1>1, ProposalsSame DEF memory
<1>4. Memory'
  BY <1>1, <1>2, <1>3 DEF Memory, Hidden, NotRejected, NotPassed, NotExhausted,
     NotTried, FailedTrue, PendingFlagged, memory
<1>5. Placing'
  BY <1>1, <1>2 DEF Placing, Device, Chosen, Covering, Distant
<1>6. TypeOK'
  <2>1. todo' \in Seq(Kinds) /\ unplaced' \in Seq(Kinds) /\ stopped' \in BOOLEAN
    BY DEF Finish, TypeOK
  <2>2. QED
    BY <1>1, <2>1 DEF TypeOK, Phases, memory, loop
<1>7. Control' /\ Queue' /\ RefusedHonestly'
  BY <1>1 DEF Control, Queue, QueueFlagged, PocketsQueued, ProposalsQueued,
     RefusedHonestly
<1>8. QED
  BY <1>4, <1>5, <1>6, <1>7

\* A part is placed where the sheet was free.
LEMMA AcceptStep == ASSUME IInv, Accept PROVE IInv'
<1> USE DEF IInv
<1> DEFINE new == [kind |-> Part, at |-> best]
           pixels == Raster[Part][best]
<1>1. /\ phase = "settle" /\ phase' = "begin" /\ todo # <<>>
      /\ best # None /\ best' = None /\ queue' = {}
      /\ UNCHANGED <<config, unplaced, memory, expired, stopped>>
      /\ placed' = placed \cup {new}
      /\ raster' = IF expired THEN raster ELSE raster \cup pixels
      /\ gpu' \in Drawn(pixels)
  BY DEF Accept, Covered, Taken, Control
<1>2. Part \in Kinds /\ best \in Origins /\ new \in Placements
  BY <1>1, PartKind DEF TypeOK, Placements
<1>3. /\ best \in Inside[Part] /\ best \in OnSheet[Part]
      /\ pixels \cap raster = {} /\ pixels \subseteq Material
      /\ \A q \in placed : <<new, q>> \notin Clash
  BY <1>1 DEF Placing, Chosen, Free, Fits, Clear
<1>4. pixels \subseteq Int /\ pixels # {}
  BY <1>2, PlacerAssumption DEF PlacerAssumption
<1>5. raster = UNION {Raster[q.kind][q.at] : q \in placed}
  BY <1>1 DEF Placing, Covering
<1>6. \A q \in placed : Raster[q.kind][q.at] \subseteq raster
  BY <1>5
<1>7. new \notin placed
  BY <1>3, <1>4, <1>6
<1>8. /\ IsFiniteSet(placed') /\ Count \in Nat /\ Count' = Count + 1
  BY <1>1, <1>7, FS_AddElement, CountNat DEF TypeOK, Count
<1>9. \A k, o : Free(k, o)' => Free(k, o)
  BY <1>1, FreeShrinks
<1> HIDE DEF pixels
<1>10. gpu' \in Devices /\ Device'
  <2>1. \/ gpu' = gpu
        \/ gpu' = Lost
        \/ /\ gpu' = [gpu EXCEPT !.pixels = SymDiff(@, pixels), !.version = Count + 1]
           /\ gpu.up /\ gpu.version = Count /\ ~expired
    BY <1>1 DEF Drawn
  <2>2. CASE gpu' = gpu
    BY <1>8, <2>2 DEF Placing, Device, TypeOK, Devices
  <2>3. CASE gpu' = Lost
    BY <1>8, <2>3 DEF Device, Lost, Devices
  <2>4. CASE /\ gpu' = [gpu EXCEPT !.pixels = SymDiff(@, pixels), !.version = Count + 1]
             /\ gpu.up /\ gpu.version = Count /\ ~expired
    <3>1. gpu.pixels = raster
      BY <2>4 DEF Placing, Device
    <3>2. SymDiff(raster, pixels) = raster \cup pixels
      BY <1>3 DEF SymDiff, pixels
    <3>3. raster \cup pixels \in SUBSET Int
      BY <1>4 DEF TypeOK, pixels
    <3>4. gpu' = [gpu EXCEPT !.pixels = raster \cup pixels, !.version = Count + 1]
      BY <2>4, <3>1, <3>2
    <3>5. gpu' \in Devices /\ gpu'.pixels = raster \cup pixels /\ gpu'.version = Count + 1
      <4>1. gpu \in Devices /\ Count + 1 \in Int
        BY <1>8 DEF TypeOK
      <4>2. gpu' = [up |-> gpu.up, masks |-> gpu.masks, version |-> Count + 1,
                    pixels |-> raster \cup pixels]
        BY <3>4, <4>1 DEF Devices
      <4>3. gpu.up \in BOOLEAN /\ gpu.masks \in SUBSET Kinds
        BY <4>1 DEF Devices
      <4>4. QED
        BY <3>3, <4>1, <4>2, <4>3 DEF Devices
    <3>6. QED
      BY <1>1, <1>8, <2>4, <3>5 DEF Device
  <2>5. QED
    BY <2>1, <2>2, <2>3, <2>4
<1>11. Chosen' /\ Covering'
  <2>1. Chosen'
    BY <1>1 DEF Chosen
  <2>2. raster \cup pixels = UNION {Raster[q.kind][q.at] : q \in placed \cup {new}}
    <3>1. new.kind = Part /\ new.at = best
      OBVIOUS
    <3> HIDE DEF new
    <3>2. QED
      BY <1>5, <3>1 DEF pixels
  <2>3. Covering'
    BY <1>1, <2>2 DEF Covering
  <2>4. QED
    BY <2>1, <2>3
<1>12. Distant'
  <2>1. \A q \in placed' : /\ q.at \in Inside[q.kind] \cap OnSheet[q.kind]
                            /\ Raster[q.kind][q.at] \subseteq Material
    <3>1. /\ new.at \in Inside[new.kind] \cap OnSheet[new.kind]
          /\ Raster[new.kind][new.at] \subseteq Material
      BY <1>3 DEF pixels
    <3> HIDE DEF new
    <3>2. QED
      BY <1>1, <3>1 DEF Placing, Distant
  <2>2. ASSUME NEW p \in placed', NEW q \in placed', p # q
        PROVE  /\ <<p, q>> \notin Clash
               /\ Raster[p.kind][p.at] \cap Raster[q.kind][q.at] = {}
    <3>1. CASE p \in placed /\ q \in placed
      BY <2>2, <3>1 DEF Placing, Distant
    <3>2. CASE p = new /\ q \in placed
      BY <1>3, <1>6, <3>2 DEF pixels
    <3>3. CASE p \in placed /\ q = new
      <4>1. <<q, p>> \notin Clash /\ p \in Placements /\ q \in Placements
        BY <1>2, <1>3, <3>3 DEF TypeOK
      <4>2. QED
        BY <1>3, <1>6, <3>3, <4>1, PlacerAssumption DEF PlacerAssumption, pixels
    <3>4. QED
      BY <1>1, <2>2, <3>1, <3>2, <3>3
  <2>3. QED
    BY <2>1, <2>2 DEF Distant
<1>13. Memory'
  <2>1. Hidden' /\ PendingFlagged'
    BY <1>1, <1>9 DEF Memory, Hidden, NotRejected, NotPassed, NotExhausted,
       NotTried, PendingFlagged, memory
  <2>2. FailedTrue'
    BY <1>1, <1>8 DEF Memory, FailedTrue, memory, TypeOK
  <2>3. QED
    BY <2>1, <2>2 DEF Memory
<1>14. TypeOK'
  <2>1. todo' \in Seq(Kinds)
    BY <1>1 DEF Accept, Covered, Taken, TypeOK
  <2>2. raster' \in SUBSET Int
    BY <1>1, <1>4 DEF TypeOK, pixels
  <2>3. used' \in Nat
    BY <1>2, PlacerAssumption
    DEF Accept, Covered, Larger, TypeOK, PlacerAssumption, Origins
  <2>4. placed' \in SUBSET Placements
    BY <1>1, <1>2 DEF TypeOK
  <2>5. /\ window' = 0 /\ step' = 0 /\ start' = None /\ round' = 0
    BY DEF Accept, Covered, Taken
  <2>6. 0 \in 0 .. 8 /\ 0 \in Nat
    OBVIOUS
  <2>7. QED
    BY <1>1, <1>8, <1>10, <2>1, <2>2, <2>3, <2>4, <2>5, <2>6
    DEF TypeOK, Phases, memory
<1>15. Control' /\ Queue' /\ RefusedHonestly'
  BY <1>1 DEF Control, Queue, QueueFlagged, PocketsQueued, ProposalsQueued,
     RefusedHonestly
<1>16. QED
  BY <1>10, <1>11, <1>12, <1>13, <1>14, <1>15 DEF Placing

-----------------------------------------------------------------------------
(* The theorems.                                                           *)

LEMMA InitIInv == Init => IInv
<1> SUFFICES ASSUME Init PROVE IInv
  OBVIOUS
<1>1. /\ placed = {} /\ raster = {} /\ used = 0 /\ unplaced = <<>> /\ queue = {}
      /\ best = None /\ phase = "begin" /\ ~expired /\ ~stopped /\ todo \in Orders
      /\ gpu \in [up : BOOLEAN, masks : {{}}, version : {-1}, pixels : {{}}]
  BY DEF Init
<1>2. Count = 0 /\ IsFiniteSet(placed)
  BY <1>1, FS_EmptySet DEF Count
<1>3. \A k \in Kinds : /\ rejected[k] = {} /\ cursor[k] = 0 /\ failedAt[k] = -1
                       /\ tried[k] = {} /\ pending[k] = {}
  BY DEF Init
<1>4. TypeOK
  <2>1. /\ rejected \in [Kinds -> SUBSET Origins] /\ cursor \in [Kinds -> 0 .. End]
        /\ failedAt \in [Kinds -> Int] /\ tried \in [Kinds -> SUBSET Placements]
        /\ ahead \in [Kinds -> SUBSET Origins]
        /\ pending \in [Kinds -> SUBSET Candidates]
    BY PlacerAssumption DEF Init, PlacerAssumption
  <2>2. gpu \in Devices
    BY <1>1 DEF Devices
  <2>3. /\ config \in [bottomLeft : BOOLEAN, patternTrial : BOOLEAN]
        /\ exhausted = {} /\ expired \in BOOLEAN /\ stopped \in BOOLEAN
        /\ window = 0 /\ step = 0 /\ start = None /\ round = 0
    BY DEF Init
  <2>4. todo \in Seq(Kinds)
    BY <1>1, PlacerAssumption DEF PlacerAssumption
  <2>5. QED
    BY <1>1, <1>2, <2>1, <2>2, <2>3, <2>4 DEF TypeOK, Phases
<1>5. Placing
  BY <1>1, <1>2 DEF Placing, Device, Chosen, Covering, Distant
<1>6. Memory
  <2>1. \A o \in Origins : o >= 0
    BY PlacerAssumption DEF PlacerAssumption, Origins
  <2>2. QED
    BY <1>2, <1>3, <2>1 DEF Init, Memory, Hidden, NotRejected, NotPassed,
       NotExhausted, NotTried, FailedTrue, PendingFlagged
<1>7. Control /\ Queue /\ RefusedHonestly
  BY <1>1 DEF Control, Queue, QueueFlagged, PocketsQueued, ProposalsQueued,
     RefusedHonestly
<1>8. QED
  BY <1>4, <1>5, <1>6, <1>7 DEF IInv

\* Nothing happens.
LEMMA StutterStep == ASSUME IInv, UNCHANGED vars PROVE IInv'
<1> USE DEF IInv, vars
<1>1. Placing' /\ Memory'
  BY QuietStep
<1>2. TypeOK' /\ Control'
  BY DEF TypeOK, Control, sheet, memory, loop
<1>3. Queue'
  BY DEF Queue, QueueFlagged, PocketsQueued, ProposalsQueued, Pockets, Proposals,
     Free, Fits, Clear, Part, sheet, memory
<1>4. RefusedHonestly'
  BY DEF RefusedHonestly, Proposals, Free, Fits, Clear, Part, sheet, memory
<1>5. QED
  BY <1>1, <1>2, <1>3, <1>4

LEMMA StepIInv == IInv /\ [Next]_vars => IInv'
<1> SUFFICES ASSUME IInv, [Next]_vars PROVE IInv'
  OBVIOUS
<1>1. CASE Expire \/ Interrupt
  BY <1>1, TimeStep
<1>2. CASE SkipFailed \/ SkipExhausted
  BY <1>2, SkipStep
<1>3. CASE NoPatternLeft \/ Propose \/ NoProposalLeft \/ CoarseTried
  BY <1>3, SourceStep
<1>4. CASE BeginCompaction \/ NextRound
  BY <1>4, RoundStep
<1>5. CASE TryPockets \/ TryOrdered \/ TryCoarse \/ TryCompact
  BY <1>5, QueueStep
<1>6. CASE LookAhead
  BY <1>6, LookAheadStep
<1>7. CASE TryPattern
  BY <1>7, PatternStep
<1>8. CASE TryFine
  BY <1>8, FineStep
<1>9. CASE Begin \/ NothingLeft
  BY <1>9, ExhaustStep
<1>10. CASE NoPocketLeft
  BY <1>10, UsedUpStep
<1>11. CASE Refuse
  BY <1>11, RefuseStep
<1>12. CASE Finish
  BY <1>12, FinishStep
<1>13. CASE Accept
  BY <1>13, AcceptStep
<1>14. CASE UNCHANGED vars
  BY <1>14, StutterStep
<1>15. QED
  BY <1>1, <1>2, <1>3, <1>4, <1>5, <1>6, <1>7, <1>8, <1>9, <1>10, <1>11, <1>12,
     <1>13, <1>14 DEF Next

LEMMA Invariant == Spec => []IInv
BY InitIInv, StepIInv, PTL DEF Spec

\* Every variable of the search keeps its type.
THEOREM TypeCorrect == Spec => []TypeOK
<1>1. IInv => TypeOK
  BY DEF IInv
<1>2. QED
  BY <1>1, Invariant, PTL

\* Whatever the shapes, the orders and the refusals of the budget: nothing the
\* search remembers from an earlier part hides a place from a later one.
THEOREM NothingHiddenAlways == Spec => []NothingHidden
<1>1. IInv => NothingHidden
  BY DEF IInv, Memory, Hidden, NotRejected, NotPassed, NotExhausted, NotTried,
     NothingHidden
<1>2. QED
  BY <1>1, Invariant, PTL

\* Whoever filters, and wherever the deadline interrupts: the parts keep their
\* distance, and the bitmaps show them.
THEOREM LayoutValidAlways == Spec => []LayoutValid
<1>1. IInv => LayoutValid
  BY DEF IInv, Placing, Distant, Covering, Device, LayoutValid
<1>2. QED
  BY <1>1, Invariant, PTL

\* What the search refuses fits nowhere.
THEOREM RefusedHonestlyAlways == Spec => []RefusedHonestly
<1>1. IInv => RefusedHonestly
  BY DEF IInv
<1>2. QED
  BY <1>1, Invariant, PTL

-----------------------------------------------------------------------------
(* The free rectangles miss no space, so that they decide what PartPlacer   *)
(* leaves open.                                                             *)

-----------------------------------------------------------------------------
(* Facts about rectangles.                                                 *)

Proper(r) == r \in Rectangles /\ r.width > 0 /\ r.height > 0

LEMMA LeastNatural ==
  ASSUME NEW T, T \subseteq Nat, T # {}
  PROVE  \E n \in T : \A m \in T : n <= m
<1>1. IsWellFoundedOn(OpToRel(<, Nat), Nat)
  BY NatLessThanWellFounded
<1>2. PICK n \in T : \A m \in T : ~(<<m, n>> \in OpToRel(<, Nat))
  BY <1>1, WFMin
<1>3. \A m \in T : ~(m < n)
  BY <1>2 DEF OpToRel
<1>4. QED
  BY <1>3

\* A region loses what lies before, or behind, something along an axis.
LEMMA CutTyped ==
  ASSUME NEW f \in Rectangles, NEW a \in Int, NEW b \in Int
  PROVE  /\ [f EXCEPT !.x = a, !.width = b] \in Rectangles
         /\ [f EXCEPT !.y = a, !.height = b] \in Rectangles
BY DEF Rectangles

LEMMA SidesTyped ==
  ASSUME NEW c \in Rectangles
  PROVE  c.x \in Int /\ c.y \in Int /\ c.width \in Int /\ c.height \in Int
BY DEF Rectangles

\* The pieces of a region are regions within it.
LEMMA PieceTyped ==
  ASSUME NEW f, Proper(f), NEW c, Proper(c), NEW p \in Pieces(f, c)
  PROVE  Proper(p) /\ Contained(p, f)
<1>1. CASE Disjoint(f, c)
  BY <1>1 DEF Pieces, Contained, Proper, Rectangles
<1>2. CASE ~Disjoint(f, c)
  <2>1. p \in Strips(f, c) /\ p.width > 0 /\ p.height > 0
    BY <1>2 DEF Pieces
  <2>2. CASE p = [f EXCEPT !.width = c.x - f.x]
    BY <1>2, <2>1, <2>2 DEF Contained, Proper, Rectangles, Disjoint
  <2>3. CASE p = [f EXCEPT !.x = c.x + c.width,
                           !.width = f.x + f.width - c.x - c.width]
    <3>1. /\ p.x = c.x + c.width /\ p.width = f.x + f.width - c.x - c.width
          /\ p.y = f.y /\ p.height = f.height
      BY <2>3 DEF Proper, Rectangles
    <3>2. p \in Rectangles
      <4> DEFINE a == c.x + c.width
                 b == f.x + f.width - c.x - c.width
      <4>1. a \in Int /\ b \in Int /\ f \in Rectangles
        BY SidesTyped DEF Proper
      <4>2. p = [f EXCEPT !.x = a, !.width = b]
        BY <2>3
      <4> HIDE DEF a, b
      <4>3. QED
        BY <4>1, <4>2, CutTyped
    <3>3. QED
      BY <1>2, <2>1, <3>1, <3>2 DEF Contained, Proper, Rectangles, Disjoint
  <2>4. CASE p = [f EXCEPT !.height = c.y - f.y]
    BY <1>2, <2>1, <2>4 DEF Contained, Proper, Rectangles, Disjoint
  <2>5. CASE p = [f EXCEPT !.y = c.y + c.height,
                           !.height = f.y + f.height - c.y - c.height]
    <3>1. /\ p.y = c.y + c.height /\ p.height = f.y + f.height - c.y - c.height
          /\ p.x = f.x /\ p.width = f.width
      BY <2>5 DEF Proper, Rectangles
    <3>2. p \in Rectangles
      <4> DEFINE a == c.y + c.height
                 b == f.y + f.height - c.y - c.height
      <4>1. a \in Int /\ b \in Int /\ f \in Rectangles
        BY SidesTyped DEF Proper
      <4>2. p = [f EXCEPT !.y = a, !.height = b]
        BY <2>5
      <4> HIDE DEF a, b
      <4>3. QED
        BY <4>1, <4>2, CutTyped
    <3>3. QED
      BY <1>2, <2>1, <3>1, <3>2 DEF Contained, Proper, Rectangles, Disjoint
  <2>6. QED
    BY <2>1, <2>2, <2>3, <2>4, <2>5 DEF Strips
<1>3. QED
  BY <1>1, <1>2

\* What a region contains and a core leaves free is in one of its pieces.
LEMMA PiecesCover ==
  ASSUME NEW f, Proper(f), NEW c, Proper(c), NEW r, Proper(r),
         Contained(r, f), Disjoint(r, c)
  PROVE  \E p \in Pieces(f, c) : Contained(r, p)
<1>1. CASE Disjoint(f, c)
  BY <1>1 DEF Pieces
<1>2. CASE ~Disjoint(f, c)
  <2>1. CASE r.x + r.width <= c.x
    <3> DEFINE p == [f EXCEPT !.width = c.x - f.x]
    <3>1. p.width > 0 /\ p.height > 0 /\ Contained(r, p)
      BY <2>1 DEF Contained, Proper, Rectangles
    <3>2. QED
      BY <1>2, <3>1 DEF Pieces, Strips
  <2>2. CASE c.x + c.width <= r.x
    <3> DEFINE p == [f EXCEPT !.x = c.x + c.width,
                              !.width = f.x + f.width - c.x - c.width]
    <3>1. p.width > 0 /\ p.height > 0 /\ Contained(r, p)
      BY <2>2 DEF Contained, Proper, Rectangles
    <3>2. QED
      BY <1>2, <3>1 DEF Pieces, Strips
  <2>3. CASE r.y + r.height <= c.y
    <3> DEFINE p == [f EXCEPT !.height = c.y - f.y]
    <3>1. p.width > 0 /\ p.height > 0 /\ Contained(r, p)
      BY <2>3 DEF Contained, Proper, Rectangles
    <3>2. QED
      BY <1>2, <3>1 DEF Pieces, Strips
  <2>4. CASE c.y + c.height <= r.y
    <3> DEFINE p == [f EXCEPT !.y = c.y + c.height,
                              !.height = f.y + f.height - c.y - c.height]
    <3>1. p.width > 0 /\ p.height > 0 /\ Contained(r, p)
      BY <2>4 DEF Contained, Proper, Rectangles
    <3>2. QED
      BY <1>2, <3>1 DEF Pieces, Strips
  <2>5. QED
    BY <2>1, <2>2, <2>3, <2>4 DEF Disjoint
<1>3. QED
  BY <1>1, <1>2

\* Of regions that all lie on the sheet, pruning keeps one around each.
LEMMA MaximalCover ==
  ASSUME NEW S, \A s \in S : Proper(s) /\ Contained(s, Sheet), NEW p \in S
  PROVE  \E q \in Maximal(S) : Contained(p, q)
<1> DEFINE Holding == {s \in S : Contained(p, s)}
           Slack(s) == SheetWidth + SheetHeight - s.width - s.height
           Slacks == {Slack(s) : s \in Holding}
<1>1. SheetWidth \in Nat /\ SheetHeight \in Nat
  BY RectangleAssumption DEF RectangleAssumption
<1>2. p \in Holding
  BY DEF Contained, Proper, Rectangles
<1>3. \A s \in S : Slack(s) \in Nat
  BY <1>1 DEF Contained, Sheet, Proper, Rectangles
<1>4. Slacks \subseteq Nat /\ Slacks # {}
  BY <1>2, <1>3
<1>5. PICK n \in Slacks : \A m \in Slacks : n <= m
  <2> HIDE DEF Slacks
  <2>1. QED
    BY <1>4, LeastNatural
<1>6. PICK q \in Holding : n = Slack(q)
  BY <1>5
<1>7. \A s \in Holding : Slack(q) <= Slack(s)
  BY <1>5, <1>6
<1>8. ASSUME NEW b \in S, b # q, Contained(q, b) PROVE FALSE
  <2>1. Proper(b) /\ Proper(q) /\ Proper(p) /\ Contained(p, q)
    BY <1>6
  <2>2. Contained(p, b)
    BY <1>8, <2>1 DEF Contained, Proper, Rectangles
  <2>3. Slack(q) <= Slack(b)
    BY <1>7, <2>2
  <2>4. b.width = q.width /\ b.height = q.height /\ b.x = q.x /\ b.y = q.y
    BY <1>1, <1>8, <2>1, <2>3 DEF Contained, Proper, Rectangles
  <2>5. b = q
    BY <2>1, <2>4 DEF Proper, Rectangles
  <2>6. QED
    BY <1>8, <2>5
<1>9. QED
  BY <1>6, <1>8 DEF Maximal

LEMMA ContainedTrans ==
  ASSUME NEW a \in Rectangles, NEW b \in Rectangles, NEW c \in Rectangles,
         Contained(a, b), Contained(b, c)
  PROVE  Contained(a, c)
BY DEF Contained, Rectangles

-----------------------------------------------------------------------------
(* The regions.                                                            *)

SpaceTyped == /\ enabled \in BOOLEAN
              /\ \A f \in free : Proper(f) /\ Contained(f, Sheet)

\* SpaceNeverMissed, of any rectangle on the sheet.
NoneMissed ==
  enabled => \A r \in Rectangles : Proper(r) /\ Contained(r, Sheet) =>
    \/ \E f \in free : Contained(r, f)
    \/ \E c \in Subtracted : ~Disjoint(r, c)

SpaceInv == IInv /\ SpaceTyped /\ NoneMissed

LEMMA SheetProper == Sheet \in Rectangles /\ Proper(Sheet) /\ Contained(Sheet, Sheet)
BY RectangleAssumption DEF RectangleAssumption, Sheet, Proper, Rectangles, Contained

LEMMA MissedNever == NoneMissed => SpaceNeverMissed
<1> SUFFICES ASSUME NoneMissed, enabled,
                    NEW x \in 0 .. SheetWidth - 1, NEW y \in 0 .. SheetHeight - 1,
                    NEW u \in x + 1 .. SheetWidth, NEW v \in y + 1 .. SheetHeight
             PROVE  LET r == [x |-> x, y |-> y, width |-> u - x, height |-> v - y]
                    IN \/ \E f \in free : Contained(r, f)
                       \/ \E c \in Subtracted : ~Disjoint(r, c)
  BY DEF SpaceNeverMissed
<1> DEFINE r == [x |-> x, y |-> y, width |-> u - x, height |-> v - y]
<1>1. SheetWidth \in Nat /\ SheetHeight \in Nat
  BY RectangleAssumption DEF RectangleAssumption
<1>2. r \in Rectangles /\ Proper(r) /\ Contained(r, Sheet)
  BY <1>1 DEF Rectangles, Proper, Contained, Sheet
<1>3. QED
  BY <1>2 DEF NoneMissed

\* What has been subtracted stays so.
LEMMA SubtractedGrows ==
  ASSUME placed \subseteq placed'
  PROVE  Subtracted \subseteq Subtracted'
BY DEF Subtracted, Solid

LEMMA SpaceKept ==
  ASSUME SpaceTyped, NoneMissed, placed \subseteq placed', UNCHANGED space
  PROVE  SpaceTyped' /\ NoneMissed'
BY SubtractedGrows DEF SpaceTyped, NoneMissed, space

\* A core is taken out of every region that it meets.
LEMMA OccupyStep ==
  ASSUME SpaceTyped, NoneMissed, placed \subseteq placed',
         NEW core \in Rectangles, Occupy(core),
         core.width > 0 /\ core.height > 0 => core \in Subtracted'
  PROVE  SpaceTyped' /\ NoneMissed'
<1>1. CASE UNCHANGED space
  BY <1>1, SpaceKept
<1>2. CASE enabled' = FALSE /\ free' = {}
  BY <1>2 DEF SpaceTyped, NoneMissed
<1> DEFINE S == UNION {Pieces(f, core) : f \in free}
<1>3. CASE /\ enabled /\ core.width > 0 /\ core.height > 0
           /\ free' = Maximal(S) /\ UNCHANGED enabled
  <2>1. Proper(core) /\ core \in Subtracted'
    BY <1>3 DEF Proper
  <2>2. \A s \in S : Proper(s) /\ Contained(s, Sheet)
    <3> SUFFICES ASSUME NEW f \in free, NEW s \in Pieces(f, core)
                 PROVE  Proper(s) /\ Contained(s, Sheet)
      OBVIOUS
    <3>1. Proper(f) /\ Contained(f, Sheet)
      BY DEF SpaceTyped
    <3>2. Proper(s) /\ Contained(s, f)
      BY <2>1, <3>1, PieceTyped
    <3>3. QED
      BY <3>1, <3>2, SheetProper, ContainedTrans DEF Proper
  <2>3. SpaceTyped'
    BY <1>3, <2>2 DEF SpaceTyped, Maximal
  <2>4. ASSUME NEW r \in Rectangles, Proper(r), Contained(r, Sheet)
        PROVE  \/ \E f \in free' : Contained(r, f)
               \/ \E c \in Subtracted' : ~Disjoint(r, c)
    <3>1. CASE \E c \in Subtracted : ~Disjoint(r, c)
      BY <3>1, SubtractedGrows
    <3>2. CASE ~Disjoint(r, core)
      BY <2>1, <3>2
    <3>3. CASE Disjoint(r, core) /\ \E f \in free : Contained(r, f)
      <4>1. PICK f \in free : Contained(r, f)
        BY <3>3
      <4>2. Proper(f)
        BY DEF SpaceTyped
      <4>3. PICK p \in Pieces(f, core) : Contained(r, p)
        BY <2>1, <2>4, <3>3, <4>1, <4>2, PiecesCover
      <4>4. p \in S
        OBVIOUS
      <4>5. PICK q \in Maximal(S) : Contained(p, q)
        <5> HIDE DEF S
        <5>1. QED
          BY <2>2, <4>4, MaximalCover
      <4>6. q \in S
        BY DEF Maximal
      <4>7. Proper(p) /\ Proper(q)
        BY <2>2, <4>4, <4>6
      <4>8. Contained(r, q)
        BY <4>3, <4>5, <4>7, ContainedTrans DEF Proper
      <4>9. QED
        BY <1>3, <4>5, <4>8
    <3>4. QED
      BY <1>3, <2>4, <3>1, <3>2, <3>3 DEF NoneMissed
  <2>5. QED
    BY <2>3, <2>4 DEF NoneMissed
<1>4. CASE ~enabled \/ core.width <= 0 \/ core.height <= 0
  BY <1>1, <1>4 DEF Occupy
<1>5. CASE ~(~enabled \/ core.width <= 0 \/ core.height <= 0)
  <2>1. \/ enabled' = FALSE /\ free' = {}
        \/ free' = Maximal(S) /\ UNCHANGED enabled
    BY <1>5, Zenon DEF Occupy
  <2>2. core.width > 0 /\ core.height > 0
    BY <1>5 DEF Rectangles
  <2>3. QED
    BY <1>2, <1>3, <1>5, <2>1, <2>2
<1>6. QED
  BY <1>4, <1>5

-----------------------------------------------------------------------------
(* The search with rectangles is a search.                                 *)

\* Rectangles that overlap have a pixel in common.
LEMMA CommonPixel ==
  ASSUME NEW a \in Rectangles, Proper(a), Contained(a, Sheet),
         NEW b \in Rectangles, Proper(b), ~Disjoint(a, b)
  PROVE  \E x \in 0 .. SheetWidth - 1, y \in 0 .. SheetHeight - 1 :
           Within(<<x, y>>, a) /\ Within(<<x, y>>, b)
<1> DEFINE x == IF a.x < b.x THEN b.x ELSE a.x
           y == IF a.y < b.y THEN b.y ELSE a.y
<1>1. SheetWidth \in Nat /\ SheetHeight \in Nat
  BY RectangleAssumption DEF RectangleAssumption
<1>2. x \in 0 .. SheetWidth - 1 /\ y \in 0 .. SheetHeight - 1
  BY <1>1 DEF Rectangles, Proper, Contained, Sheet, Disjoint
<1>3. /\ a.x <= x /\ x < a.x + a.width /\ a.y <= y /\ y < a.y + a.height
      /\ b.x <= x /\ x < b.x + b.width /\ b.y <= y /\ y < b.y + b.height
  BY DEF Rectangles, Proper, Disjoint
<1> HIDE DEF x, y
<1>4. QED
  BY <1>2, <1>3 DEF Within

\* A core is a rectangle on the sheet, and its pixels are of the mask.
LEMMA CoreTyped ==
  ASSUME NEW k \in Kinds, NEW o \in Inside[k]
  PROVE  /\ Core[k][o] \in Rectangles /\ Contained(Core[k][o], Sheet)
         /\ \A x \in 0 .. SheetWidth - 1, y \in 0 .. SheetHeight - 1 :
              Within(<<x, y>>, Core[k][o]) => PixelAt[<<x, y>>] \in Raster[k][o]
<1>1. o \in Origins
  BY PlacerAssumption DEF PlacerAssumption
<1>2. QED
  BY <1>1, RectangleAssumption DEF RectangleAssumption

\* A core that overlaps one that is placed covers a pixel of it.
LEMMA CoreBlocked ==
  ASSUME SpaceInv, ~expired, NEW k \in Kinds, NEW o \in Inside[k],
         Proper(Core[k][o]), NEW d \in Subtracted, ~Disjoint(Core[k][o], d)
  PROVE  ~Free(k, o)
<1>1. PICK q \in placed : d = Core[q.kind][q.at] /\ d.width > 0 /\ d.height > 0
  BY DEF Subtracted
<1>2. q.kind \in Kinds /\ q.at \in Inside[q.kind]
  BY DEF SpaceInv, IInv, TypeOK, Placements, Placing, Distant
<1>3. d \in Rectangles /\ Proper(d)
  BY <1>1, <1>2, CoreTyped DEF Proper
<1>4. PICK x \in 0 .. SheetWidth - 1, y \in 0 .. SheetHeight - 1 :
        Within(<<x, y>>, Core[k][o]) /\ Within(<<x, y>>, d)
  BY <1>3, CoreTyped, CommonPixel
<1>5. PixelAt[<<x, y>>] \in Raster[k][o] /\ PixelAt[<<x, y>>] \in Raster[q.kind][q.at]
  BY <1>1, <1>2, <1>4, CoreTyped
<1>6. raster = UNION {Raster[p.kind][p.at] : p \in placed}
  BY DEF SpaceInv, IInv, Placing, Covering
<1>7. PixelAt[<<x, y>>] \in raster
  BY <1>5, <1>6
<1>8. QED
  BY <1>5, <1>7 DEF Free, Fits

\* A shape that the rectangles exclude fits nowhere.
LEMMA ExcludedHonestly ==
  ASSUME SpaceInv, ~expired, NEW k \in Kinds, NEW o \in Inside[k],
         ~RectangleFits(Core[k][o])
  PROVE  ~Free(k, o)
<1> DEFINE c == Core[k][o]
<1>1. c \in Rectangles /\ Contained(c, Sheet)
  BY CoreTyped
<1>2. /\ enabled /\ ~(c.width <= 0) /\ ~(c.height <= 0)
      /\ \A f \in free : ~(c.width <= f.width /\ c.height <= f.height)
  BY DEF RectangleFits
<1>3. Proper(c)
  BY <1>1, <1>2 DEF Proper, Rectangles
<1>4. \A f \in free : ~Contained(c, f)
  <2> SUFFICES ASSUME NEW f \in free, Contained(c, f) PROVE FALSE
    OBVIOUS
  <2>1. Proper(f)
    BY DEF SpaceInv, SpaceTyped
  <2>2. c.width <= f.width /\ c.height <= f.height
    <3> HIDE DEF c
    <3>1. QED
      BY <1>1, <2>1 DEF Contained, Proper, Rectangles
  <2>3. QED
    BY <1>2, <2>2
<1>5. PICK d \in Subtracted : ~Disjoint(c, d)
  BY <1>1, <1>2, <1>3, <1>4 DEF SpaceInv, NoneMissed
<1>6. QED
  BY <1>3, <1>5, CoreBlocked

LEMMA BeginImplements ==
  ASSUME SpaceInv, BeginWithRectangles
  PROVE  Begin
<1>1. /\ phase = "begin" /\ todo # <<>> /\ Running
      /\ ~(config.bottomLeft /\ failedAt[Part] = Count)
      /\ phase' = "pockets"
      /\ queue' = IF config.patternTrial
                  THEN {c \in Pockets(Part) : c.at \in Origins \ rejected[Part]}
                  ELSE {}
      /\ UNCHANGED <<config, todo, sheet, rejected, cursor, failedAt, tried,
                     ahead, pending, gpu, best, loop>>
  BY DEF BeginWithRectangles
<1>2. ~expired /\ Part \in Kinds
  BY <1>1, PartKind DEF SpaceInv, IInv, Running
<1> DEFINE possible == \E o \in Inside[Part] : RectangleFits(Core[Part][o])
<1>3. \/ UNCHANGED exhausted
      \/ /\ placed # {} /\ (possible => \A o \in Origins : ~Free(Part, o))
         /\ exhausted' = exhausted \cup {Part}
  BY DEF BeginWithRectangles
<1>4. ~possible => \A o \in Origins : ~Free(Part, o)
  <2> SUFFICES ASSUME ~possible, NEW o \in Origins PROVE ~Free(Part, o)
    OBVIOUS
  <2>1. CASE o \notin Inside[Part]
    BY <2>1 DEF Free
  <2>2. CASE o \in Inside[Part]
    BY <1>2, <2>2, ExcludedHonestly
  <2>3. QED
    BY <2>1, <2>2
<1> HIDE DEF possible
<1>5. \/ UNCHANGED exhausted
      \/ /\ placed # {} /\ \A o \in Origins : ~Free(Part, o)
         /\ exhausted' = exhausted \cup {Part}
  BY <1>3, <1>4
<1>6. QED
  BY <1>1, <1>5 DEF Begin

\* The rectangles decide nothing that the search may not do.
LEMMA SpaceStepImplements ==
  SpaceInv /\ [SpaceNext]_<<vars, space>> => [Next]_vars
<1> SUFFICES ASSUME SpaceInv, [SpaceNext]_<<vars, space>> PROVE [Next]_vars
  OBVIOUS
<1>1. CASE BeginWithRectangles
  BY <1>1, BeginImplements DEF Next
<1>2. CASE AcceptWithRectangles
  BY <1>2 DEF AcceptWithRectangles, Next
<1>3. CASE OtherSteps
  BY <1>3, Zenon DEF OtherSteps, Next
<1>4. CASE UNCHANGED <<vars, space>>
  BY <1>4
<1>5. QED
  BY <1>1, <1>2, <1>3, <1>4 DEF SpaceNext

-----------------------------------------------------------------------------
(* The invariant.                                                          *)

\* Only an accepted part is placed.
LEMMA OtherStepsPlaceNothing == ASSUME OtherSteps PROVE placed' = placed
<1>1. CASE Expire \/ Interrupt \/ Finish \/ SkipFailed \/ SkipExhausted \/ Refuse
  BY <1>1 DEF Expire, Interrupt, Finish, SkipFailed, SkipExhausted, Refuse, sheet
<1>2. CASE TryPockets \/ NoPocketLeft \/ LookAhead \/ TryPattern \/ NoPatternLeft
  BY <1>2 DEF TryPockets, NoPocketLeft, LookAhead, TryPattern, NoPatternLeft, sheet
<1>3. CASE Propose \/ TryOrdered \/ NoProposalLeft \/ TryCoarse \/ CoarseTried
  BY <1>3 DEF Propose, TryOrdered, NoProposalLeft, TryCoarse, CoarseTried, sheet
<1>4. CASE TryFine \/ NothingLeft \/ BeginCompaction \/ TryCompact \/ NextRound
  BY <1>4 DEF TryFine, NothingLeft, BeginCompaction, TryCompact, NextRound, sheet
<1>5. QED
  BY <1>1, <1>2, <1>3, <1>4, Zenon DEF OtherSteps

LEMMA AcceptSpaceStep ==
  ASSUME SpaceInv, AcceptWithRectangles
  PROVE  SpaceTyped' /\ NoneMissed'
<1>1. /\ placed' = placed \cup {[kind |-> Part, at |-> best]}
      /\ best # None /\ phase = "settle"
      /\ IF Solid(Part, best) THEN Occupy(Core[Part][best]) ELSE UNCHANGED space
  BY DEF AcceptWithRectangles, Accept
<1>2. Part \in Kinds /\ best \in Inside[Part]
  BY <1>1, PartKind DEF SpaceInv, IInv, Control, Placing, Chosen, Free
<1>3. Core[Part][best] \in Rectangles
  BY <1>2, CoreTyped
<1>4. placed \subseteq placed'
  BY <1>1
<1>5. CASE ~Solid(Part, best)
  BY <1>1, <1>4, <1>5, SpaceKept DEF SpaceInv
<1>6. CASE Solid(Part, best)
  <2> DEFINE q == [kind |-> Part, at |-> best]
  <2>1. q \in placed' /\ q.kind = Part /\ q.at = best
    BY <1>1
  <2> HIDE DEF q
  <2>2. Core[q.kind][q.at] = Core[Part][best] /\ Solid(q.kind, q.at)
    BY <1>6, <2>1
  <2>3. Subtracted' =
          {c \in {Core[p.kind][p.at] : p \in {t \in placed' : Solid(t.kind, t.at)}} :
             c.width > 0 /\ c.height > 0}
    BY DEF Subtracted, Solid
  <2>4. Core[Part][best].width > 0 /\ Core[Part][best].height > 0
          => Core[Part][best] \in Subtracted'
    <3>1. q \in {t \in placed' : Solid(t.kind, t.at)}
      BY <2>1, <2>2
    <3>2. Core[Part][best] \in
            {Core[p.kind][p.at] : p \in {t \in placed' : Solid(t.kind, t.at)}}
      BY <2>2, <3>1, Zenon
    <3>3. QED
      BY <2>3, <3>2, Zenon
  <2>5. QED
    BY <1>1, <1>3, <1>4, <1>6, <2>4, OccupyStep DEF SpaceInv
<1>7. QED
  BY <1>5, <1>6

LEMMA InitSpaceInv == SpaceInit => SpaceInv
<1> SUFFICES ASSUME SpaceInit PROVE SpaceInv
  OBVIOUS
<1>1. IInv
  BY InitIInv DEF SpaceInit
<1>2. SpaceTyped
  BY SheetProper DEF SpaceInit, SpaceTyped
<1>3. NoneMissed
  BY DEF SpaceInit, NoneMissed
<1>4. QED
  BY <1>1, <1>2, <1>3 DEF SpaceInv

LEMMA StepSpaceInv == SpaceInv /\ [SpaceNext]_<<vars, space>> => SpaceInv'
<1> SUFFICES ASSUME SpaceInv, [SpaceNext]_<<vars, space>> PROVE SpaceInv'
  OBVIOUS
<1>1. IInv'
  BY SpaceStepImplements, StepIInv DEF SpaceInv
<1>2. SpaceTyped' /\ NoneMissed'
  <2>1. CASE BeginWithRectangles
    BY <2>1, SpaceKept DEF SpaceInv, BeginWithRectangles, sheet
  <2>2. CASE AcceptWithRectangles
    BY <2>2, AcceptSpaceStep
  <2>3. CASE OtherSteps
    <3>1. UNCHANGED space
      BY <2>3 DEF OtherSteps
    <3>2. QED
      BY <2>3, <3>1, OtherStepsPlaceNothing, SpaceKept DEF SpaceInv
  <2>4. CASE UNCHANGED <<vars, space>>
    BY <2>4, SpaceKept DEF SpaceInv, vars, sheet
  <2>5. QED
    BY <2>1, <2>2, <2>3, <2>4 DEF SpaceNext
<1>3. QED
  BY <1>1, <1>2 DEF SpaceInv

LEMMA SpaceInvariant == SpaceSpec => []SpaceInv
BY InitSpaceInv, StepSpaceInv, PTL DEF SpaceSpec

\* Whatever the cores and however the regions are split, pruned or given up:
\* no rectangle that the subtracted cores leave free is missed.
THEOREM SpaceNeverMissedAlways == SpaceSpec => []SpaceNeverMissed
<1>1. SpaceInv => SpaceNeverMissed
  BY MissedNever DEF SpaceInv
<1>2. QED
  BY <1>1, SpaceInvariant, PTL

\* Shapes are given up only when they fit nowhere: the search that decides with
\* rectangles is one that PartPlacer allows, so that it hides no place either.
THEOREM SpaceImplements == SpaceSpec => Spec
<1>1. SpaceInit => Init
  BY DEF SpaceInit
<1>2. QED
  BY <1>1, SpaceInvariant, SpaceStepImplements, PTL DEF SpaceSpec, Spec

-----------------------------------------------------------------------------
(* The refinement and the repair of the layout.                            *)

Active == {"turn", "grow", "halve", "commit"}

\* The part in hand could be moved by this amount.
Movable(amount) ==
  /\ Advanced(pos[hand], amount) \in OnStock
  /\ \A j \in DOMAIN pos \ {hand} :
       ~TooClose(Advanced(pos[hand], amount), pos[j])

\* The views of the layout agree.
Agreeing == drawn = pos /\ derived = pos

Apart ==
  /\ \A i \in DOMAIN pos : pos[i] \in OnStock
  /\ \A i, j \in DOMAIN pos : i # j => ~TooClose(pos[i], pos[j])

\* While parts are moved along an axis, every part is found where it is, and
\* what is about to be committed has been validated.
Indexed ==
  stage \in Active =>
    /\ \A i \in DOMAIN pos : Entries(i, pos[i]) \subseteq bins
    /\ left \subseteq DOMAIN pos
    /\ axis # 1 \/ stage # "turn" => hand \in DOMAIN pos
    /\ stage # "turn" => low = 0 \/ Movable(low)

RefineInv == IF stage = "off" THEN SpaceInv ELSE Agreeing /\ Apart /\ Indexed

LEMMA InitRefineInv == RefineInit => RefineInv
BY InitSpaceInv DEF RefineInit, RefineInv

\* A larger length is not in an earlier cell.
LEMMA CellMonotone ==
  ASSUME NEW a \in Int, NEW b \in Int, a <= b
  PROVE  a \div Cell \in Int /\ b \div Cell \in Int
         /\ a \div Cell <= b \div Cell
BY RefinementAssumption DEF RefinementAssumption

LEMMA OnStockTyped ==
  ASSUME NEW c \in OnStock
  PROVE  /\ c.kind \in Kinds /\ c.x \in Int /\ c.y \in Int
         /\ Size[c.kind].x \in Nat /\ Size[c.kind].y \in Nat
<1>1. c \in [kind : Kinds, x : Int, y : Int]
  BY RefinementAssumption DEF RefinementAssumption
<1>2. QED
  BY <1>1, RefinementAssumption DEF RefinementAssumption

\* Two intervals that overlap touch a common cell.
LEMMA CommonCell ==
  ASSUME NEW a \in Int, NEW b \in Int, NEW c \in Int, NEW d \in Int,
         a <= b, c <= d, a <= d, c <= b
  PROVE  \E e \in (a \div Cell .. b \div Cell) : e \in c \div Cell .. d \div Cell
<1>1. CASE a <= c
  BY <1>1, CellMonotone
<1>2. CASE c <= a
  BY <1>2, CellMonotone
<1>3. QED
  BY <1>1, <1>2

\* What is too close is found in the index.
LEMMA QueryFinds ==
  ASSUME NEW c \in OnStock, NEW d \in OnStock, TooClose(c, d),
         NEW j, Entries(j, d) \subseteq bins
  PROVE  j \in Query(c)
<1>1. Meet(c, d, Gap) /\ Gap \in Nat
  BY RefinementAssumption DEF RefinementAssumption
<1> DEFINE xs == (c.x - Gap) \div Cell .. (c.x + Size[c.kind].x + Gap) \div Cell
           ys == (c.y - Gap) \div Cell .. (c.y + Size[c.kind].y + Gap) \div Cell
           us == (d.x - 0) \div Cell .. (d.x + Size[d.kind].x + 0) \div Cell
           vs == (d.y - 0) \div Cell .. (d.y + Size[d.kind].y + 0) \div Cell
<1> DEFINE Sides(p, q, v, w) ==
             /\ p - Gap \in Int /\ p + v + Gap \in Int
             /\ q - 0 \in Int /\ q + w + 0 \in Int
             /\ p - Gap <= p + v + Gap /\ q - 0 <= q + w + 0
             /\ p - Gap <= q + w + 0 /\ q - 0 <= p + v + Gap
<1>2. /\ c.x \in Int /\ c.y \in Int /\ d.x \in Int /\ d.y \in Int
      /\ Size[c.kind].x \in Nat /\ Size[c.kind].y \in Nat
      /\ Size[d.kind].x \in Nat /\ Size[d.kind].y \in Nat
  BY OnStockTyped
<1>3. /\ Sides(c.x, d.x, Size[c.kind].x, Size[d.kind].x)
      /\ Sides(c.y, d.y, Size[c.kind].y, Size[d.kind].y)
  BY <1>1, <1>2 DEF Meet
<1>4. \E e \in xs : e \in us
  BY <1>3, CommonCell
<1>5. \E e \in ys : e \in vs
  BY <1>3, CommonCell
<1>6. PICK e \in xs, f \in ys : e \in us /\ f \in vs
  BY <1>4, <1>5
<1>7. <<e, f>> \in Cells(c, Gap) /\ <<e, f>> \in Cells(d, 0)
  BY <1>6 DEF Cells
<1>8. [part |-> j, cell |-> <<e, f>>] \in bins
  BY <1>7 DEF Entries
<1>9. QED
  BY <1>7, <1>8 DEF Query

\* A move that is validated is one that can be made.
LEMMA ShiftMovable ==
  ASSUME Agreeing, Apart, Indexed, stage \in Active, hand \in DOMAIN pos,
         NEW amount, NEW quick \in BOOLEAN, ValidShift(hand, amount, quick)
  PROVE  Movable(amount)
<1> DEFINE c == Advanced(pos[hand], amount)
<1>1. /\ c \in OnStock
      /\ \A j \in Query(c) \ {hand} : ~TooClose(c, pos[j])
  BY DEF ValidShift, Agreeing
<1>2. ASSUME NEW j \in DOMAIN pos \ {hand}, TooClose(c, pos[j]) PROVE FALSE
  <2>1. j \in Query(c)
    BY <1>1, <1>2, QueryFinds DEF Apart, Indexed
  <2>2. QED
    BY <1>1, <1>2, <2>1
<1>3. QED
  BY <1>1, <1>2 DEF Movable

\* The layout that is refined is the one that was found.
LEMMA RefineBeginsStep == ASSUME RefineInv, RefineBegins PROVE RefineInv'
<1> DEFINE spots == [p \in placed |-> Spot[p.kind][p.at]]
<1>1. /\ stage = "off" /\ stage' = "turn"
      /\ pos' = spots /\ drawn' = spots /\ derived' = spots
      /\ bins' = UNION {Entries(i, spots[i]) : i \in DOMAIN spots}
      /\ left' = DOMAIN spots /\ axis' = 1
  BY DEF RefineBegins, Draw
<1>2. /\ placed \subseteq Placements /\ Distant
  BY <1>1 DEF RefineInv, SpaceInv, IInv, TypeOK, Placing
<1>3. ASSUME NEW p \in placed PROVE spots[p] \in OnStock
  BY <1>2, <1>3, RefinementAssumption DEF RefinementAssumption, Distant
<1>4. ASSUME NEW p \in placed, NEW q \in placed, p # q
      PROVE  ~TooClose(spots[p], spots[q])
  BY <1>2, <1>4, RefinementAssumption DEF RefinementAssumption, Distant
<1>5. DOMAIN spots = placed
  OBVIOUS
<1> HIDE DEF spots
<1>6. Agreeing' /\ Apart'
  BY <1>1, <1>3, <1>4, <1>5 DEF Agreeing, Apart
<1>7. Indexed'
  <2>1. \A i \in DOMAIN pos' : Entries(i, pos'[i]) \subseteq bins'
    BY <1>1
  <2>2. QED
    BY <1>1, <2>1 DEF Indexed
<1>8. QED
  BY <1>1, <1>6, <1>7 DEF RefineInv

\* What draws the layout again, or leaves the parts where they are.
LEMMA DrawStep ==
  ASSUME Agreeing, Apart, Draw(pos), stage' \in {"turn", "repair"}
  PROVE  Agreeing' /\ Apart' /\ Indexed'
<1>1. /\ pos' = pos /\ drawn' = pos /\ derived' = pos
      /\ bins' = UNION {Entries(i, pos[i]) : i \in DOMAIN pos}
      /\ left' = DOMAIN pos /\ axis' = 1
  BY DEF Draw
<1>2. Agreeing' /\ Apart'
  BY <1>1 DEF Agreeing, Apart
<1>3. \A i \in DOMAIN pos' : Entries(i, pos'[i]) \subseteq bins'
  BY <1>1
<1>4. Indexed'
  BY <1>1, <1>3 DEF Indexed, Active
<1>5. QED
  BY <1>2, <1>4

LEMMA MovableKept ==
  ASSUME UNCHANGED <<pos, hand, flow, axis>>, NEW amount
  PROVE  Movable(amount)' <=> Movable(amount)
BY DEF Movable, Advanced, Shifted, Along, Sign

\* The search for the longest move that is valid.
LEMMA ProbeStep ==
  ASSUME Agreeing, Apart, Indexed, Turn \/ Grow \/ Halve
  PROVE  Agreeing' /\ Apart' /\ Indexed'
<1>1. UNCHANGED views
  BY DEF Turn, Grow, Halve
<1>2. Agreeing' /\ Apart'
  BY <1>1 DEF Agreeing, Apart, views
<1>3. stage \in Active
  BY DEF Turn, Grow, Halve, Active
<1>4. \A i \in DOMAIN pos' : Entries(i, pos'[i]) \subseteq bins'
  BY <1>1, <1>3 DEF Indexed, views
<1>5. left' \subseteq DOMAIN pos' /\ hand' \in DOMAIN pos'
  BY <1>1, <1>3 DEF Turn, Grow, Halve, Indexed, views, turn
<1>6. CASE Turn
  BY <1>2, <1>4, <1>5, <1>6 DEF Turn, Indexed
<1>7. CASE Grow \/ Halve
  <2>1. UNCHANGED <<pos, hand, flow, axis>> /\ hand \in DOMAIN pos
    BY <1>1, <1>3, <1>5, <1>7 DEF Grow, Halve, Still, views, turn
  <2>2. low = 0 \/ Movable(low)
    BY <1>3, <1>7 DEF Indexed, Grow, Halve
  <2>3. low' = low \/ \E quick \in BOOLEAN : ValidShift(hand, low', quick)
    BY <1>7 DEF Grow, Halve, probe
  <2>4. low' = 0 \/ Movable(low')
    BY <1>3, <2>1, <2>2, <2>3, ShiftMovable
  <2>5. low' = 0 \/ Movable(low)'
    BY <2>1, <2>4 DEF Movable, Advanced, Shifted, Along, Sign
  <2>6. QED
    BY <1>2, <1>4, <1>5, <2>5 DEF Indexed
<1>8. QED
  BY <1>6, <1>7

\* The part in hand moves, and is found at its new place.
LEMMA CommitStep ==
  ASSUME Agreeing, Apart, Indexed, Commit
  PROVE  Agreeing' /\ Apart' /\ Indexed'
<1>1. /\ stage = "commit" /\ stage' = "turn" /\ hand' = hand /\ left' = left
      /\ hand \in DOMAIN pos /\ left \subseteq DOMAIN pos
      /\ low = 0 \/ Movable(low)
      /\ \A i \in DOMAIN pos : Entries(i, pos[i]) \subseteq bins
  BY DEF Commit, Indexed, Active
<1>2. CASE low > Tolerance
  <2> DEFINE c == Advanced(pos[hand], low)
  <2>1. low # 0
    BY <1>2, RefinementAssumption DEF RefinementAssumption
  <2>2. /\ c \in OnStock
        /\ \A j \in DOMAIN pos \ {hand} : ~TooClose(c, pos[j])
    BY <1>1, <2>1 DEF Movable
  <2>3. /\ pos' = [pos EXCEPT ![hand] = c]
        /\ drawn' = [drawn EXCEPT ![hand] = Advanced(drawn[hand], low)]
        /\ derived' = [derived EXCEPT ![hand] = drawn'[hand]]
        /\ bins' = bins \cup Entries(hand, drawn'[hand])
    BY <1>2 DEF Commit
  <2> HIDE DEF c
  <2>4. drawn' = pos'
    BY <2>3 DEF Agreeing, c
  <2>5. pos'[hand] = c /\ \A i \in DOMAIN pos \ {hand} : pos'[i] = pos[i]
    BY <1>1, <2>3
  <2>6. derived' = pos'
    BY <2>3, <2>4, <2>5 DEF Agreeing
  <2>7. DOMAIN pos' = DOMAIN pos
    BY <2>3
  <2>8. Apart'
    <3>1. \A i \in DOMAIN pos : pos'[i] \in OnStock
      BY <2>2, <2>5 DEF Apart
    <3>2. ASSUME NEW i \in DOMAIN pos, NEW j \in DOMAIN pos, i # j
          PROVE  ~TooClose(pos'[i], pos'[j])
      <4>1. CASE i = hand
        BY <2>2, <2>5, <3>2, <4>1
      <4>2. CASE j = hand
        <5>1. ~TooClose(c, pos[i]) /\ pos[i] \in OnStock
          BY <2>2, <3>2, <4>2 DEF Apart
        <5>2. ~TooClose(pos[i], c)
          BY <2>2, <5>1, RefinementAssumption DEF RefinementAssumption
        <5>3. QED
          BY <2>5, <3>2, <4>2, <5>2
      <4>3. CASE i # hand /\ j # hand
        BY <2>5, <3>2, <4>3 DEF Apart
      <4>4. QED
        BY <4>1, <4>2, <4>3
    <3>3. QED
      BY <2>7, <3>1, <3>2 DEF Apart
  <2>9. \A i \in DOMAIN pos' : Entries(i, pos'[i]) \subseteq bins'
    <3>1. bins' = bins \cup Entries(hand, c)
      BY <2>3, <2>4, <2>5
    <3>2. QED
      BY <1>1, <2>5, <2>7, <3>1
  <2>10. Indexed'
    BY <1>1, <2>7, <2>9 DEF Indexed
  <2>11. QED
    BY <2>4, <2>6, <2>8, <2>10 DEF Agreeing
<1>3. CASE ~(low > Tolerance)
  <2>1. UNCHANGED views
    BY <1>3 DEF Commit
  <2>2. QED
    BY <1>1, <2>1 DEF Agreeing, Apart, Indexed, views
<1>4. QED
  BY <1>2, <1>3

\* A donor moves to a place that was tested against every other part.
LEMMA DonorStep ==
  ASSUME Agreeing, Apart, Donor
  PROVE  Agreeing' /\ Apart' /\ Indexed'
<1>1. stage = "repair" /\ stage' = "repair"
  BY DEF Donor
<1>2. Indexed'
  BY <1>1 DEF Indexed, Active
<1>3. CASE UNCHANGED views
  BY <1>2, <1>3 DEF Agreeing, Apart, views
<1>4. ASSUME NEW i \in donors, NEW c \in Proposed(i), Relocatable(i, c),
             pos' = [pos EXCEPT ![i] = c], drawn' = [drawn EXCEPT ![i] = c],
             derived' = [derived EXCEPT ![i] = c]
      PROVE  Agreeing' /\ Apart'
  <2>1. Agreeing' /\ DOMAIN pos' = DOMAIN pos
    BY <1>4 DEF Agreeing
  <2>2. CASE i \notin DOMAIN pos
    BY <1>4, <2>1, <2>2 DEF Apart
  <2>3. CASE i \in DOMAIN pos
    <3>1. pos'[i] = c /\ \A j \in DOMAIN pos \ {i} : pos'[j] = pos[j]
      BY <1>4, <2>3
    <3>2. c \in OnStock
      BY <1>4 DEF Relocatable
    <3>3. ASSUME NEW j \in DOMAIN pos \ {i}
          PROVE  ~TooClose(c, pos[j]) /\ ~TooClose(pos[j], c)
      <4>1. Meet(c, pos[j], Gap) => ~TooClose(c, pos[j])
        BY <1>4, <3>3 DEF Relocatable, Agreeing
      <4>2. pos[j] \in OnStock
        BY <3>3 DEF Apart
      <4>3. QED
        BY <3>2, <4>1, <4>2, RefinementAssumption DEF RefinementAssumption
    <3>4. QED
      BY <2>1, <3>1, <3>2, <3>3 DEF Apart
  <2>4. QED
    BY <2>2, <2>3
<1>5. QED
  BY <1>2, <1>3, <1>4 DEF Donor

LEMMA StepRefineInv ==
  RefineInv /\ [RefineNext]_<<vars, space, refined>> => RefineInv'
<1> SUFFICES ASSUME RefineInv, [RefineNext]_<<vars, space, refined>>
             PROVE  RefineInv'
  OBVIOUS
<1>1. CASE UNCHANGED refined /\ [SpaceNext]_<<vars, space>>
  <2>1. UNCHANGED <<stage, views, left, axis, hand, low, flow>>
    BY <1>1 DEF refined, turn, probe
  <2>2. CASE stage = "off"
    BY <1>1, <2>1, <2>2, StepSpaceInv DEF RefineInv
  <2>3. CASE stage # "off"
    BY <2>1, <2>3, MovableKept DEF RefineInv, Agreeing, Apart, Indexed, views
  <2>4. QED
    BY <2>2, <2>3
<1>2. CASE RefineBegins
  BY <1>2, RefineBeginsStep
<1>3. CASE Turn \/ Grow \/ Halve
  <2>1. stage # "off" /\ stage' # "off"
    BY <1>3 DEF Turn, Grow, Halve
  <2>2. QED
    BY <1>3, <2>1, ProbeStep DEF RefineInv
<1>4. CASE Commit
  <2>1. stage # "off" /\ stage' # "off"
    BY <1>4 DEF Commit
  <2>2. QED
    BY <1>4, <2>1, CommitStep DEF RefineInv
<1>5. CASE Donor
  <2>1. stage # "off" /\ stage' # "off"
    BY <1>5 DEF Donor
  <2>2. QED
    BY <1>5, <2>1, DonorStep DEF RefineInv
<1>6. CASE RepairBegins \/ RepairEnds
  <2>1. stage # "off" /\ stage' # "off"
    BY <1>6 DEF RepairBegins, RepairEnds
  <2>2. Agreeing /\ Apart
    BY <2>1 DEF RefineInv
  <2>3. CASE Draw(pos) /\ stage' \in {"turn", "repair"}
    BY <2>1, <2>2, <2>3, DrawStep DEF RefineInv
  <2>4. CASE stage' = "ended" /\ UNCHANGED views
    BY <2>1, <2>2, <2>4 DEF RefineInv, Agreeing, Apart, Indexed, Active, views
  <2>5. QED
    BY <1>6, <2>3, <2>4 DEF RepairBegins, RepairEnds
<1>7. CASE RefineExpires \/ Host \/ NextPass \/ StopBetween
  <2>1. /\ stage # "off" /\ stage' # "off" /\ UNCHANGED views
        /\ Agreeing /\ Apart /\ Indexed
    BY <1>7 DEF RefineExpires, Host, NextPass, StopBetween, RefineInv
  <2>2. Agreeing' /\ Apart'
    BY <2>1 DEF Agreeing, Apart, views
  <2>3. CASE RefineExpires
    BY <2>1, <2>2, <2>3, MovableKept
       DEF RefineExpires, Still, Indexed, RefineInv, views, turn, probe
  <2>4. CASE Host
    BY <2>1, <2>2, <2>4 DEF Host, Indexed, Active, RefineInv
  <2>5. CASE NextPass
    BY <2>1, <2>2, <2>5 DEF NextPass, Indexed, Active, RefineInv, views
  <2>6. CASE StopBetween
    BY <2>1, <2>2, <2>6 DEF StopBetween, Indexed, Active, RefineInv
  <2>7. QED
    BY <1>7, <2>3, <2>4, <2>5, <2>6
<1>8. QED
  <2>1. CASE UNCHANGED <<vars, space, refined>>
    BY <1>1, <2>1
  <2>2. CASE RefineNext
    BY <1>1, <1>2, <1>3, <1>4, <1>5, <1>6, <1>7, <2>2 DEF RefineNext
  <2>3. QED
    BY <2>1, <2>2

\* Whatever was found, moved and relocated, in whatever order and wherever the
\* deadline stopped it: the layout is valid, and all views of it agree.
THEOREM RefinedValidAlways == RefineSpec => []RefinedValid
<1>1. RefineInv => RefinedValid
  BY DEF RefineInv, Agreeing, Apart, RefinedValid
<1>2. QED
  BY <1>1, InitRefineInv, StepRefineInv, PTL DEF RefineSpec

-----------------------------------------------------------------------------
(* Repeated patterns.                                                      *)

LEMMA Division ==
  ASSUME NEW a \in Int, NEW b \in Nat \ {0}
  PROVE  /\ a \div b \in Int /\ b * (a \div b) \in Int
         /\ b * (a \div b) <= a /\ a < b * (a \div b) + b
         /\ a >= 0 => a \div b \in Nat
         /\ a % b \in 0 .. b - 1 /\ a = b * (a \div b) + (a % b)
<1>1. a \div b \in Int /\ b * (a \div b) \in Int
  OBVIOUS
<1>2. a % b \in 0 .. b - 1 /\ a = b * (a \div b) + (a % b)
  OBVIOUS
<1>3. b * (a \div b) <= a /\ a < b * (a \div b) + b
  BY <1>1, <1>2
<1>4. a >= 0 => a \div b \in Nat
  OBVIOUS
<1>5. QED
  BY <1>1, <1>2, <1>3, <1>4

LEMMA Quotient == ASSUME NEW a \in Nat, NEW b \in Nat \ {0} PROVE a \div b \in Nat
OBVIOUS

LEMMA Cancel ==
  ASSUME NEW a \in Int, NEW b \in Int, NEW c \in Int
  PROVE  /\ a - c = b - c => a = b
         /\ c - 1 - a = c - 1 - b => a = b
         /\ 2 * a + 1 = 2 * b + 1 => a = b
         /\ 2 * a # 2 * b + 1
OBVIOUS

LEMMA Products ==
  ASSUME NEW a \in Nat, NEW b \in Int, NEW c \in Int, b <= c
  PROVE  a * b \in Int /\ a * c \in Int /\ a * b <= a * c
<1>1. c - b \in Nat /\ c = b + (c - b)
  OBVIOUS
<1> DEFINE d == c - b
<1>2. d \in Nat /\ c = b + d
  BY <1>1
<1> HIDE DEF d
<1>3. a * d \in Nat /\ a * (b + d) = a * b + a * d /\ a * b \in Int
  BY <1>2
<1>4. QED
  BY <1>2, <1>3

\* A strictly smaller factor makes a difference of at least one summand.
LEMMA StrictProducts ==
  ASSUME NEW a \in Nat, NEW b \in Int, NEW c \in Int, b < c
  PROVE  a * b \in Int /\ a * c \in Int /\ a * b + a <= a * c
<1>1. a * (b + 1) <= a * c /\ a * c \in Int
  BY Products
<1>2. a * (b + 1) = a * b + a /\ a * b \in Int
  OBVIOUS
<1>3. QED
  BY <1>1, <1>2

LEMMA CompatibleMirror ==
  ASSUME NEW S, S \subseteq Int \X Int, NEW gap \in Nat, NEW dx \in Int, NEW dy \in Int,
         Compatible(S, gap, dx, dy)
  PROVE  Compatible(S, gap, -dx, -dy)
<1> SUFFICES ASSUME NEW a \in S, NEW b \in S
             PROVE  Abs(a[1] - b[1] - (-dx)) > gap \/ Abs(a[2] - b[2] - (-dy)) > gap
  BY DEF Compatible
<1>1. a[1] \in Int /\ a[2] \in Int /\ b[1] \in Int /\ b[2] \in Int
  OBVIOUS
<1>2. Abs(b[1] - a[1] - dx) > gap \/ Abs(b[2] - a[2] - dy) > gap
  BY DEF Compatible
<1>3. QED
  BY <1>1, <1>2 DEF Abs

\* What is further apart than the motif is wide or high is not in conflict.
LEMMA CompatibleFar ==
  ASSUME NEW w \in Nat, NEW h \in Nat, NEW S, S \subseteq (0 .. w - 1) \X (0 .. h - 1),
         NEW gap \in Nat, NEW dx \in Int, NEW dy \in Int,
         Abs(dx) >= w + gap \/ Abs(dy) >= h + gap
  PROVE  Compatible(S, gap, dx, dy)
<1> SUFFICES ASSUME NEW a \in S, NEW b \in S
             PROVE  Abs(a[1] - b[1] - dx) > gap \/ Abs(a[2] - b[2] - dy) > gap
  BY DEF Compatible
<1>1. /\ a[1] \in 0 .. w - 1 /\ a[2] \in 0 .. h - 1
      /\ b[1] \in 0 .. w - 1 /\ b[2] \in 0 .. h - 1
  OBVIOUS
<1>2. QED
  BY <1>1 DEF Abs

-----------------------------------------------------------------------------
(* The cells of a pattern.                                                 *)

IsOdd(p, r) == p.oddColumns >= 0 /\ r % 2 = 1

\* A pattern has cells, and rows of the second kind are not longer.
Sensible(p) ==
  /\ p.width \in Nat \ {0} /\ p.height \in Nat \ {0}
  /\ p.columns \in Nat \ {0} /\ p.rows \in Nat \ {0}
  /\ p.oddColumns \in Int /\ -1 <= p.oddColumns /\ p.oddColumns <= p.columns
  /\ p.rowShift \in Nat

Inhabited(p, c) ==
  /\ c \in Nat \X Nat /\ c[2] < p.rows
  /\ c[1] < IF IsOdd(p, c[2]) THEN p.oddColumns ELSE p.columns

LEMMA Halves ==
  ASSUME NEW r \in Nat
  PROVE  /\ (r + 1) \div 2 \in Nat /\ r \div 2 \in Nat
         /\ (r + 1) \div 2 + r \div 2 = r
         /\ r % 2 = 0 => r = 2 * (r \div 2) /\ (r + 1) \div 2 = r \div 2
         /\ r % 2 = 1 => r = 2 * (r \div 2) + 1 /\ (r + 1) \div 2 = r \div 2 + 1
         /\ r % 2 \in {0, 1}
OBVIOUS

LEMMA CapacityTyped ==
  ASSUME NEW p, Sensible(p)
  PROVE  Capacity(p) \in Nat
<1>1. CASE p.oddColumns < 0
  BY <1>1 DEF Capacity, Sensible
<1>2. CASE ~(p.oddColumns < 0)
  <2> DEFINE m == (p.rows + 1) \div 2
             n == p.rows \div 2
  <2>1. m \in Nat /\ n \in Nat
    BY Halves DEF Sensible
  <2>2. Capacity(p) = p.columns * m + p.oddColumns * n
    BY <1>2 DEF Capacity
  <2> HIDE DEF m, n
  <2>3. QED
    BY <1>2, <2>1, <2>2 DEF Sensible
<1>3. QED
  BY <1>1, <1>2 DEF Sensible

\* Columns of n cells each.
LEMMA Lines ==
  ASSUME NEW m \in Nat \ {0}, NEW n \in Nat \ {0}, NEW i \in Nat, i < m * n
  PROVE  i \div n \in Nat /\ i \div n < m /\ i % n \in Nat /\ i % n < n
<1> DEFINE q == i \div n
<1>1. /\ q \in Nat /\ n * q <= i /\ n * q \in Int
      /\ i % n \in Nat /\ i % n < n
  <2>1. i \in Int /\ i >= 0
    OBVIOUS
  <2>2. /\ i \div n \in Nat /\ n * (i \div n) <= i /\ n * (i \div n) \in Int
        /\ i % n \in 0 .. n - 1
    BY <2>1, Division
  <2>3. i % n \in Nat /\ i % n < n
    BY <2>2
  <2>4. QED
    BY <2>2, <2>3
<1> HIDE DEF q
<1>2. ~(m <= q)
  <2>1. m <= q => n * m <= n * q /\ n * m \in Int
    BY <1>1, Products
  <2>2. m * n = n * m /\ m * n \in Int
    OBVIOUS
  <2>3. QED
    BY <1>1, <2>1, <2>2
<1>3. QED
  BY <1>1, <1>2 DEF q

LEMMA SameLine ==
  ASSUME NEW n \in Nat \ {0}, NEW i \in Int, NEW j \in Int,
         i \div n = j \div n, i % n = j % n
  PROVE  i = j
BY Division

LEMMA GridCells ==
  ASSUME NEW p, Sensible(p), p.oddColumns < 0, NEW fill \in Flows,
         NEW i \in 0 .. Capacity(p) - 1
  PROVE  /\ Inhabited(p, GridCell(p, fill, i))
         /\ \A j \in 0 .. Capacity(p) - 1 :
              GridCell(p, fill, i) = GridCell(p, fill, j) => i = j
<1>1. /\ p.columns \in Nat \ {0} /\ p.rows \in Nat \ {0}
      /\ Capacity(p) = p.columns * p.rows /\ Capacity(p) = p.rows * p.columns
  BY DEF Capacity, Sensible
<1>2. Capacity(p) \in Nat
  BY CapacityTyped
<1> DEFINE Col(k) == IF fill.axis = 0 THEN k \div p.rows ELSE k % p.columns
           Row(k) == IF fill.axis = 0 THEN k % p.rows ELSE k \div p.columns
<1>3. fill.axis \in {0, 1} /\ fill.reverse \in BOOLEAN
  BY DEF Flows
<1>4. ASSUME NEW k \in 0 .. Capacity(p) - 1
      PROVE  /\ Col(k) \in Nat /\ Col(k) < p.columns
             /\ Row(k) \in Nat /\ Row(k) < p.rows
  <2>1. k \in Nat /\ k < p.columns * p.rows /\ k < p.rows * p.columns
    BY <1>1, <1>2
  <2>2. CASE fill.axis = 0
    BY <1>1, <2>1, <2>2, Lines
  <2>3. CASE fill.axis # 0
    BY <1>1, <2>1, <2>3, Lines
  <2>4. QED
    BY <2>2, <2>3
<1>5. ASSUME NEW j \in 0 .. Capacity(p) - 1, Col(i) = Col(j), Row(i) = Row(j)
      PROVE  i = j
  <2>1. i \in Int /\ j \in Int
    BY <1>2
  <2>2. CASE fill.axis = 0
    BY <1>1, <1>5, <2>1, <2>2, SameLine
  <2>3. CASE fill.axis # 0
    BY <1>1, <1>5, <2>1, <2>3, SameLine
  <2>4. QED
    BY <2>2, <2>3
<1>6. \A k : GridCell(p, fill, k) =
         IF ~fill.reverse THEN <<Col(k), Row(k)>>
         ELSE IF fill.axis = 0 THEN <<p.columns - 1 - Col(k), Row(k)>>
         ELSE <<Col(k), p.rows - 1 - Row(k)>>
  BY DEF GridCell
<1> HIDE DEF Col, Row
<1>7. Inhabited(p, GridCell(p, fill, i))
  <2>1. \A r : ~IsOdd(p, r)
    BY DEF IsOdd, Sensible
  <2>2. Col(i) \in Nat /\ Col(i) < p.columns /\ Row(i) \in Nat /\ Row(i) < p.rows
    BY <1>4
  <2>3. QED
    BY <1>1, <1>6, <2>1, <2>2 DEF Inhabited
<1>8. ASSUME NEW j \in 0 .. Capacity(p) - 1, GridCell(p, fill, i) = GridCell(p, fill, j)
      PROVE  i = j
  <2>1. /\ Col(i) \in Nat /\ Row(i) \in Nat /\ Col(j) \in Nat /\ Row(j) \in Nat
    BY <1>4
  <2>2. Col(i) = Col(j) /\ Row(i) = Row(j)
    <3>1. CASE ~fill.reverse
      <4>1. <<Col(i), Row(i)>> = <<Col(j), Row(j)>>
        BY <1>6, <1>8, <3>1
      <4>2. QED
        BY <4>1
    <3>2. CASE fill.reverse /\ fill.axis = 0
      <4>1. <<p.columns - 1 - Col(i), Row(i)>> = <<p.columns - 1 - Col(j), Row(j)>>
        BY <1>6, <1>8, <3>2
      <4>2. p.columns - 1 - Col(i) = p.columns - 1 - Col(j) /\ Row(i) = Row(j)
        BY <4>1
      <4>3. Col(i) \in Int /\ Col(j) \in Int /\ p.columns \in Int
        BY <1>1, <2>1
      <4>4. QED
        BY <4>2, <4>3, Cancel
    <3>3. CASE fill.reverse /\ fill.axis # 0
      <4>1. <<Col(i), p.rows - 1 - Row(i)>> = <<Col(j), p.rows - 1 - Row(j)>>
        BY <1>6, <1>8, <3>3
      <4>2. Col(i) = Col(j) /\ p.rows - 1 - Row(i) = p.rows - 1 - Row(j)
        BY <4>1
      <4>3. Row(i) \in Int /\ Row(j) \in Int /\ p.rows \in Int
        BY <1>1, <2>1
      <4>4. QED
        BY <4>2, <4>3, Cancel
    <3>4. QED
      BY <1>3, <3>1, <3>2, <3>3
  <2>3. QED
    BY <1>5, <2>2
<1>9. QED
  BY <1>7, <1>8

LEMMA StaggeredCapacity ==
  ASSUME NEW p, Sensible(p), p.oddColumns >= 0,
         NEW m, m = (p.rows + 1) \div 2, NEW n, n = p.rows \div 2
  PROVE  /\ Capacity(p) = p.columns * m + p.oddColumns * n
         /\ m \in Nat \ {0} /\ n \in Nat /\ m + n = p.rows
         /\ m = n \/ m = n + 1
         /\ p.columns \in Nat \ {0} /\ p.oddColumns \in Nat /\ p.rows \in Nat \ {0}
         /\ p.oddColumns <= p.columns
<1>1. p.rows \in Nat \ {0} /\ p.oddColumns \in Int /\ p.columns \in Nat \ {0}
  BY DEF Sensible
<1>2. m \in Nat /\ n \in Nat /\ m + n = p.rows /\ (m = n \/ m = n + 1)
  BY <1>1, Halves
<1>3. ~(p.oddColumns < 0)
  BY <1>1
<1>4. Capacity(p) = p.columns * m + p.oddColumns * n
  BY <1>3 DEF Capacity
<1>5. m # 0
  BY <1>1, <1>2
<1>6. p.oddColumns <= p.columns /\ p.oddColumns \in Nat
  BY <1>1 DEF Sensible
<1>7. QED
  BY <1>1, <1>2, <1>4, <1>5, <1>6

LEMMA EvenOdd ==
  ASSUME NEW r \in Nat
  PROVE  (2 * r) % 2 = 0 /\ (2 * r + 1) % 2 = 1
OBVIOUS

\* Column after column: the columns that all rows have come first.
LEMMA ColumnCells ==
  ASSUME NEW p, Sensible(p), p.oddColumns >= 0, NEW i \in 0 .. Capacity(p) - 1
  PROVE  /\ Inhabited(p, StaggeredColumns(p, i))
         /\ \A j \in 0 .. Capacity(p) - 1 :
              StaggeredColumns(p, i) = StaggeredColumns(p, j) => i = j
<1> DEFINE m == (p.rows + 1) \div 2
           n == p.rows \div 2
           shared == p.oddColumns * p.rows
<1>1. /\ Capacity(p) = p.columns * m + p.oddColumns * n
      /\ m \in Nat \ {0} /\ n \in Nat /\ m + n = p.rows
      /\ m = n \/ m = n + 1
      /\ p.columns \in Nat \ {0} /\ p.oddColumns \in Nat /\ p.rows \in Nat \ {0}
      /\ p.oddColumns <= p.columns
  BY StaggeredCapacity
<1>2. \A k : StaggeredColumns(p, k) =
        IF k - shared < 0 THEN <<k \div p.rows, k % p.rows>>
        ELSE <<p.oddColumns + ((k - shared) \div
                 (IF p.columns > p.oddColumns THEN m ELSE n)),
               2 * ((k - shared) % (IF p.columns > p.oddColumns THEN m ELSE n)) +
                 (IF p.columns > p.oddColumns THEN 0 ELSE 1)>>
  <2>1. (IF p.columns < p.oddColumns THEN p.columns ELSE p.oddColumns) = p.oddColumns
    <3>1. ~(p.columns < p.oddColumns)
      <4> HIDE DEF m, n, shared
      <4>1. QED
        BY <1>1
    <3>2. QED
      BY <3>1
  <2>2. QED
    BY <2>1 DEF StaggeredColumns
<1> HIDE DEF m, n
<1>3. /\ shared \in Nat /\ Capacity(p) \in Nat
      /\ Capacity(p) = shared + (p.columns - p.oddColumns) * m
  <2>1. shared = p.oddColumns * m + p.oddColumns * n
    BY <1>1
  <2>2. (p.columns - p.oddColumns) * m = p.columns * m - p.oddColumns * m
    BY <1>1
  <2>3. /\ p.columns * m \in Nat /\ p.oddColumns * m \in Nat
        /\ p.oddColumns * n \in Nat
    BY <1>1
  <2>4. QED
    BY <1>1, <2>1, <2>2, <2>3
<1> HIDE DEF shared
<1>4. ASSUME NEW k \in 0 .. Capacity(p) - 1, ~(k - shared < 0)
      PROVE  /\ p.columns > p.oddColumns
             /\ p.columns - p.oddColumns \in Nat \ {0}
             /\ k - shared \in Nat /\ k - shared < (p.columns - p.oddColumns) * m
             /\ StaggeredColumns(p, k) = <<p.oddColumns + ((k - shared) \div m),
                                           2 * ((k - shared) % m)>>
  <2>1. k - shared \in Nat /\ k - shared < (p.columns - p.oddColumns) * m
    BY <1>1, <1>3, <1>4
  <2>2. p.columns # p.oddColumns
    <3>1. p.columns = p.oddColumns => (p.columns - p.oddColumns) * m = 0
      BY <1>1
    <3>2. QED
      BY <2>1, <3>1
  <2>3. p.columns > p.oddColumns /\ p.columns - p.oddColumns \in Nat \ {0}
    <3>1. p.columns \in Nat /\ p.oddColumns \in Nat /\ p.oddColumns <= p.columns
      BY <1>1
    <3>2. p.columns - p.oddColumns \in Nat /\ p.columns - p.oddColumns # 0
      BY <2>2, <3>1
    <3>3. p.columns > p.oddColumns
      BY <2>2, <3>1
    <3>4. QED
      BY <3>2, <3>3
  <2>4. StaggeredColumns(p, k) = <<p.oddColumns + ((k - shared) \div m),
                                   2 * ((k - shared) % m) + 0>>
    BY <1>2, <1>4, <2>3
  <2>5. 2 * ((k - shared) % m) + 0 = 2 * ((k - shared) % m)
    <3>1. m \in Nat \ {0} /\ k - shared \in Int
      BY <1>1, <2>1
    <3>2. (k - shared) % m \in 0 .. m - 1
      BY <3>1, Division
    <3>3. QED
      BY <3>1, <3>2
  <2>6. QED
    BY <2>1, <2>3, <2>4, <2>5
<1>5. ASSUME NEW k \in 0 .. Capacity(p) - 1, k - shared < 0
      PROVE  /\ k \in Nat /\ p.oddColumns \in Nat \ {0}
             /\ k < p.oddColumns * p.rows
             /\ StaggeredColumns(p, k) = <<k \div p.rows, k % p.rows>>
  <2>1. k \in Nat /\ k < shared
    BY <1>3, <1>5
  <2>2. p.oddColumns # 0
    BY <1>1, <2>1 DEF shared
  <2>3. QED
    BY <1>1, <1>2, <1>5, <2>1, <2>2 DEF shared
<1>6. ASSUME NEW k \in 0 .. Capacity(p) - 1, k - shared < 0
      PROVE  /\ k \div p.rows \in Nat /\ k \div p.rows < p.oddColumns
             /\ k % p.rows \in Nat /\ k % p.rows < p.rows
  BY <1>1, <1>5, <1>6, Lines
<1>7. ASSUME NEW k \in 0 .. Capacity(p) - 1, ~(k - shared < 0)
      PROVE  /\ (k - shared) \div m \in Nat
             /\ (k - shared) \div m < p.columns - p.oddColumns
             /\ (k - shared) % m \in Nat /\ (k - shared) % m < m
  BY <1>1, <1>4, <1>7, Lines
<1>8. Inhabited(p, StaggeredColumns(p, i))
  <2>1. CASE i - shared < 0
    <3> DEFINE c == i \div p.rows
               r == i % p.rows
    <3>1. c \in Nat /\ c < p.oddColumns /\ r \in Nat /\ r < p.rows
      BY <1>6, <2>1
    <3>2. StaggeredColumns(p, i) = <<c, r>>
      BY <1>5, <2>1
    <3> HIDE DEF c, r
    <3>3. c < IF IsOdd(p, r) THEN p.oddColumns ELSE p.columns
      BY <1>1, <3>1
    <3>4. QED
      BY <3>1, <3>2, <3>3 DEF Inhabited
  <2>2. CASE ~(i - shared < 0)
    <3> DEFINE q == (i - shared) \div m
               r == (i - shared) % m
    <3>1. q \in Nat /\ q < p.columns - p.oddColumns /\ r \in Nat /\ r < m
      BY <1>7, <2>2
    <3>2. StaggeredColumns(p, i) = <<p.oddColumns + q, 2 * r>>
      BY <1>4, <2>2
    <3> HIDE DEF q, r
    <3>3. ~IsOdd(p, 2 * r)
      BY <3>1, EvenOdd DEF IsOdd
    <3>4. 2 * r \in Nat /\ 2 * r < p.rows /\ p.oddColumns + q \in Nat
          /\ p.oddColumns + q < p.columns
      BY <1>1, <3>1
    <3>5. QED
      BY <3>2, <3>3, <3>4 DEF Inhabited
  <2>3. QED
    BY <2>1, <2>2
<1>9. ASSUME NEW j \in 0 .. Capacity(p) - 1,
             StaggeredColumns(p, i) = StaggeredColumns(p, j)
      PROVE  i = j
  <2>1. CASE i - shared < 0 /\ j - shared < 0
    <3>1. <<i \div p.rows, i % p.rows>> = <<j \div p.rows, j % p.rows>>
      BY <1>5, <1>9, <2>1
    <3>2. i \div p.rows = j \div p.rows /\ i % p.rows = j % p.rows
      BY <3>1
    <3>3. QED
      BY <1>1, <1>3, <3>2, SameLine
  <2>2. CASE ~(i - shared < 0) /\ ~(j - shared < 0)
    <3> DEFINE a == (i - shared) \div m
               b == (i - shared) % m
               c == (j - shared) \div m
               d == (j - shared) % m
    <3>1. <<p.oddColumns + a, 2 * b>> = <<p.oddColumns + c, 2 * d>>
      BY <1>4, <1>9, <2>2
    <3>2. a \in Nat /\ b \in Nat /\ c \in Nat /\ d \in Nat
      BY <1>7, <2>2
    <3>3. a = c /\ b = d
      <4> HIDE DEF a, b, c, d
      <4>1. p.oddColumns + a = p.oddColumns + c /\ 2 * b = 2 * d
        BY <3>1
      <4>2. QED
        BY <1>1, <3>2, <4>1
    <3>4. i - shared = j - shared
      <4>1. i - shared \in Int /\ j - shared \in Int /\ m \in Nat \ {0}
        BY <1>1, <1>3
      <4>2. QED
        BY <3>3, <4>1, SameLine
    <3>5. i \in Int /\ j \in Int /\ shared \in Int
      BY <1>3
    <3>6. QED
      BY <3>4, <3>5, Cancel
  <2>3. ASSUME NEW k \in 0 .. Capacity(p) - 1, NEW l \in 0 .. Capacity(p) - 1,
               k - shared < 0, ~(l - shared < 0)
        PROVE  StaggeredColumns(p, k) # StaggeredColumns(p, l)
    <3> DEFINE a == k \div p.rows
               b == k % p.rows
               c == (l - shared) \div m
               d == (l - shared) % m
    <3>1. a \in Nat /\ a < p.oddColumns /\ c \in Nat
      BY <1>6, <1>7, <2>3
    <3>2. StaggeredColumns(p, k) = <<a, b>>
          /\ StaggeredColumns(p, l) = <<p.oddColumns + c, 2 * d>>
      BY <1>4, <1>5, <2>3
    <3> HIDE DEF a, b, c, d
    <3>3. a # p.oddColumns + c
      BY <1>1, <3>1
    <3>4. QED
      BY <3>2, <3>3
  <2>4. QED
    BY <1>9, <2>1, <2>2, <2>3
<1>10. QED
  BY <1>8, <1>9

\* Pairs of rows: of the last one there may only be the longer row.
LEMMA RowCells ==
  ASSUME NEW p, Sensible(p), p.oddColumns >= 0, NEW i \in 0 .. Capacity(p) - 1
  PROVE  /\ Inhabited(p, StaggeredRows(p, i))
         /\ \A j \in 0 .. Capacity(p) - 1 :
              StaggeredRows(p, i) = StaggeredRows(p, j) => i = j
<1> DEFINE m == (p.rows + 1) \div 2
           n == p.rows \div 2
           both == p.columns + p.oddColumns
           Pair(k) == k \div both
           Off(k) == k % both
<1>1. /\ Capacity(p) = p.columns * m + p.oddColumns * n
      /\ m \in Nat \ {0} /\ n \in Nat /\ m + n = p.rows
      /\ m = n \/ m = n + 1
      /\ p.columns \in Nat \ {0} /\ p.oddColumns \in Nat /\ p.rows \in Nat \ {0}
      /\ p.oddColumns <= p.columns
  BY StaggeredCapacity
<1>2. \A k : StaggeredRows(p, k) = IF Off(k) < p.columns THEN <<Off(k), 2 * Pair(k)>>
                                   ELSE <<Off(k) - p.columns, 2 * Pair(k) + 1>>
  BY DEF StaggeredRows
<1> HIDE DEF m, n
<1>3. both \in Nat \ {0} /\ both = p.columns + p.oddColumns
  BY <1>1
<1>4. /\ Capacity(p) \in Nat
      /\ m = n => Capacity(p) = both * n
      /\ m = n + 1 => Capacity(p) = both * n + p.columns
  <2>1. both * n = p.columns * n + p.oddColumns * n
    BY <1>1
  <2>2. p.columns * (n + 1) = p.columns * n + p.columns
    BY <1>1
  <2>3. p.columns * n \in Nat /\ p.oddColumns * n \in Nat
    BY <1>1
  <2>4. QED
    BY <1>1, <2>1, <2>2, <2>3
<1> HIDE DEF both
<1>5. ASSUME NEW k \in 0 .. Capacity(p) - 1
      PROVE  /\ Pair(k) \in Nat /\ Off(k) \in Nat /\ Off(k) < both
             /\ k = both * Pair(k) + Off(k) /\ both * Pair(k) \in Int
             /\ Pair(k) < n \/ (Pair(k) = n /\ m = n + 1 /\ Off(k) < p.columns)
  <2>1. k \in Nat /\ k < Capacity(p)
    BY <1>4
  <2>2. /\ Pair(k) \in Nat /\ Off(k) \in Nat /\ Off(k) < both
        /\ k = both * Pair(k) + Off(k) /\ both * Pair(k) \in Int
    <3>1. both \in Nat \ {0} /\ k \in Int /\ k >= 0
      BY <1>3, <2>1
    <3>2. /\ Pair(k) \in Nat /\ both * Pair(k) \in Int
          /\ Off(k) \in 0 .. both - 1 /\ k = both * Pair(k) + Off(k)
      BY <3>1, Division
    <3> HIDE DEF Pair, Off
    <3>3. QED
      BY <3>1, <3>2
  <2> HIDE DEF Pair, Off
  <2>3. CASE m = n
    <3>1. n <= Pair(k) => both * n <= both * Pair(k) /\ both * n \in Int
      BY <1>1, <1>3, <2>2, Products
    <3>2. QED
      BY <1>1, <1>3, <1>4, <2>1, <2>2, <2>3, <3>1
  <2>4. CASE m = n + 1
    <3>1. n < Pair(k) => both * n + both <= both * Pair(k) /\ both * n \in Int
      BY <1>1, <1>3, <2>2, StrictProducts
    <3>2. Pair(k) = n => Off(k) < p.columns
      <4>1. both * n \in Int
        BY <1>1, <1>3
      <4>2. QED
        BY <1>1, <1>3, <1>4, <2>1, <2>2, <2>4, <4>1
    <3>3. ~(n < Pair(k))
      BY <1>1, <1>3, <1>4, <2>1, <2>2, <2>4, <3>1
    <3>4. n \in Nat /\ Pair(k) \in Nat
      BY <1>1, <2>2
    <3>5. Pair(k) < n \/ Pair(k) = n
      BY <3>3, <3>4
    <3>6. QED
      BY <2>2, <2>4, <3>2, <3>5
  <2>5. QED
    BY <1>1, <2>3, <2>4
<1> HIDE DEF Pair, Off
<1>6. Inhabited(p, StaggeredRows(p, i))
  <2>1. CASE Off(i) < p.columns
    <3>1. ~IsOdd(p, 2 * Pair(i)) /\ 2 * Pair(i) \in Nat /\ 2 * Pair(i) < p.rows
      BY <1>1, <1>5, EvenOdd DEF IsOdd
    <3>2. QED
      BY <1>2, <1>5, <2>1, <3>1 DEF Inhabited
  <2>2. CASE ~(Off(i) < p.columns)
    <3> DEFINE r == 2 * Pair(i) + 1
               c == Off(i) - p.columns
    <3>1. IsOdd(p, r) /\ r \in Nat /\ r < p.rows
      BY <1>1, <1>5, <2>2, EvenOdd DEF IsOdd
    <3>2. c \in Nat /\ c < p.oddColumns
      BY <1>1, <1>3, <1>5, <2>2
    <3>3. StaggeredRows(p, i) = <<c, r>>
      BY <1>2, <2>2
    <3> HIDE DEF c, r
    <3>4. QED
      BY <3>1, <3>2, <3>3 DEF Inhabited
  <2>3. QED
    BY <2>1, <2>2
<1>7. ASSUME NEW j \in 0 .. Capacity(p) - 1, StaggeredRows(p, i) = StaggeredRows(p, j)
      PROVE  i = j
  <2>1. /\ Pair(i) \in Nat /\ Off(i) \in Nat /\ Pair(j) \in Nat /\ Off(j) \in Nat
        /\ i = both * Pair(i) + Off(i) /\ j = both * Pair(j) + Off(j)
    BY <1>5
  <2>2. Pair(i) = Pair(j) /\ Off(i) = Off(j)
    <3>1. CASE Off(i) < p.columns /\ Off(j) < p.columns
      <4>1. <<Off(i), 2 * Pair(i)>> = <<Off(j), 2 * Pair(j)>>
        BY <1>2, <1>7, <3>1
      <4>2. Off(i) = Off(j) /\ 2 * Pair(i) = 2 * Pair(j)
        BY <4>1
      <4>3. QED
        BY <2>1, <4>2
    <3>2. CASE ~(Off(i) < p.columns) /\ ~(Off(j) < p.columns)
      <4>1. <<Off(i) - p.columns, 2 * Pair(i) + 1>> = <<Off(j) - p.columns, 2 * Pair(j) + 1>>
        BY <1>2, <1>7, <3>2
      <4>2. Off(i) - p.columns = Off(j) - p.columns /\ 2 * Pair(i) + 1 = 2 * Pair(j) + 1
        BY <4>1
      <4>3. /\ Off(i) \in Int /\ Off(j) \in Int /\ p.columns \in Int
            /\ Pair(i) \in Int /\ Pair(j) \in Int
        BY <1>1, <2>1
      <4>4. QED
        BY <4>2, <4>3, Cancel
    <3>3. CASE Off(i) < p.columns /\ ~(Off(j) < p.columns)
      <4>1. <<Off(i), 2 * Pair(i)>> = <<Off(j) - p.columns, 2 * Pair(j) + 1>>
        BY <1>2, <1>7, <3>3
      <4>2. 2 * Pair(i) = 2 * Pair(j) + 1
        BY <4>1
      <4>3. QED
        BY <2>1, <4>2
    <3>4. CASE ~(Off(i) < p.columns) /\ Off(j) < p.columns
      <4>1. <<Off(j), 2 * Pair(j)>> = <<Off(i) - p.columns, 2 * Pair(i) + 1>>
        BY <1>2, <1>7, <3>4
      <4>2. 2 * Pair(j) = 2 * Pair(i) + 1
        BY <4>1
      <4>3. QED
        BY <2>1, <4>2
    <3>5. QED
      BY <3>1, <3>2, <3>3, <3>4
  <2>3. QED
    BY <2>1, <2>2
<1>8. QED
  BY <1>6, <1>7

LEMMA CellsOf ==
  ASSUME NEW p, Sensible(p), NEW fill \in Flows, NEW i \in 0 .. Capacity(p) - 1
  PROVE  /\ Inhabited(p, CellOf(p, fill, i))
         /\ \A j \in 0 .. Capacity(p) - 1 :
              CellOf(p, fill, i) = CellOf(p, fill, j) => i = j
<1>1. Capacity(p) \in Nat
  BY CapacityTyped
<1>2. CASE p.oddColumns < 0
  BY <1>2, GridCells DEF CellOf
<1>3. CASE ~(p.oddColumns < 0)
  <2> DEFINE Turned(k) == IF fill.reverse THEN Capacity(p) - 1 - k ELSE k
             CellAt(k) == IF fill.axis = 0 THEN StaggeredColumns(p, k) ELSE StaggeredRows(p, k)
  <2>1. \A k : CellOf(p, fill, k) = CellAt(Turned(k))
    BY <1>3 DEF CellOf
  <2>2. \A k \in 0 .. Capacity(p) - 1 : Turned(k) \in 0 .. Capacity(p) - 1
    BY <1>1
  <2>3. \A j, k \in 0 .. Capacity(p) - 1 : Turned(j) = Turned(k) => j = k
    BY <1>1
  <2> HIDE DEF Turned
  <2>4. p.oddColumns >= 0
    BY <1>3 DEF Sensible
  <2>5. ASSUME NEW k \in 0 .. Capacity(p) - 1
        PROVE  /\ Inhabited(p, CellAt(k))
               /\ \A j \in 0 .. Capacity(p) - 1 : CellAt(k) = CellAt(j) => k = j
    <3>1. CASE fill.axis = 0
      BY <2>4, <3>1, ColumnCells
    <3>2. CASE fill.axis # 0
      BY <2>4, <3>2, RowCells
    <3>3. QED
      BY <3>1, <3>2
  <2> HIDE DEF CellAt
  <2>6. QED
    BY <2>1, <2>2, <2>3, <2>5
<1>4. QED
  BY <1>2, <1>3

-----------------------------------------------------------------------------
(* From cells to positions.                                                *)

Indent(p, r) == IF p.oddColumns >= 0 /\ r % 2 = 1 THEN p.rowShift ELSE 0
Origin(p, c) == <<c[1] * p.width + Indent(p, c[2]), c[2] * p.height>>

LEMMA OriginTyped ==
  ASSUME NEW p, Sensible(p), NEW c, Inhabited(p, c)
  PROVE  /\ c[1] \in Nat /\ c[2] \in Nat /\ Indent(p, c[2]) \in Nat
         /\ Origin(p, c)[1] = c[1] * p.width + Indent(p, c[2])
         /\ Origin(p, c)[2] = c[2] * p.height
         /\ Origin(p, c)[1] \in Nat /\ Origin(p, c)[2] \in Nat
         /\ c[1] * p.width \in Nat /\ c[2] * p.height \in Nat
         /\ Origin(p, c) = <<Origin(p, c)[1], Origin(p, c)[2]>>
<1>1. c[1] \in Nat /\ c[2] \in Nat /\ p.rowShift \in Nat
      /\ p.width \in Nat /\ p.height \in Nat
  BY DEF Inhabited, Sensible
<1>2. Indent(p, c[2]) \in Nat
  BY <1>1 DEF Indent
<1>3. c[1] * p.width \in Nat /\ c[2] * p.height \in Nat
  BY <1>1
<1>4. QED
  BY <1>1, <1>2, <1>3 DEF Origin

\* Multiples of n are n or more apart.
LEMMA Multiples ==
  ASSUME NEW n \in Nat, NEW a \in Nat, NEW b \in Nat, a # b
  PROVE  /\ a * n \in Int /\ b * n \in Int
         /\ a < b => a * n + n <= b * n
         /\ b < a => b * n + n <= a * n
<1>1. a * n = n * a /\ b * n = n * b
  OBVIOUS
<1>2. a < b => n * a \in Int /\ n * b \in Int /\ n * a + n <= n * b
  BY StrictProducts
<1>3. b < a => n * a \in Int /\ n * b \in Int /\ n * b + n <= n * a
  BY StrictProducts
<1>4. a < b \/ b < a
  OBVIOUS
<1>5. QED
  BY <1>1, <1>2, <1>3, <1>4

LEMMA MultiplesApart ==
  ASSUME NEW n \in Nat, NEW a \in Nat, NEW b \in Nat, a # b
  PROVE  a * n - b * n \in Int /\ Abs(a * n - b * n) >= n
<1> DEFINE x == a * n
           y == b * n
<1>1. x \in Int /\ y \in Int /\ (x + n <= y \/ y + n <= x)
  BY Multiples
<1> HIDE DEF x, y
<1>2. x - y \in Int /\ Abs(x - y) >= n
  BY <1>1 DEF Abs
<1>3. QED
  BY <1>2 DEF x, y

LEMMA SameMultiple ==
  ASSUME NEW n \in Nat \ {0}, NEW a \in Nat, NEW b \in Nat, a * n = b * n
  PROVE  a = b
<1> SUFFICES ASSUME a # b PROVE FALSE
  OBVIOUS
<1>1. /\ a * n \in Int
      /\ a < b => a * n + n <= b * n
      /\ b < a => b * n + n <= a * n
  BY Multiples
<1>2. a < b \/ b < a
  OBVIOUS
<1>3. QED
  BY <1>1, <1>2

LEMMA OriginsDiffer ==
  ASSUME NEW p, Sensible(p), NEW c, Inhabited(p, c), NEW d, Inhabited(p, d),
         Origin(p, c) = Origin(p, d)
  PROVE  c = d
<1>1. /\ c[1] \in Nat /\ c[2] \in Nat /\ d[1] \in Nat /\ d[2] \in Nat
      /\ c = <<c[1], c[2]>> /\ d = <<d[1], d[2]>>
      /\ p.width \in Nat \ {0} /\ p.height \in Nat \ {0}
  BY DEF Inhabited, Sensible
<1>2. /\ c[1] * p.width + Indent(p, c[2]) = d[1] * p.width + Indent(p, d[2])
      /\ c[2] * p.height = d[2] * p.height
  BY OriginTyped
<1>3. c[2] = d[2]
  BY <1>1, <1>2, SameMultiple
<1>4. c[1] * p.width = d[1] * p.width
  <2>1. Indent(p, c[2]) \in Nat /\ Indent(p, c[2]) = Indent(p, d[2])
    BY <1>3, OriginTyped
  <2>2. c[1] * p.width \in Nat /\ d[1] * p.width \in Nat
    BY OriginTyped
  <2>3. QED
    BY <1>2, <2>1, <2>2
<1>5. c[1] = d[1]
  BY <1>1, <1>4, SameMultiple
<1>6. QED
  BY <1>1, <1>3, <1>5

\* What is left to be shown of a pattern: where its cells lie.
CellsInside(p, size, plate, edge) ==
  \A c : Inhabited(p, c) => WithinSheet(Origin(p, c), size, plate, edge)

CellsApart(p, S, gap) ==
  \A c, d : Inhabited(p, c) /\ Inhabited(p, d) /\ c # d =>
    Compatible(S, gap, Origin(p, c)[1] - Origin(p, d)[1], Origin(p, c)[2] - Origin(p, d)[2])

\* No two positions of a pattern are in conflict.
NoConflicts(p, S, gap, fill) ==
  \A i, j \in 0 .. Capacity(p) - 1 : i # j =>
    Compatible(S, gap, Position(p, fill, i)[1] - Position(p, fill, j)[1],
               Position(p, fill, i)[2] - Position(p, fill, j)[2])

LEMMA CellsSuffice ==
  ASSUME NEW p, Sensible(p), NEW S, NEW size, NEW plate, NEW gap, NEW edge,
         NEW fill \in Flows,
         CellsInside(p, size, plate, edge), CellsApart(p, S, gap)
  PROVE  LaidOut(p, S, size, plate, gap, edge, fill) /\ NoConflicts(p, S, gap, fill)
<1> DEFINE N == Capacity(p)
           At(i) == Position(p, fill, i)
           positions == {At(i) : i \in 0 .. N - 1}
<1>1. N \in Nat
  BY CapacityTyped
<1>2. \A i : At(i) = Origin(p, CellOf(p, fill, i))
  BY DEF Position, Origin, Indent
<1>3. \A i \in 0 .. N - 1 : Inhabited(p, CellOf(p, fill, i))
  BY CellsOf
<1>4. \A i, j \in 0 .. N - 1 : At(i) = At(j) => i = j
  BY <1>2, <1>3, CellsOf, OriginsDiffer
<1> HIDE DEF At, N
<1>5. Cardinality(positions) = N
  <2> DEFINE f == [i \in 0 .. N - 1 |-> At(i)]
  <2>1. f \in Bijection(0 .. N - 1, positions)
    <3>1. f \in [0 .. N - 1 -> positions]
      OBVIOUS
    <3>2. \A i, j \in 0 .. N - 1 : f[i] = f[j] => i = j
      BY <1>4
    <3>3. \A u \in positions : \E i \in 0 .. N - 1 : f[i] = u
      OBVIOUS
    <3> HIDE DEF f, positions
    <3>4. f \in Injection(0 .. N - 1, positions)
      BY <3>1, <3>2 DEF Injection, IsInjective
    <3>5. f \in Surjection(0 .. N - 1, positions)
      BY <3>1, <3>3 DEF Surjection
    <3>6. QED
      BY <3>4, <3>5 DEF Bijection
  <2>2. ExistsBijection(0 .. N - 1, positions)
    BY <2>1 DEF ExistsBijection
  <2>3. 0 \in Int /\ N - 1 \in Int
    BY <1>1
  <2> HIDE DEF positions
  <2>4. /\ IsFiniteSet(0 .. N - 1)
        /\ Cardinality(0 .. N - 1) = IF 0 > N - 1 THEN 0 ELSE (N - 1) - 0 + 1
    BY <2>3, FS_Interval, Zenon
  <2>5. Cardinality(0 .. N - 1) = N
    BY <1>1, <2>4
  <2>6. Cardinality(positions) = Cardinality(0 .. N - 1)
    BY <2>2, <2>4, FS_Bijection
  <2>7. QED
    BY <2>5, <2>6
<1>6. \A origin \in positions : WithinSheet(origin, size, plate, edge)
  BY <1>2, <1>3 DEF CellsInside
<1>7. \A i, j \in 0 .. N - 1 : i # j =>
        Compatible(S, gap, At(i)[1] - At(j)[1], At(i)[2] - At(j)[2])
  <2> SUFFICES ASSUME NEW i \in 0 .. N - 1, NEW j \in 0 .. N - 1, i # j
               PROVE  Compatible(S, gap, At(i)[1] - At(j)[1], At(i)[2] - At(j)[2])
    OBVIOUS
  <2>1. CellOf(p, fill, i) # CellOf(p, fill, j)
    BY <1>2, <1>4
  <2>2. QED
    BY <1>2, <1>3, <2>1 DEF CellsApart
<1>8. \A u, v \in positions : u # v => Compatible(S, gap, u[1] - v[1], u[2] - v[2])
  BY <1>7
<1>9. LaidOut(p, S, size, plate, gap, edge, fill)
  BY <1>5, <1>6, <1>8 DEF LaidOut, positions, At, N
<1>10. QED
  BY <1>7, <1>9 DEF NoConflicts, At, N

\* Conflicts need only be looked for upwards, and to the right in a row.
Upwards(c, d) == d[2] < c[2] \/ (d[2] = c[2] /\ d[1] < c[1])

LEMMA UpwardsSuffices ==
  ASSUME NEW p, Sensible(p), NEW S, S \subseteq Int \X Int, NEW gap \in Nat,
         \A c, d : Inhabited(p, c) /\ Inhabited(p, d) /\ Upwards(c, d) =>
           Compatible(S, gap, Origin(p, c)[1] - Origin(p, d)[1],
                      Origin(p, c)[2] - Origin(p, d)[2])
  PROVE  CellsApart(p, S, gap)
<1> SUFFICES ASSUME NEW c, NEW d, Inhabited(p, c), Inhabited(p, d), c # d
             PROVE  Compatible(S, gap, Origin(p, c)[1] - Origin(p, d)[1],
                               Origin(p, c)[2] - Origin(p, d)[2])
  BY DEF CellsApart
<1>1. /\ c[1] \in Nat /\ c[2] \in Nat /\ d[1] \in Nat /\ d[2] \in Nat
      /\ c = <<c[1], c[2]>> /\ d = <<d[1], d[2]>>
  BY DEF Inhabited
<1>2. Upwards(c, d) \/ Upwards(d, c)
  <2>1. c[1] # d[1] \/ c[2] # d[2]
    BY <1>1
  <2>2. QED
    BY <1>1, <2>1 DEF Upwards
<1>3. CASE Upwards(c, d)
  BY <1>3
<1>4. CASE Upwards(d, c)
  <2> DEFINE dx == Origin(p, d)[1] - Origin(p, c)[1]
             dy == Origin(p, d)[2] - Origin(p, c)[2]
  <2>1. Compatible(S, gap, dx, dy)
    BY <1>4
  <2>2. /\ Origin(p, c)[1] \in Nat /\ Origin(p, c)[2] \in Nat
        /\ Origin(p, d)[1] \in Nat /\ Origin(p, d)[2] \in Nat
    BY OriginTyped
  <2>3. /\ dx \in Int /\ dy \in Int
        /\ -dx = Origin(p, c)[1] - Origin(p, d)[1]
        /\ -dy = Origin(p, c)[2] - Origin(p, d)[2]
    BY <2>2
  <2> HIDE DEF dx, dy
  <2>4. Compatible(S, gap, -dx, -dy)
    BY <2>1, <2>3, CompatibleMirror
  <2>5. QED
    BY <2>3, <2>4
<1>5. QED
  BY <1>2, <1>3, <1>4

-----------------------------------------------------------------------------
(* A grid of boxes.                                                        *)

LEMMA GridLaidOut ==
  ASSUME NEW w \in Nat \ {0}, NEW h \in Nat \ {0}, NEW a \in Nat, NEW b \in Nat,
         NEW gap \in Nat, NEW edge \in Nat,
         NEW S, S \subseteq (0 .. w - 1) \X (0 .. h - 1),
         NEW p \in GridPatterns(<<w, h>>, <<a, b>>, gap, edge)
  PROVE  Sensible(p) /\ CellsInside(p, <<w, h>>, <<a, b>>, edge) /\ CellsApart(p, S, gap)
<1> DEFINE W == w + gap
           H == h + gap
           across == a - 2 * edge + gap
           up == b - 2 * edge + gap
<1>1. /\ p = [width |-> W, height |-> H, columns |-> across \div W, oddColumns |-> -1,
               rows |-> up \div H, rowShift |-> 0]
      /\ p.columns > 0 /\ p.rows > 0
  BY DEF GridPatterns, GridPattern
<1>2. W \in Nat \ {0} /\ H \in Nat \ {0} /\ across \in Int /\ up \in Int
  OBVIOUS
<1>3. /\ p.width = W /\ p.height = H /\ p.oddColumns = -1 /\ p.rowShift = 0
      /\ p.columns = across \div W /\ p.rows = up \div H
  BY <1>1
<1> DEFINE m == across \div W
           n == up \div H
<1>4. /\ m \in Int /\ n \in Int /\ W * m \in Int /\ H * n \in Int
      /\ W * m <= across /\ H * n <= up
  BY <1>2, Division
<1>5. p.columns = m /\ p.rows = n
  BY <1>3
<1>6. across = a - 2 * edge + gap /\ up = b - 2 * edge + gap /\ W = w + gap /\ H = h + gap
  OBVIOUS
<1> HIDE DEF m, n, W, H, across, up
<1>7. Sensible(p)
  <2>1. m \in Nat \ {0} /\ n \in Nat \ {0}
    BY <1>1, <1>4, <1>5
  <2>2. QED
    BY <1>2, <1>3, <1>5, <2>1 DEF Sensible
<1>8. ASSUME NEW c, Inhabited(p, c)
      PROVE  /\ c[1] \in Nat /\ c[1] < m /\ c[2] \in Nat /\ c[2] < n
             /\ Origin(p, c)[1] = c[1] * W /\ Origin(p, c)[2] = c[2] * H
             /\ c[1] * W \in Nat /\ c[2] * H \in Nat
  <2>1. /\ c[1] \in Nat /\ c[2] \in Nat /\ c[1] * p.width \in Nat /\ c[2] * p.height \in Nat
        /\ Origin(p, c)[1] = c[1] * p.width + Indent(p, c[2])
        /\ Origin(p, c)[2] = c[2] * p.height
    BY <1>7, <1>8, OriginTyped
  <2>2. Indent(p, c[2]) = 0 /\ ~IsOdd(p, c[2])
    BY <1>3 DEF Indent, IsOdd
  <2>3. c[1] < m /\ c[2] < n
    BY <1>5, <1>8, <2>2 DEF Inhabited
  <2>4. QED
    BY <1>3, <2>1, <2>2, <2>3
<1>9. CellsInside(p, <<w, h>>, <<a, b>>, edge)
  <2> SUFFICES ASSUME NEW c, Inhabited(p, c)
               PROVE  WithinSheet(Origin(p, c), <<w, h>>, <<a, b>>, edge)
    BY DEF CellsInside
  <2>1. /\ c[1] \in Nat /\ c[1] < m /\ c[2] \in Nat /\ c[2] < n
        /\ Origin(p, c)[1] = c[1] * W /\ Origin(p, c)[2] = c[2] * H
        /\ c[1] * W \in Nat /\ c[2] * H \in Nat
    BY <1>8
  <2>2. W * c[1] + W <= W * m /\ H * c[2] + H <= H * n
    BY <1>2, <1>4, <2>1, StrictProducts
  <2>3. W * c[1] = c[1] * W /\ H * c[2] = c[2] * H
    BY <1>2, <2>1
  <2>4. c[1] * W + w <= a - 2 * edge /\ c[2] * H + h <= b - 2 * edge
    BY <1>2, <1>4, <1>6, <2>1, <2>2, <2>3
  <2>5. QED
    BY <2>1, <2>4 DEF WithinSheet
<1>10. CellsApart(p, S, gap)
  <2> SUFFICES ASSUME NEW c, NEW d, Inhabited(p, c), Inhabited(p, d), c # d
               PROVE  Compatible(S, gap, Origin(p, c)[1] - Origin(p, d)[1],
                                 Origin(p, c)[2] - Origin(p, d)[2])
    BY DEF CellsApart
  <2>1. /\ c[1] \in Nat /\ c[2] \in Nat /\ d[1] \in Nat /\ d[2] \in Nat
        /\ Origin(p, c)[1] = c[1] * W /\ Origin(p, c)[2] = c[2] * H
        /\ Origin(p, d)[1] = d[1] * W /\ Origin(p, d)[2] = d[2] * H
    BY <1>8
  <2>2. c[1] # d[1] \/ c[2] # d[2]
    BY DEF Inhabited
  <2> DEFINE dx == c[1] * W - d[1] * W
             dy == c[2] * H - d[2] * H
  <2>3. dx \in Int /\ dy \in Int
    BY <1>2, <2>1
  <2>4. CASE c[1] # d[1]
    <3>1. Abs(dx) >= W
      BY <1>2, <2>1, <2>4, MultiplesApart
    <3> HIDE DEF dx, dy
    <3>2. QED
      BY <1>6, <2>1, <2>3, <3>1, CompatibleFar DEF dx, dy
  <2>5. CASE c[2] # d[2]
    <3>1. Abs(dy) >= H
      BY <1>2, <2>1, <2>5, MultiplesApart
    <3> HIDE DEF dx, dy
    <3>2. QED
      BY <1>6, <2>1, <2>3, <3>1, CompatibleFar DEF dx, dy
  <2>6. QED
    BY <2>2, <2>4, <2>5
<1>11. QED
  BY <1>7, <1>9, <1>10

-----------------------------------------------------------------------------
(* Rows of which every second one is shifted.                              *)

LEMMA SmallestTyped ==
  ASSUME NEW n \in Nat
  PROVE  Smallest(n) \in Nat \ {0}
<1>1. n >= 4 => (n + 3) \div 4 \in Nat \ {0}
  OBVIOUS
<1>2. QED
  BY <1>1 DEF Smallest

\* A pitch that was tried up to the clearance does for a row of any length.
LEMMA PitchApart ==
  ASSUME NEW w \in Nat \ {0}, NEW h \in Nat \ {0}, NEW gap \in Nat,
         NEW S, S \subseteq (0 .. w - 1) \X (0 .. h - 1),
         NEW x \in Pitches(S, <<w, h>>, gap)
  PROVE  /\ x \in Nat \ {0}
         /\ \A k \in Nat \ {0} : Compatible(S, gap, k * x, 0)
<1> DEFINE far == w + gap
<1>1. far \in Nat \ {0} /\ Smallest(far) \in Nat \ {0}
  <2>1. far \in Nat \ {0}
    OBVIOUS
  <2>2. QED
    BY <2>1, SmallestTyped
<1>2. \/ x = far
      \/ /\ x \in Smallest(far) .. far
         /\ \A k \in 1 .. far : k * x <= far => Compatible(S, gap, k * x, 0)
  BY DEF Pitches
<1>3. x \in Nat \ {0}
  <2> HIDE DEF far
  <2>1. QED
    BY <1>1, <1>2
<1>4. ASSUME NEW k \in Nat \ {0}
      PROVE  Compatible(S, gap, k * x, 0)
  <2>1. /\ k * x \in Int
        /\ x * k = k * x
    BY <1>3
  <2>2. x * 1 <= x * k /\ k * 1 <= k * x
    BY <1>3, Products
  <2>3. k * x >= x /\ k * x >= k
    BY <1>3, <2>1, <2>2
  <2> DEFINE dx == k * x
  <2>4. CASE dx >= far
    <3>1. dx \in Int /\ Abs(dx) >= far
      BY <1>1, <2>1, <2>4 DEF Abs
    <3> HIDE DEF dx
    <3>2. Compatible(S, gap, dx, 0)
      BY <3>1, CompatibleFar
    <3>3. QED
      BY <3>2 DEF dx
  <2>5. CASE ~(dx >= far)
    <3>1. x # far /\ k \in 1 .. far /\ k * x <= far
      <4> HIDE DEF far
      <4>1. QED
        BY <1>1, <1>3, <2>1, <2>3, <2>5
    <3>2. QED
      BY <1>2, <3>1
  <2>6. QED
    BY <2>4, <2>5
<1>5. QED
  BY <1>3, <1>4

LEMMA DivisionMonotone ==
  ASSUME NEW n \in Nat \ {0}, NEW u \in Int, NEW v \in Int, u <= v
  PROVE  u \div n <= v \div n
<1> DEFINE q == u \div n
           r == v \div n
<1>1. q \in Int /\ r \in Int /\ n * q <= u /\ v < n * r + n /\ n * q \in Int /\ n * r \in Int
  BY Division
<1> HIDE DEF q, r
<1>2. r < q => n * r + n <= n * q
  BY <1>1, StrictProducts
<1>3. q <= r
  BY <1>1, <1>2
<1>4. QED
  BY <1>3 DEF q, r

\* A cell that the division counts lies within what was divided.
LEMMA CountedFits ==
  ASSUME NEW n \in Nat \ {0}, NEW room \in Nat, NEW c \in Nat, c < 1 + room \div n
  PROVE  c * n \in Nat /\ c * n <= room
<1> DEFINE q == room \div n
<1>1. q \in Int /\ n * q \in Int /\ n * q <= room
  BY Division
<1>2. c < 1 + q
  OBVIOUS
<1> HIDE DEF q
<1>3. c <= q
  BY <1>1, <1>2
<1>4. n * c \in Int /\ n * c <= n * q
  BY <1>1, <1>3, Products
<1>5. n * c = c * n /\ c * n \in Nat
  OBVIOUS
<1>6. QED
  BY <1>1, <1>4, <1>5

\* Rows of pitch x at distance y of a motif that fits.
StaggeredOn(p, w, h, a, b, edge, x, y, shift) ==
  /\ w \in Nat \ {0} /\ h \in Nat \ {0} /\ a \in Nat /\ b \in Nat /\ edge \in Nat
  /\ w <= a - 2 * edge /\ h <= b - 2 * edge
  /\ x \in Nat \ {0} /\ y \in Nat \ {0} /\ shift \in Nat
  /\ p = Staggered(<<w, h>>, <<a, b>>, edge, x, y, shift)

LEMMA StaggeredInside ==
  ASSUME NEW p, NEW w, NEW h, NEW a, NEW b, NEW edge, NEW x, NEW y, NEW shift,
         StaggeredOn(p, w, h, a, b, edge, x, y, shift)
  PROVE  /\ Sensible(p) /\ CellsInside(p, <<w, h>>, <<a, b>>, edge)
         /\ p.width = x /\ p.height = y /\ p.rowShift = shift /\ p.oddColumns >= 0
<1>0. /\ w \in Nat \ {0} /\ h \in Nat \ {0} /\ a \in Nat /\ b \in Nat /\ edge \in Nat
      /\ w <= a - 2 * edge /\ h <= b - 2 * edge
      /\ x \in Nat \ {0} /\ y \in Nat \ {0} /\ shift \in Nat
      /\ p = Staggered(<<w, h>>, <<a, b>>, edge, x, y, shift)
  BY DEF StaggeredOn
<1> USE <1>0
<1> DEFINE room == a - 2 * edge - w
           above == b - 2 * edge - h
           m == 1 + room \div x
           odd == IF room >= shift THEN 1 + (room - shift) \div x ELSE 0
           n == IF odd = 0 THEN 1 ELSE 1 + above \div y
<1>1. p = [width |-> x, height |-> y, columns |-> m, oddColumns |-> odd,
           rows |-> n, rowShift |-> shift]
  BY DEF Staggered
<1>2. /\ p.width = x /\ p.height = y /\ p.columns = m /\ p.oddColumns = odd
      /\ p.rows = n /\ p.rowShift = shift
  BY <1>1
<1>3. /\ room \in Nat /\ above \in Nat
      /\ room = a - 2 * edge - w /\ above = b - 2 * edge - h
  OBVIOUS
<1> HIDE DEF room, above
<1>4. m \in Nat \ {0}
  <2>1. room \div x \in Nat
    BY <1>3, Quotient
  <2>2. QED
    BY <2>1
<1>5. odd \in Nat /\ odd <= m /\ (odd # 0 => room >= shift /\ odd = 1 + (room - shift) \div x)
  <2>1. CASE room >= shift
    <3>1. room - shift \in Nat /\ room - shift <= room
      BY <1>3, <2>1
    <3>2. (room - shift) \div x \in Nat /\ (room - shift) \div x <= room \div x
          /\ room \div x \in Nat
      BY <1>3, <3>1, Quotient, DivisionMonotone
    <3>3. QED
      BY <2>1, <3>2
  <2>2. CASE ~(room >= shift)
    BY <1>4, <2>2
  <2>3. QED
    BY <2>1, <2>2
<1>6. n \in Nat \ {0} /\ (n # 1 => n = 1 + above \div y)
  <2>1. above \div y \in Nat
    BY <1>3, Quotient
  <2>2. QED
    BY <2>1
<1>7. m = 1 + room \div x
  OBVIOUS
<1> HIDE DEF m, odd, n
<1>8. Sensible(p) /\ p.oddColumns >= 0
  BY <1>2, <1>4, <1>5, <1>6 DEF Sensible
<1>9. ASSUME NEW c, Inhabited(p, c)
      PROVE  WithinSheet(Origin(p, c), <<w, h>>, <<a, b>>, edge)
  <2>1. /\ c[1] \in Nat /\ c[2] \in Nat /\ c[2] < n
        /\ c[1] < IF IsOdd(p, c[2]) THEN odd ELSE m
    BY <1>2, <1>9 DEF Inhabited
  <2>2. /\ Origin(p, c)[1] = c[1] * x + Indent(p, c[2])
        /\ Origin(p, c)[2] = c[2] * y
        /\ Origin(p, c)[1] \in Nat /\ Origin(p, c)[2] \in Nat
    BY <1>2, <1>8, <1>9, OriginTyped
  <2>3. c[1] * x \in Nat /\ c[1] * x + Indent(p, c[2]) <= room
    <3>1. CASE IsOdd(p, c[2])
      <4>1. Indent(p, c[2]) = shift
        BY <1>2, <3>1 DEF IsOdd, Indent
      <4>2. c[1] < odd /\ odd # 0
        BY <1>5, <2>1, <3>1
      <4>3. room - shift \in Nat /\ c[1] < 1 + (room - shift) \div x
        BY <1>3, <1>5, <4>2
      <4>4. c[1] * x \in Nat /\ c[1] * x <= room - shift
        BY <2>1, <4>3, CountedFits
      <4>5. QED
        BY <1>3, <4>1, <4>4
    <3>2. CASE ~IsOdd(p, c[2])
      <4>1. Indent(p, c[2]) = 0
        BY <3>2 DEF IsOdd, Indent
      <4>2. c[1] < 1 + room \div x
        BY <1>7, <2>1, <3>2
      <4>3. c[1] * x \in Nat /\ c[1] * x <= room
        BY <1>3, <2>1, <4>2, CountedFits
      <4>4. QED
        BY <1>3, <4>1, <4>3
    <3>3. QED
      BY <3>1, <3>2
  <2>4. c[2] * y \in Nat /\ c[2] * y <= above
    <3>1. CASE n = 1
      <4>1. c[2] = 0
        BY <2>1, <3>1
      <4>2. QED
        BY <1>3, <4>1
    <3>2. CASE n # 1
      <4>1. c[2] < 1 + above \div y
        BY <1>6, <2>1, <3>2
      <4>2. QED
        BY <1>3, <2>1, <4>1, CountedFits
    <3>3. QED
      BY <3>1, <3>2
  <2>5. /\ Origin(p, c)[1] + w <= a - 2 * edge
        /\ Origin(p, c)[2] + h <= b - 2 * edge
    BY <1>3, <2>2, <2>3, <2>4
  <2>6. QED
    BY <2>2, <2>5 DEF WithinSheet
<1>10. QED
  BY <1>2, <1>8, <1>9 DEF CellsInside

\* The certificate of a row does for rows of any length, and rows above the
\* clearance need none.
LEMMA RowsApart ==
  ASSUME NEW w \in Nat \ {0}, NEW h \in Nat \ {0}, NEW gap \in Nat,
         NEW S, S \subseteq (0 .. w - 1) \X (0 .. h - 1),
         NEW p, Sensible(p), Certified(S, <<w, h>>, gap, p),
         NEW r \in 1 .. p.rows - 1, NEW sign \in {-1, 1}, sign > 0 \/ r + 1 < p.rows,
         NEW k \in Int,
         NEW offset, offset = IF r % 2 = 1 THEN sign * p.rowShift ELSE 0
  PROVE  Compatible(S, gap, offset + k * p.width, r * p.height)
<1>1. /\ p.width \in Nat \ {0} /\ p.height \in Nat \ {0} /\ p.rowShift \in Nat
      /\ p.rows \in Nat
  BY DEF Sensible
<1>2. r \in Nat /\ r * p.height \in Nat
  BY <1>1
<1>3. offset \in Int
  BY <1>1
<1> DEFINE dx == offset + k * p.width
           dy == r * p.height
           extent == (w + gap + Abs(offset)) \div p.width + 1
<1>4. k * p.width \in Int
  BY <1>1
<1>5. dx \in Int /\ dy \in Nat
  BY <1>2, <1>3, <1>4
<1>6. CASE dy > h + gap
  <2>1. dy \in Int /\ Abs(dy) >= h + gap
    <3> HIDE DEF dy
    <3>1. QED
      BY <1>5, <1>6 DEF Abs
  <2> HIDE DEF dx, dy
  <2>2. Compatible(S, gap, dx, dy)
    BY <1>5, <2>1, CompatibleFar
  <2>3. QED
    BY <2>2 DEF dx, dy
<1>7. CASE dy <= h + gap
  <2>1. \A i \in (-extent) .. extent :
           Compatible(S, gap, offset + i * p.width, r * p.height)
    BY <1>7 DEF Certified
  <2>2. Abs(offset) \in Nat
    BY <1>3 DEF Abs
  <2> DEFINE reach == w + gap + Abs(offset)
  <2>3. reach \in Int
    BY <2>2
  <2>4. /\ reach \div p.width \in Int
        /\ p.width * (reach \div p.width) \in Int
        /\ reach < p.width * (reach \div p.width) + p.width
    <3> HIDE DEF reach
    <3>1. QED
      BY <1>1, <2>3, Division
  <2>5. extent \in Int /\ p.width * extent \in Int /\ p.width * extent > reach
    <3>1. extent = reach \div p.width + 1
      OBVIOUS
    <3> HIDE DEF extent
    <3> DEFINE q == reach \div p.width
    <3>2. extent = q + 1 /\ q \in Int /\ p.width * q \in Int /\ reach < p.width * q + p.width
      BY <2>4, <3>1
    <3> HIDE DEF q, reach
    <3>3. p.width * (q + 1) = p.width * q + p.width
      BY <1>1, <3>2
    <3>4. QED
      BY <1>1, <2>3, <3>2, <3>3
  <2>6. reach = w + gap + Abs(offset)
    OBVIOUS
  <2> HIDE DEF extent, reach
  <2>7. CASE k \in (-extent) .. extent
    BY <2>1, <2>7
  <2>8. CASE k > extent
    <3>1. p.width * extent <= p.width * k /\ p.width * k = k * p.width
      BY <1>1, <2>5, <2>8, Products
    <3>2. Abs(dx) >= w + gap
      <4>1. k * p.width > w + gap + Abs(offset)
        BY <1>4, <2>2, <2>5, <2>6, <3>1
      <4> DEFINE t == k * p.width
      <4>2. t \in Int /\ t > w + gap + Abs(offset) /\ dx = offset + t
        BY <1>4, <4>1
      <4> HIDE DEF t, dx
      <4>3. QED
        BY <1>3, <4>2 DEF Abs
    <3> HIDE DEF dx, dy
    <3>3. Compatible(S, gap, dx, dy)
      BY <1>5, <3>2, CompatibleFar
    <3>4. QED
      BY <3>3 DEF dx, dy
  <2>9. CASE k < -extent
    <3>1. p.width * extent <= p.width * (-k) /\ p.width * (-k) = -(k * p.width)
      <4>1. -k \in Int /\ extent <= -k
        BY <2>5, <2>9
      <4>2. p.width * extent <= p.width * (-k)
        BY <1>1, <2>5, <4>1, Products
      <4>3. p.width * (-k) = -(k * p.width)
        BY <1>1
      <4>4. QED
        BY <4>2, <4>3
    <3>2. Abs(dx) >= w + gap
      <4>1. -(k * p.width) > w + gap + Abs(offset)
        BY <1>4, <2>2, <2>5, <2>6, <3>1
      <4> DEFINE t == k * p.width
      <4>2. t \in Int /\ -t > w + gap + Abs(offset) /\ dx = offset + t
        BY <1>4, <4>1
      <4> HIDE DEF t, dx
      <4>3. QED
        BY <1>3, <4>2 DEF Abs
    <3> HIDE DEF dx, dy
    <3>3. Compatible(S, gap, dx, dy)
      BY <1>5, <3>2, CompatibleFar
    <3>4. QED
      BY <3>3 DEF dx, dy
  <2>10. QED
    BY <2>5, <2>7, <2>8, <2>9
<1>8. QED
  BY <1>5, <1>6, <1>7

LEMMA Parity ==
  ASSUME NEW u \in Nat, NEW v \in Nat
  PROVE  /\ u % 2 \in {0, 1} /\ v % 2 \in {0, 1}
         /\ (u - v) % 2 = IF u % 2 = v % 2 THEN 0 ELSE 1
OBVIOUS

LEMMA StaggeredApart ==
  ASSUME NEW w \in Nat \ {0}, NEW h \in Nat \ {0}, NEW gap \in Nat,
         NEW S, S \subseteq (0 .. w - 1) \X (0 .. h - 1),
         NEW p, Sensible(p), p.oddColumns >= 0, p.width \in Pitches(S, <<w, h>>, gap),
         Certified(S, <<w, h>>, gap, p)
  PROVE  CellsApart(p, S, gap)
<1>1. S \subseteq Int \X Int
  OBVIOUS
<1>2. ASSUME NEW c, NEW d, Inhabited(p, c), Inhabited(p, d), Upwards(c, d)
      PROVE  Compatible(S, gap, Origin(p, c)[1] - Origin(p, d)[1],
                        Origin(p, c)[2] - Origin(p, d)[2])
  <2>1. /\ p.width \in Nat \ {0} /\ p.height \in Nat \ {0} /\ p.rowShift \in Nat
        /\ p.rows \in Nat
    BY DEF Sensible
  <2>2. /\ c[1] \in Nat /\ c[2] \in Nat /\ d[1] \in Nat /\ d[2] \in Nat
        /\ c[2] < p.rows /\ d[2] < p.rows
    BY <1>2 DEF Inhabited
  <2>3. /\ Origin(p, c)[1] = c[1] * p.width + Indent(p, c[2])
        /\ Origin(p, d)[1] = d[1] * p.width + Indent(p, d[2])
        /\ Origin(p, c)[2] = c[2] * p.height /\ Origin(p, d)[2] = d[2] * p.height
        /\ Indent(p, c[2]) \in Nat /\ Indent(p, d[2]) \in Nat
        /\ c[1] * p.width \in Nat /\ d[1] * p.width \in Nat
        /\ c[2] * p.height \in Nat /\ d[2] * p.height \in Nat
    BY <1>2, OriginTyped
  <2> DEFINE k == c[1] - d[1]
             r == c[2] - d[2]
             offset == Indent(p, c[2]) - Indent(p, d[2])
  <2>4. /\ k * p.width = c[1] * p.width - d[1] * p.width
        /\ r * p.height = c[2] * p.height - d[2] * p.height
        /\ k \in Int /\ r \in Int /\ offset \in Int /\ k * p.width \in Int
    BY <2>1, <2>2, <2>3
  <2>5. /\ Origin(p, c)[1] - Origin(p, d)[1] = offset + k * p.width
        /\ Origin(p, c)[2] - Origin(p, d)[2] = r * p.height
    <3> DEFINE s == Indent(p, c[2])
               t == Indent(p, d[2])
    <3>1. offset = s - t /\ s \in Nat /\ t \in Nat
      BY <2>3
    <3> HIDE DEF s, t, offset, k, r
    <3>2. Origin(p, c)[1] - Origin(p, d)[1] = (c[1] * p.width + s) - (d[1] * p.width + t)
      BY <2>3 DEF s, t
    <3>3. Origin(p, c)[1] - Origin(p, d)[1] = offset + k * p.width
      BY <2>3, <2>4, <3>1, <3>2
    <3>4. Origin(p, c)[2] - Origin(p, d)[2] = r * p.height
      BY <2>3, <2>4
    <3>5. QED
      BY <3>3, <3>4
  <2>6. CASE d[2] = c[2]
    <3>1. k \in Nat \ {0} /\ r = 0 /\ offset = 0
      <4>1. d[1] < c[1]
        BY <1>2, <2>2, <2>6 DEF Upwards
      <4>2. k \in Nat \ {0} /\ r = 0
        BY <2>2, <2>6, <4>1
      <4>3. offset = 0
        BY <2>3, <2>6
      <4>4. QED
        BY <4>2, <4>3
    <3>2. Compatible(S, gap, k * p.width, 0)
      <4> HIDE DEF k
      <4>1. QED
        BY <3>1, PitchApart
    <3>3. offset + k * p.width = k * p.width /\ r * p.height = 0
      <4> HIDE DEF k, r, offset
      <4>1. QED
        BY <2>1, <2>4, <3>1
    <3>4. QED
      BY <2>5, <3>2, <3>3
  <2>7. CASE d[2] < c[2]
    <3> DEFINE sign == IF d[2] % 2 = 1 THEN -1 ELSE 1
    <3>1. r \in 1 .. p.rows - 1
      BY <2>1, <2>2, <2>7
    <3>2. /\ c[2] % 2 \in {0, 1} /\ d[2] % 2 \in {0, 1}
          /\ r % 2 = IF c[2] % 2 = d[2] % 2 THEN 0 ELSE 1
      BY <2>2, Parity
    <3>3. /\ Indent(p, c[2]) = IF c[2] % 2 = 1 THEN p.rowShift ELSE 0
          /\ Indent(p, d[2]) = IF d[2] % 2 = 1 THEN p.rowShift ELSE 0
      BY DEF Indent
    <3>4. offset = IF r % 2 = 1 THEN sign * p.rowShift ELSE 0
      <4>1. CASE c[2] % 2 = d[2] % 2
        <5>1. r % 2 = 0
          BY <3>2, <4>1
        <5>2. offset = 0
          BY <2>1, <3>3, <4>1
        <5> HIDE DEF offset, r
        <5>3. QED
          BY <5>1, <5>2
      <4>2. CASE c[2] % 2 = 1 /\ d[2] % 2 = 0
        <5>1. r % 2 = 1
          BY <3>2, <4>2
        <5>2. Indent(p, c[2]) = p.rowShift /\ Indent(p, d[2]) = 0
          BY <3>3, <4>2
        <5>3. offset = p.rowShift
          BY <2>1, <5>2
        <5>4. sign = 1
          BY <4>2
        <5> HIDE DEF offset, r, sign
        <5>5. QED
          BY <2>1, <5>1, <5>3, <5>4
      <4>3. CASE c[2] % 2 = 0 /\ d[2] % 2 = 1
        <5>1. r % 2 = 1
          BY <3>2, <4>3
        <5>2. Indent(p, c[2]) = 0 /\ Indent(p, d[2]) = p.rowShift
          BY <3>3, <4>3
        <5>3. offset = -p.rowShift
          BY <2>1, <5>2
        <5>4. sign = -1
          BY <4>3
        <5> HIDE DEF offset, r, sign
        <5>5. QED
          BY <2>1, <5>1, <5>3, <5>4
      <4>4. QED
        BY <3>2, <4>1, <4>2, <4>3
    <3>5. sign \in {-1, 1} /\ (sign > 0 \/ r + 1 < p.rows)
      <4>1. CASE d[2] % 2 = 1
        <5>1. d[2] # 0
          BY <4>1
        <5>2. r + 1 < p.rows
          BY <2>1, <2>2, <5>1
        <5>3. QED
          BY <4>1, <5>2
      <4>2. CASE d[2] % 2 # 1
        BY <4>2
      <4>3. QED
        BY <4>1, <4>2
    <3> HIDE DEF k, r, offset, sign
    <3>6. Compatible(S, gap, offset + k * p.width, r * p.height)
      BY <2>4, <3>1, <3>4, <3>5, RowsApart
    <3>7. QED
      BY <2>5, <3>6
  <2>8. QED
    BY <1>2, <2>6, <2>7 DEF Upwards
<1>3. QED
  BY <1>1, <1>2, UpwardsSuffices

LEMMA InterlockingRows ==
  ASSUME NEW S, NEW size, NEW plate, NEW gap, NEW edge,
         NEW p \in Interlocking(S, size, plate, gap, edge)
  PROVE  /\ ~(size[1] > plate[1] - 2 * edge \/ size[2] > plate[2] - 2 * edge)
         /\ Certified(S, size, gap, p)
         /\ \E x \in Pitches(S, size, gap) :
              \E y \in Smallest(size[2] + gap) .. size[2] + gap,
                 shift \in {0, x \div 4, x \div 2, (3 * x) \div 4} :
                p = Staggered(size, plate, edge, x, y, shift)
<1> DEFINE Rows(x) == {Staggered(size, plate, edge, x, y, shift) :
                          y \in Smallest(size[2] + gap) .. size[2] + gap,
                          shift \in {0, x \div 4, x \div 2, (3 * x) \div 4}}
           All == UNION {Rows(x) : x \in Pitches(S, size, gap)}
           TooLarge == size[1] > plate[1] - 2 * edge \/ size[2] > plate[2] - 2 * edge
<1>1. Interlocking(S, size, plate, gap, edge) =
        IF TooLarge THEN {} ELSE {q \in All : Certified(S, size, gap, q)}
  BY DEF Interlocking
<1> HIDE DEF All, TooLarge
<1>2. ~TooLarge /\ p \in All /\ Certified(S, size, gap, p)
  BY <1>1
<1> HIDE DEF Rows
<1>3. PICK x \in Pitches(S, size, gap) : p \in Rows(x)
  BY <1>2 DEF All
<1>4. \E y \in Smallest(size[2] + gap) .. size[2] + gap,
         shift \in {0, x \div 4, x \div 2, (3 * x) \div 4} :
        p = Staggered(size, plate, edge, x, y, shift)
  BY <1>3 DEF Rows
<1>5. QED
  BY <1>2, <1>4 DEF TooLarge

LEMMA StaggeredLaidOut ==
  ASSUME NEW w \in Nat \ {0}, NEW h \in Nat \ {0}, NEW a \in Nat, NEW b \in Nat,
         NEW gap \in Nat, NEW edge \in Nat,
         NEW S, S \subseteq (0 .. w - 1) \X (0 .. h - 1),
         NEW p \in Interlocking(S, <<w, h>>, <<a, b>>, gap, edge)
  PROVE  Sensible(p) /\ CellsInside(p, <<w, h>>, <<a, b>>, edge) /\ CellsApart(p, S, gap)
<1> DEFINE size == <<w, h>>
           plate == <<a, b>>
<1>1. /\ ~(size[1] > plate[1] - 2 * edge \/ size[2] > plate[2] - 2 * edge)
      /\ Certified(S, size, gap, p)
  BY InterlockingRows, Zenon
<1>2. PICK x \in Pitches(S, size, gap) :
        \E y \in Smallest(size[2] + gap) .. size[2] + gap,
           shift \in {0, x \div 4, x \div 2, (3 * x) \div 4} :
          p = Staggered(size, plate, edge, x, y, shift)
  <2>1. p \in Interlocking(S, size, plate, gap, edge)
    OBVIOUS
  <2> HIDE DEF size, plate
  <2>2. QED
    BY <2>1, InterlockingRows
<1>3. PICK y \in Smallest(size[2] + gap) .. size[2] + gap,
           shift \in {0, x \div 4, x \div 2, (3 * x) \div 4} :
        p = Staggered(size, plate, edge, x, y, shift)
  BY <1>2, Zenon
<1>4. size[1] = w /\ size[2] = h /\ plate[1] = a /\ plate[2] = b
  OBVIOUS
<1> HIDE DEF size, plate
<1>5. w <= a - 2 * edge /\ h <= b - 2 * edge
  BY <1>1, <1>4
<1>6. x \in Nat \ {0}
  BY PitchApart DEF size
<1>7. y \in Nat \ {0}
  <2>1. h + gap \in Nat /\ Smallest(h + gap) \in Nat \ {0}
    BY SmallestTyped
  <2>2. y \in Smallest(h + gap) .. h + gap
    BY <1>4
  <2>3. QED
    BY <2>1, <2>2
<1>8. shift \in Nat
  <2>1. x \div 4 \in Nat /\ x \div 2 \in Nat /\ (3 * x) \div 4 \in Nat
    BY <1>6
  <2>2. QED
    BY <2>1
<1>9. /\ Sensible(p) /\ CellsInside(p, size, plate, edge)
      /\ p.width = x /\ p.oddColumns >= 0
  <2>1. p = Staggered(<<w, h>>, <<a, b>>, edge, x, y, shift)
    BY <1>3 DEF size, plate
  <2>2. StaggeredOn(p, w, h, a, b, edge, x, y, shift)
    BY <1>5, <1>6, <1>7, <1>8, <2>1 DEF StaggeredOn
  <2>3. QED
    BY <2>2, StaggeredInside DEF size, plate
<1>10. CellsApart(p, S, gap)
  <2>1. p.width \in Pitches(S, <<w, h>>, gap)
    BY <1>9 DEF size
  <2>2. Certified(S, <<w, h>>, gap, p)
    BY <1>1 DEF size
  <2>3. QED
    BY <1>9, <2>1, <2>2, StaggeredApart
<1>11. QED
  BY <1>9, <1>10 DEF size, plate

\* A pattern fills as many places as its capacity promises, all on the sheet, and
\* no two of them in conflict, whatever the motif, the clearances and the sheet, and
\* in all directions: what was certified of the neighbours holds of all pairs.
THEOREM PatternsLaidOut ==
  ASSUME NEW fill \in Flows, NEW w \in MotifSides, NEW h \in MotifSides,
         NEW a \in SheetSides, NEW b \in SheetSides, NEW gap \in Gaps, NEW edge \in Edges,
         NEW S \in Motifs(<<w, h>>),
         NEW p \in GridPatterns(<<w, h>>, <<a, b>>, gap, edge) \cup
                  Interlocking(S, <<w, h>>, <<a, b>>, gap, edge)
  PROVE  /\ LaidOut(p, S, <<w, h>>, <<a, b>>, gap, edge, fill)
         /\ NoConflicts(p, S, gap, fill)
<1>1. /\ w \in Nat \ {0} /\ h \in Nat \ {0} /\ a \in Nat /\ b \in Nat
      /\ gap \in Nat /\ edge \in Nat
  BY PatternAssumption DEF PatternAssumption
<1>2. S \subseteq (0 .. w - 1) \X (0 .. h - 1)
  BY DEF Motifs
<1>3. Sensible(p) /\ CellsInside(p, <<w, h>>, <<a, b>>, edge) /\ CellsApart(p, S, gap)
  <2>1. CASE p \in GridPatterns(<<w, h>>, <<a, b>>, gap, edge)
    BY <1>1, <1>2, <2>1, GridLaidOut
  <2>2. CASE p \in Interlocking(S, <<w, h>>, <<a, b>>, gap, edge)
    BY <1>1, <1>2, <2>2, StaggeredLaidOut
  <2>3. QED
    BY <2>1, <2>2
<1>4. QED
  BY <1>3, CellsSuffice

LEMMA AllPatterns == \A fill \in Flows : AllLaidOut(fill)
BY PatternsLaidOut DEF AllLaidOut

LEMMA FlowTyped == RefineSpec => [](flow \in Flows)
<1>1. RefineInit => flow \in Flows
  BY DEF RefineInit, Flows
<1>2. flow \in Flows /\ [RefineNext]_<<vars, space, refined>> => (flow \in Flows)'
  <2> SUFFICES ASSUME flow \in Flows, [RefineNext]_<<vars, space, refined>>
               PROVE  flow' \in Flows
    OBVIOUS
  <2>1. CASE UNCHANGED refined
    BY <2>1 DEF refined
  <2>2. CASE RefineBegins
    BY <2>2 DEF RefineBegins
  <2>3. CASE RefineExpires \/ Turn \/ Grow \/ Halve \/ Commit \/ NextPass \/ StopBetween
    BY <2>3 DEF RefineExpires, Turn, Grow, Halve, Commit, NextPass, StopBetween, Still
  <2>4. CASE RepairBegins \/ Host \/ Donor \/ RepairEnds
    BY <2>4 DEF RepairBegins, Host, Donor, RepairEnds, Still
  <2>5. QED
    BY <2>1, <2>2, <2>3, <2>4 DEF RefineNext
<1>3. QED
  BY <1>1, <1>2, PTL DEF RefineSpec

\* In whichever direction the sheet is filled, its patterns are laid out as promised.
THEOREM PatternLaidOutAlways == RefineSpec => []PatternLaidOut
<1>1. flow \in Flows => PatternLaidOut
  BY AllPatterns, Zenon DEF PatternLaidOut, Directions
<1>2. QED
  BY <1>1, FlowTyped, PTL

=============================================================================
