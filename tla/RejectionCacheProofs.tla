------------------------- MODULE RejectionCacheProofs -------------------------
(***************************************************************************)
(* Proofs, for any strategies, sizes and limit, that the budget accounts   *)
(* for every page and never exceeds its limit.  The argument counts two    *)
(* finite sets, the pages that exist and the reservations under way; a     *)
(* reservation is only ever made for a page that does not exist yet.  The  *)
(* peak may lag behind, but then the strategy that raised the use to its   *)
(* highest value has yet to report it.  The scan for the next candidate is *)
(* a recursive function: its equation has one solution, the first position *)
(* that is not rejected, because a word lies in one page.                  *)
(*                                                                         *)
(* The second part is about the trials that share the budget.  Each trial  *)
(* that was started is being made, has ended, with the score it deserves   *)
(* if time is not over, or the run fails; and a worker that leaves early   *)
(* has been told to stop.  So what is returned is a choice among scores    *)
(* that no schedule can change.                                            *)
(***************************************************************************)
EXTENDS StrategyTrials, FiniteSetTheorems, WellFoundedInduction, TLAPS

FiniteInv == IsFiniteSet(Owned) /\ \A s \in Strategies : IsFiniteSet(pages[s])

\* A strategy that reserves a page does not have it.
MissingInv ==
  \A s \in Strategies :
    at[s] \in {"swapping", "loading", "raising", "allocating"} =>
      origin[s] \in Origins /\ Page(origin[s]) \notin pages[s]

IInv == TypeOK /\ FiniteInv /\ MissingInv /\ Accounted /\ WithinLimit

Owed == {"loading", "raising"}

\* A strategy that still compares the peak has read a value the peak had, and
\* what a strategy has to report is no more than the highest use.
ReportInv ==
  /\ peak <= highest
  /\ \A s \in Strategies :
       /\ at[s] = "raising" => readPeak[s] <= peak
       /\ at[s] \in Owed => read[s] + PageCost <= highest

\* As long as the peak is not the highest use, a strategy is about to report it.
OwedInv ==
  highest <= peak \/ \E s \in Strategies : at[s] \in Owed
                                         /\ highest = read[s] + PageCost

PeakInv == ReportInv /\ OwedInv

LEMMA ReservingFinite ==
  IsFiniteSet(Reserving) /\ Cardinality(Reserving) \in Nat
<1>1. Reserving \in SUBSET Strategies
  BY DEF Reserving
<1>2. QED
  BY <1>1, CacheAssumption, FS_Subset, FS_CardinalityType DEF CacheAssumption

LEMMA OwnedCounted == FiniteInv => Cardinality(Owned) \in Nat
BY FS_CardinalityType DEF FiniteInv

\* How the counts of the two sets enter the budget.
LEMMA CostOfSum ==
  \A a, b, c \in Nat : /\ PageCost * (a + b) \in Nat
                       /\ PageCost * (a + b + 1) = PageCost * (a + b) + PageCost
                       /\ PageCost * (a + b + c)
                            = PageCost * (a + b) + PageCost * c
                       /\ PageCost * c \in Nat
BY CacheAssumption DEF CacheAssumption

\* A strategy that starts to reserve is counted once more.
LEMMA ReservingGrows ==
  ASSUME NEW s \in Strategies, s \notin Reserving,
         Reserving' = Reserving \cup {s}
  PROVE  Cardinality(Reserving') = Cardinality(Reserving) + 1
BY ReservingFinite, FS_AddElement

LEMMA ReservingShrinks ==
  ASSUME NEW s \in Strategies, s \in Reserving, Reserving' = Reserving \ {s}
  PROVE  /\ Cardinality(Reserving') \in Nat
         /\ Cardinality(Reserving) = Cardinality(Reserving') + 1
<1>1. Cardinality(Reserving') = Cardinality(Reserving) - 1
      /\ IsFiniteSet(Reserving')
  BY ReservingFinite, FS_RemoveElement
<1>2. Cardinality(Reserving') \in Nat
  BY <1>1, FS_CardinalityType
<1>3. QED
  BY <1>1, <1>2, ReservingFinite

\* The pages of one strategy are part of all pages, and counted like pairs.
LEMMA PagesCounted ==
  ASSUME TypeOK, FiniteInv, NEW s \in Strategies
  PROVE  /\ Cardinality(pages[s]) \in Nat
         /\ IsFiniteSet(Owned \ ({s} \X pages[s]))
         /\ Cardinality(Owned \ ({s} \X pages[s])) \in Nat
         /\ Cardinality(Owned) = Cardinality(Owned \ ({s} \X pages[s]))
                                   + Cardinality(pages[s])
<1>1. IsFiniteSet({s}) /\ Cardinality({s}) = 1
  BY FS_Singleton
<1>2. IsFiniteSet(pages[s]) /\ IsFiniteSet(Owned)
  BY DEF FiniteInv
<1>3. Cardinality(pages[s]) \in Nat /\ Cardinality(Owned) \in Nat
  BY <1>2, FS_CardinalityType
<1>4. Cardinality({s} \X pages[s]) = Cardinality(pages[s])
  <2>1. Cardinality({s} \X pages[s]) = Cardinality({s}) * Cardinality(pages[s])
    BY <1>1, <1>2, FS_Product
  <2>2. QED
    BY <1>1, <1>3, <2>1
<1>5. Owned \cap ({s} \X pages[s]) = {s} \X pages[s]
  BY DEF Owned
<1>6. IsFiniteSet(Owned \ ({s} \X pages[s]))
      /\ Cardinality(Owned \ ({s} \X pages[s]))
           = Cardinality(Owned) - Cardinality(Owned \cap ({s} \X pages[s]))
  BY <1>2, FS_Difference
<1>7. Cardinality(Owned \ ({s} \X pages[s])) \in Nat
  BY <1>6, FS_CardinalityType
<1>8. Cardinality(Owned \ ({s} \X pages[s]))
        = Cardinality(Owned) - Cardinality(pages[s])
  BY <1>4, <1>5, <1>6, Zenon
<1>9. \A a, b, c \in Nat : a = b - c => b = a + c
  OBVIOUS
<1>10. Cardinality(Owned) = Cardinality(Owned \ ({s} \X pages[s]))
                             + Cardinality(pages[s])
  BY <1>3, <1>7, <1>8, <1>9, ZenonT(30)
<1>11. QED
  BY <1>3, <1>6, <1>7, <1>10

LEMMA InitIInv == Init => IInv
<1> SUFFICES ASSUME Init PROVE IInv
  OBVIOUS
<1>1. TypeOK
  <2>1. /\ origin \in [Strategies -> Origins \cup {0}]
        /\ pages \in [Strategies -> SUBSET Pages]
        /\ rejected \in [Strategies -> SUBSET Origins]
    BY Zenon DEF Init
  <2>2. QED
    BY <2>1 DEF Init, TypeOK
<1>2. Owned = {} /\ Reserving = {}
  BY DEF Init, Owned, Reserving
<1>3. Cardinality(Owned) = 0 /\ Cardinality(Reserving) = 0 /\ IsFiniteSet(Owned)
  BY <1>2, FS_EmptySet
<1>4. FiniteInv
  BY <1>3, FS_EmptySet DEF Init, FiniteInv
<1>5. MissingInv
  BY DEF Init, MissingInv
<1>6. Accounted
  BY <1>3, CacheAssumption DEF Init, Accounted, CacheAssumption
<1>7. WithinLimit
  BY CacheAssumption DEF Init, WithinLimit, CacheAssumption
<1>8. QED
  BY <1>1, <1>4, <1>5, <1>6, <1>7 DEF IInv

\* The steps that move neither a page nor a reservation.
Quiet(s) ==
  \/ \E i \in Origins : InsertKnown(s, i) \/ ReserveBegins(s, i)
  \/ Refused(s) \/ SwapFails(s)
  \/ PeakLoaded(s) \/ Raise(s) \/ RaiseFails(s) \/ PeakHigher(s)

LEMMA QuietStep ==
  ASSUME IInv, NEW s \in Strategies, Quiet(s)
  PROVE  TypeOK' /\ used' = used /\ pages' = pages /\ Reserving' = Reserving
<1> USE CacheAssumption
    DEF CacheAssumption, IInv, TypeOK, Goto, counters, locals, cache, Reserving
<1>1. CASE \E i \in Origins : InsertKnown(s, i)
  BY <1>1 DEF InsertKnown
<1>2. CASE \E i \in Origins : ReserveBegins(s, i)
  BY <1>2 DEF ReserveBegins
<1>3. CASE Refused(s) \/ SwapFails(s)
  BY <1>3 DEF Refused, SwapFails, Forgets
<1>4. CASE PeakLoaded(s) \/ Raise(s) \/ RaiseFails(s) \/ PeakHigher(s)
  BY <1>4 DEF PeakLoaded, Raise, RaiseFails, PeakHigher
<1>5. QED
  BY <1>1, <1>2, <1>3, <1>4 DEF Quiet

LEMMA QuietMissing ==
  ASSUME IInv, NEW s \in Strategies, Quiet(s)
  PROVE  MissingInv'
<1> USE DEF IInv, TypeOK, MissingInv, Goto, counters, locals, cache
<1>1. CASE \E i \in Origins : InsertKnown(s, i)
  BY <1>1 DEF InsertKnown
<1>2. CASE \E i \in Origins : ReserveBegins(s, i)
  BY <1>2 DEF ReserveBegins
<1>3. CASE Refused(s) \/ SwapFails(s)
  BY <1>3 DEF Refused, SwapFails, Forgets
<1>4. CASE PeakLoaded(s) \/ Raise(s) \/ RaiseFails(s) \/ PeakHigher(s)
  BY <1>4 DEF PeakLoaded, Raise, RaiseFails, PeakHigher
<1>5. QED
  BY <1>1, <1>2, <1>3, <1>4 DEF Quiet

LEMMA QuietIInv ==
  ASSUME IInv, NEW s \in Strategies, Quiet(s)
  PROVE  IInv'
<1>1. Owned' = Owned
  BY QuietStep DEF Owned
<1>2. FiniteInv'
  BY <1>1, QuietStep DEF IInv, FiniteInv
<1>3. Accounted' /\ WithinLimit'
  BY <1>1, QuietStep DEF IInv, Accounted, WithinLimit
<1>4. QED
  BY <1>2, <1>3, QuietStep, QuietMissing DEF IInv

\* Reserving adds the cost of one page, and only if it fits.
LEMMA SwapIInv ==
  ASSUME IInv, NEW s \in Strategies, Swap(s)
  PROVE  IInv'
<1> USE CacheAssumption DEF CacheAssumption
<1>1. TypeOK'
  BY DEF IInv, TypeOK, Swap, Goto, locals, cache
<1>2. pages' = pages /\ origin' = origin /\ Owned' = Owned
  BY DEF Swap, cache, locals, Owned
<1>3. FiniteInv'
  BY <1>2 DEF IInv, FiniteInv
<1>4. MissingInv'
  BY <1>2 DEF IInv, TypeOK, MissingInv, Swap, Goto
<1>5. s \notin Reserving /\ Reserving' = Reserving \cup {s}
  BY DEF IInv, TypeOK, Swap, Goto, Reserving
<1>6. Cardinality(Reserving') = Cardinality(Reserving) + 1
  BY <1>5, ReservingGrows
<1>7. Accounted'
  <2>1. used' = used + PageCost
    BY DEF Swap
  <2>2. /\ used = PageCost * (Cardinality(Owned) + Cardinality(Reserving))
        /\ Cardinality(Owned) \in Nat
        /\ Cardinality(Reserving) \in Nat
    BY OwnedCounted, ReservingFinite DEF IInv, Accounted
  <2>3. used' = PageCost * (Cardinality(Owned) + Cardinality(Reserving) + 1)
    BY <2>1, <2>2, CostOfSum
  <2>4. Cardinality(Owned) + Cardinality(Reserving) + 1
          = Cardinality(Owned') + Cardinality(Reserving')
    BY <1>2, <1>6, <2>2
  <2>5. QED
    BY <2>3, <2>4, Zenon DEF Accounted
<1>8. WithinLimit'
  BY DEF IInv, TypeOK, WithinLimit, Swap, Fits
<1>9. QED
  BY <1>1, <1>3, <1>4, <1>7, <1>8 DEF IInv

\* Allocating turns a reservation into a page.
LEMMA AllocatesIInv ==
  ASSUME IInv, NEW s \in Strategies, Allocates(s)
  PROVE  IInv'
<1>1. origin[s] \in Origins /\ Page(origin[s]) \notin pages[s]
  BY DEF IInv, MissingInv, Allocates, Goto
<1>2. Page(origin[s]) \in Pages
  BY <1>1 DEF Pages
<1>3. TypeOK'
  <2>1. pages' \in [Strategies -> SUBSET Pages]
    BY <1>2 DEF IInv, TypeOK, Allocates
  <2>2. rejected' \in [Strategies -> SUBSET Origins]
    BY <1>1 DEF IInv, TypeOK, Allocates
  <2>3. QED
    BY <2>1, <2>2 DEF IInv, TypeOK, Allocates, Goto, counters, Forgets
<1>4. /\ Owned' = Owned \cup {<<s, Page(origin[s])>>}
      /\ <<s, Page(origin[s])>> \notin Owned
  BY <1>1 DEF IInv, TypeOK, Allocates, Owned
<1>5. FiniteInv'
  <2>1. IsFiniteSet(Owned')
    BY <1>4, FS_AddElement DEF IInv, FiniteInv
  <2>2. IsFiniteSet(pages[s] \cup {Page(origin[s])})
    BY FS_AddElement DEF IInv, FiniteInv
  <2>3. QED
    BY <2>1, <2>2 DEF IInv, TypeOK, FiniteInv, Allocates
<1>6. MissingInv'
  BY DEF IInv, TypeOK, MissingInv, Allocates, Goto, Forgets
<1>7. s \in Reserving /\ Reserving' = Reserving \ {s}
  BY DEF IInv, TypeOK, Allocates, Goto, Reserving
<1>8. /\ Cardinality(Reserving') \in Nat
      /\ Cardinality(Reserving) = Cardinality(Reserving') + 1
  BY <1>7, ReservingShrinks
<1>9. Cardinality(Owned) \in Nat /\ Cardinality(Owned') = Cardinality(Owned) + 1
  BY <1>4, OwnedCounted, FS_AddElement DEF IInv, FiniteInv
<1>10. Accounted'
  <2>1. used' = PageCost * (Cardinality(Owned) + Cardinality(Reserving))
    BY DEF IInv, Accounted, Allocates, counters
  <2>2. Cardinality(Owned) + Cardinality(Reserving)
          = Cardinality(Owned') + Cardinality(Reserving')
    BY <1>8, <1>9
  <2>3. QED
    BY <2>1, <2>2, Zenon DEF Accounted
<1>11. WithinLimit'
  BY DEF IInv, WithinLimit, Allocates, counters
<1>12. QED
  BY <1>3, <1>5, <1>6, <1>10, <1>11 DEF IInv

\* A failed allocation gives back what was reserved for it.
LEMMA AllocateThrowsIInv ==
  ASSUME IInv, NEW s \in Strategies, AllocateThrows(s)
  PROVE  IInv'
<1> USE CacheAssumption DEF CacheAssumption
<1>1. pages' = pages /\ Owned' = Owned
  BY DEF AllocateThrows, cache, Owned
<1>2. FiniteInv'
  BY <1>1 DEF IInv, FiniteInv
<1>3. MissingInv'
  BY DEF IInv, TypeOK, MissingInv, AllocateThrows, Goto, cache, Forgets
<1>4. s \in Reserving /\ Reserving' = Reserving \ {s}
  BY DEF IInv, TypeOK, AllocateThrows, Goto, Reserving
<1>5. /\ Cardinality(Reserving') \in Nat
      /\ Cardinality(Reserving) = Cardinality(Reserving') + 1
  BY <1>4, ReservingShrinks
<1>6. Cardinality(Owned) \in Nat
  BY OwnedCounted DEF IInv
<1>7. /\ used = PageCost * (Cardinality(Owned) + Cardinality(Reserving')) + PageCost
      /\ PageCost * (Cardinality(Owned) + Cardinality(Reserving')) \in Nat
  <2>1. used = PageCost * (Cardinality(Owned) + Cardinality(Reserving))
    BY DEF IInv, Accounted
  <2>2. Cardinality(Owned) + Cardinality(Reserving)
          = Cardinality(Owned) + Cardinality(Reserving') + 1
    BY <1>5, <1>6
  <2>3. used = PageCost * (Cardinality(Owned) + Cardinality(Reserving') + 1)
    BY <2>1, <2>2, Zenon
  <2>4. QED
    BY <1>5, <1>6, <2>3, CostOfSum
<1>8. used' = PageCost * (Cardinality(Owned) + Cardinality(Reserving'))
  BY <1>7 DEF AllocateThrows
<1>9. Accounted'
  BY <1>1, <1>8, Zenon DEF Accounted
<1>10. TypeOK'
  <2>1. used' \in Nat
    BY <1>7, <1>8, Zenon
  <2>2. QED
    BY <2>1 DEF IInv, TypeOK, AllocateThrows, Goto, Forgets, cache
<1>11. WithinLimit'
  BY <1>7 DEF IInv, TypeOK, WithinLimit, AllocateThrows
<1>12. QED
  BY <1>2, <1>3, <1>9, <1>10, <1>11 DEF IInv

\* The destructor gives back exactly the pages of its strategy.
LEMMA DestroyedIInv ==
  ASSUME IInv, NEW s \in Strategies, Destroyed(s)
  PROVE  IInv'
<1> USE CacheAssumption DEF CacheAssumption
<1> DEFINE Rest == Owned \ ({s} \X pages[s])
           Own == Cardinality(pages[s])
<1>1. Owned' = Rest
  BY DEF IInv, TypeOK, Destroyed, Owned
<1>2. /\ Own \in Nat
      /\ IsFiniteSet(Rest)
      /\ Cardinality(Rest) \in Nat
      /\ Cardinality(Owned) = Cardinality(Rest) + Own
  BY PagesCounted DEF IInv
<1>3. FiniteInv'
  BY <1>1, <1>2, FS_EmptySet DEF IInv, TypeOK, FiniteInv, Destroyed
<1>4. MissingInv'
  BY DEF IInv, TypeOK, MissingInv, Destroyed, Goto, locals
<1>5. Reserving' = Reserving
  BY DEF IInv, TypeOK, Destroyed, Goto, Reserving
<1>6. /\ used = PageCost * (Cardinality(Rest) + Cardinality(Reserving))
                  + PageCost * Own
      /\ PageCost * (Cardinality(Rest) + Cardinality(Reserving)) \in Nat
      /\ PageCost * Own \in Nat
  <2>1. used = PageCost * (Cardinality(Owned) + Cardinality(Reserving))
    BY DEF IInv, Accounted
  <2> HIDE DEF Rest, Own
  <2>2. Cardinality(Owned) + Cardinality(Reserving)
          = Cardinality(Rest) + Cardinality(Reserving) + Own
    BY <1>2, ReservingFinite
  <2>3. used = PageCost * (Cardinality(Rest) + Cardinality(Reserving) + Own)
    BY <2>1, <2>2, Zenon
  <2>4. QED
    BY <1>2, <2>3, CostOfSum, ReservingFinite
<1>7. used' = used - PageCost * Own
  BY DEF Destroyed
<1>8. used' = PageCost * (Cardinality(Rest) + Cardinality(Reserving))
  <2> HIDE DEF Rest, Own
  <2> QED
    BY <1>6, <1>7
<1>9. Accounted'
  BY <1>1, <1>5, <1>8, Zenon DEF Accounted
<1>10. TypeOK'
  <2>1. used' \in Nat
    BY <1>6, <1>8, Zenon
  <2>2. /\ pages' \in [Strategies -> SUBSET Pages]
        /\ rejected' \in [Strategies -> SUBSET Origins]
    BY DEF IInv, TypeOK, Destroyed
  <2>3. QED
    BY <2>1, <2>2 DEF IInv, TypeOK, Destroyed, Goto, locals
<1>11. WithinLimit'
  <2>1. used' <= used
    <3> HIDE DEF Rest, Own
    <3> QED
      BY <1>6, <1>7 DEF IInv, TypeOK
  <2>2. used' \in Nat
    BY <1>6, <1>8, Zenon
  <2>3. QED
    BY <2>1, <2>2 DEF IInv, TypeOK, WithinLimit
<1>12. QED
  BY <1>3, <1>4, <1>9, <1>10, <1>11 DEF IInv

LEMMA StepIInv == IInv /\ [Next]_vars => IInv'
<1> SUFFICES ASSUME IInv, [Next]_vars PROVE IInv'
  OBVIOUS
<1>1. CASE UNCHANGED vars
  BY <1>1 DEF vars, counters, locals, cache, IInv, TypeOK, FiniteInv, Owned,
              MissingInv, Accounted, Reserving, WithinLimit
<1>2. ASSUME NEW s \in Strategies, Quiet(s) PROVE IInv'
  BY <1>2, QuietIInv
<1>3. ASSUME NEW s \in Strategies, Swap(s) PROVE IInv'
  BY <1>3, SwapIInv
<1>4. ASSUME NEW s \in Strategies, Allocates(s) PROVE IInv'
  BY <1>4, AllocatesIInv
<1>5. ASSUME NEW s \in Strategies, AllocateThrows(s) PROVE IInv'
  BY <1>5, AllocateThrowsIInv
<1>6. ASSUME NEW s \in Strategies, Destroyed(s) PROVE IInv'
  BY <1>6, DestroyedIInv
<1>7. QED
  BY <1>1, <1>2, <1>3, <1>4, <1>5, <1>6 DEF Next, Searches, Quiet

LEMMA InitPeakInv == Init => PeakInv
BY DEF Init, PeakInv, ReportInv, OwedInv, Owed

\* The peak is loaded and raised by comparing and swapping.
LEMMA ReportStep ==
  ASSUME TypeOK, PeakInv, NEW s \in Strategies,
         PeakLoaded(s) \/ Raise(s) \/ RaiseFails(s) \/ PeakHigher(s)
  PROVE  PeakInv'
<1> USE CacheAssumption
    DEF CacheAssumption, TypeOK, PeakInv, ReportInv, OwedInv, Owed, Goto,
        counters, cache, locals
<1>1. CASE PeakLoaded(s)
  BY <1>1 DEF PeakLoaded
<1>2. CASE Raise(s)
  BY <1>2 DEF Raise
<1>3. CASE RaiseFails(s)
  BY <1>3 DEF RaiseFails
<1>4. CASE PeakHigher(s)
  BY <1>4 DEF PeakHigher
<1>5. QED
  BY <1>1, <1>2, <1>3, <1>4

\* Only a reservation raises the use, and it has to be reported.
LEMMA SwapPeakInv ==
  ASSUME TypeOK, PeakInv, NEW s \in Strategies, Swap(s)
  PROVE  PeakInv'
BY CacheAssumption
   DEF CacheAssumption, TypeOK, PeakInv, ReportInv, OwedInv, Owed, Goto, Swap,
       locals

\* No other step touches the peak or what is owed to it.
LEMMA OtherPeakInv ==
  ASSUME TypeOK, PeakInv, NEW s \in Strategies,
         \/ \E i \in Origins : InsertKnown(s, i) \/ ReserveBegins(s, i)
         \/ Refused(s) \/ SwapFails(s) \/ Allocates(s)
         \/ AllocateThrows(s) \/ Destroyed(s)
  PROVE  PeakInv'
<1> USE DEF TypeOK, PeakInv, ReportInv, OwedInv, Owed, Goto, counters, locals,
            Forgets
<1>1. CASE \E i \in Origins : InsertKnown(s, i)
  BY <1>1 DEF InsertKnown
<1>2. CASE \E i \in Origins : ReserveBegins(s, i)
  BY <1>2 DEF ReserveBegins
<1>3. CASE Refused(s) \/ SwapFails(s)
  BY <1>3 DEF Refused, SwapFails
<1>4. CASE Allocates(s)
  BY <1>4 DEF Allocates
<1>5. CASE AllocateThrows(s)
  BY <1>5 DEF AllocateThrows
<1>6. CASE Destroyed(s)
  BY <1>6 DEF Destroyed
<1>7. QED
  BY <1>1, <1>2, <1>3, <1>4, <1>5, <1>6

LEMMA StepPeakInv == TypeOK /\ PeakInv /\ [Next]_vars => PeakInv'
<1> SUFFICES ASSUME TypeOK, PeakInv, [Next]_vars PROVE PeakInv'
  OBVIOUS
<1>1. CASE UNCHANGED vars
  BY <1>1 DEF vars, counters, locals, PeakInv, ReportInv, OwedInv
<1>2. CASE Next
  <2>1. PICK s \in Strategies : Searches(s) \/ AllocateThrows(s) \/ Destroyed(s)
    BY <1>2 DEF Next
  <2>2. QED
    BY <2>1, ReportStep, SwapPeakInv, OtherPeakInv DEF Searches
<1>3. QED
  BY <1>1, <1>2

\* Without reservations under way nothing is owed to the peak.
LEMMA PeakInvSeen == TypeOK /\ PeakInv => PeakSeen
BY DEF TypeOK, PeakInv, ReportInv, OwedInv, Owed, PeakSeen, Reserving

\* The counters and the caches keep their types, for any strategies and sizes:
\* in particular the budget is never given back below zero.
THEOREM TypeCorrect == Spec => []TypeOK
<1>1. IInv => TypeOK
  BY DEF IInv
<1>2. QED
  BY <1>1, InitIInv, StepIInv, PTL DEF Spec

\* The budget is the cost of the pages that exist or are being allocated, all
\* strategies together stay within the limit, and the peak that is reported is
\* the highest use there ever was.
THEOREM BudgetKeptAlways == Spec => []BudgetKept
<1>1. IInv /\ PeakInv => BudgetKept
  BY PeakInvSeen DEF IInv, BudgetKept
<1>2. IInv /\ PeakInv /\ [Next]_vars => PeakInv'
  BY StepPeakInv DEF IInv
<1>3. QED
  BY <1>1, <1>2, InitIInv, StepIInv, InitPeakInv, PTL DEF Spec

-----------------------------------------------------------------------------
(* The scan for the next candidate.                                        *)

LEMMA LeastNatural ==
  ASSUME NEW S, S \subseteq Nat, S # {}
  PROVE  \E n \in S : \A m \in S : n <= m
<1>1. PICK n \in S : \A m \in S : <<m, n>> \notin OpToRel(<, Nat)
  BY WFMin, NatLessThanWellFounded, Zenon
<1>2. \A m \in S : ~(m < n)
  BY <1>1 DEF OpToRel
<1>3. QED
  BY <1>2

LEMMA LeastIs ==
  ASSUME NEW S, S \subseteq Nat, S # {}
  PROVE  Least(S) \in S /\ \A k \in S : Least(S) <= k
BY LeastNatural DEF Least

LEMMA Multiples ==
  ASSUME NEW a \in Nat, NEW b \in Nat, NEW c \in Nat, b < c
  PROVE  a * (b + 1) <= a * c
<1>1. PICK d \in Nat : c = b + 1 + d
  <2>1. c - (b + 1) \in Nat /\ c = b + 1 + (c - (b + 1))
    OBVIOUS
  <2>2. QED
    BY <2>1
<1>2. a * d \in Nat /\ a * (b + 1 + d) = a * (b + 1) + a * d /\ a * (b + 1) \in Nat
  OBVIOUS
<1>3. QED
  BY <1>1, <1>2

\* Where a quotient lies.
LEMMA Quotient ==
  ASSUME NEW i \in Nat, NEW b \in Nat \ {0}
  PROVE  /\ i \div b \in Nat
         /\ b * (i \div b) \in Nat
         /\ b * (i \div b) <= i
         /\ i < b * (i \div b + 1)
         /\ b * (i \div b + 1) = b * (i \div b) + b
OBVIOUS

LEMMA QuotientOnly ==
  ASSUME NEW i \in Nat, NEW b \in Nat \ {0}, NEW q \in Nat,
         b * q <= i, i < b * (q + 1)
  PROVE  i \div b = q
<1> DEFINE r == i \div b
<1>1. r \in Nat /\ b * r <= i /\ i < b * (r + 1)
  BY Quotient
<1> HIDE DEF r
<1>2. ~(q < r)
  <2>1. q < r => b * (q + 1) <= b * r
    BY <1>1, Multiples
  <2>2. b * (q + 1) \in Nat /\ b * r \in Nat
    BY <1>1
  <2>3. QED
    BY <1>1, <2>1, <2>2
<1>3. ~(r < q)
  <2>1. r < q => b * (r + 1) <= b * q
    BY <1>1, Multiples
  <2>2. b * (r + 1) \in Nat /\ b * q \in Nat
    BY <1>1
  <2>3. QED
    BY <1>1, <2>1, <2>2
<1>4. r = q
  BY <1>1, <1>2, <1>3
<1>5. QED
  BY <1>4 DEF r

\* The first position after the word of i.
After(i) == (Word(i) + 1) * WordBits

LEMMA AfterIs ==
  ASSUME NEW i \in Nat
  PROVE  After(i) \in Nat /\ i < After(i) /\ After(i) <= i + WordBits
<1>1. WordBits \in Nat \ {0}
  BY CacheAssumption DEF CacheAssumption
<1> DEFINE w == i \div WordBits
<1>2. /\ w \in Nat
      /\ WordBits * w \in Nat
      /\ WordBits * w <= i
      /\ i < WordBits * (w + 1)
      /\ WordBits * (w + 1) = WordBits * w + WordBits
  BY <1>1, Quotient
<1>3. After(i) = (w + 1) * WordBits
  BY DEF After, Word
<1> HIDE DEF w
<1>4. (w + 1) * WordBits = WordBits * (w + 1)
  BY <1>1, <1>2
<1>5. QED
  BY <1>1, <1>2, <1>3, <1>4

\* A word lies in one page.
LEMMA WordInPage ==
  ASSUME NEW i \in Nat, NEW j \in i .. After(i) - 1
  PROVE  Page(j) = Page(i)
<1>1. /\ WordBits \in Nat \ {0}
      /\ PageWords \in Nat \ {0}
  BY CacheAssumption DEF CacheAssumption
<1>2. PageBits \in Nat \ {0}
  BY <1>1 DEF PageBits
<1> DEFINE w == i \div WordBits
           p == i \div PageBits
<1>3. w \in Nat /\ WordBits * w \in Nat /\ WordBits * w <= i
  BY <1>1, Quotient
<1>4. /\ p \in Nat /\ PageBits * p \in Nat /\ PageBits * p <= i
      /\ i < PageBits * (p + 1)
  BY <1>2, Quotient
<1>5. After(i) = (w + 1) * WordBits /\ Page(i) = p
  BY DEF After, Word, Page
<1> HIDE DEF w, p
<1> DEFINE e == PageWords * (p + 1)
<1>6. e \in Nat /\ PageBits * (p + 1) = WordBits * e
  BY <1>1, <1>4 DEF PageBits
<1> HIDE DEF e
<1>7. w < e
  <2>1. SUFFICES ASSUME ~(w < e) PROVE FALSE
    OBVIOUS
  <2>2. e < w + 1
    BY <1>3, <1>6, <2>1
  <2>3. CASE e = w
    BY <1>3, <1>4, <1>6, <2>3
  <2>4. CASE e < w
    <3>1. WordBits * (e + 1) <= WordBits * w
      BY <1>1, <1>3, <1>6, <2>4, Multiples
    <3>2. /\ WordBits * (e + 1) = WordBits * e + WordBits
          /\ WordBits * e \in Nat
      BY <1>1, <1>6
    <3>3. QED
      BY <1>1, <1>3, <1>4, <1>6, <3>1, <3>2
  <2>5. QED
    BY <1>3, <1>6, <2>2, <2>3, <2>4
<1>8. WordBits * (w + 1) <= WordBits * e
  BY <1>1, <1>3, <1>6, <1>7, Multiples
<1>9. /\ (w + 1) * WordBits = WordBits * (w + 1)
      /\ WordBits * (w + 1) \in Nat /\ WordBits * e \in Nat
  BY <1>1, <1>3, <1>6
<1>10. j \in Nat /\ PageBits * p <= j /\ j < PageBits * (p + 1)
  BY <1>3, <1>4, <1>5, <1>6, <1>8, <1>9
<1>11. j \div PageBits = p
  BY <1>2, <1>4, <1>10, QuotientOnly
<1>12. QED
  BY <1>5, <1>11 DEF Page

Positions == 0 .. Size + WordBits

\* What the scan from i returns, f being what it returns from later positions.
NextOf(s, f, i) ==
  IF i >= Size THEN Size
  ELSE IF Page(i) \notin pages[s] THEN i
  ELSE IF Available(s, i) # {}
       THEN LET j == Least(Available(s, i)) IN IF j < Size THEN j ELSE Size
  ELSE f[After(i)]

Uncontained(s, i) == {j \in i .. Size : ~Contains(s, j)}

\* What it should return.
FirstFree(s) ==
  [i \in Positions |-> IF i >= Size THEN Size ELSE Least(Uncontained(s, i))]

LEMMA NextFreeIs ==
  ASSUME NEW s
  PROVE  NextFree(s) = CHOOSE f : f = [i \in Positions |-> NextOf(s, f, i)]
BY Zenon DEF NextFree, NextOf, Positions, After

LEMMA UncontainedIs ==
  ASSUME NEW s, NEW i \in 0 .. Size
  PROVE  /\ Uncontained(s, i) \subseteq Nat
         /\ Size \in Uncontained(s, i)
         /\ Least(Uncontained(s, i)) \in Uncontained(s, i)
         /\ \A k \in Uncontained(s, i) : Least(Uncontained(s, i)) <= k
<1>1. Uncontained(s, i) \subseteq Nat /\ Size \in Uncontained(s, i)
  BY CacheAssumption DEF CacheAssumption, Uncontained, Contains
<1>2. QED
  BY <1>1, LeastIs

\* The positions of a word before the first that is not set are contained.
LEMMA SetMeansContained ==
  ASSUME TypeOK, NEW s \in Strategies, NEW i \in Origins,
         Page(i) \in pages[s], NEW j \in i .. After(i) - 1, j \in rejected[s]
  PROVE  Contains(s, j) /\ j < Size
<1>1. j \in Origins /\ i \in Nat
  BY CacheAssumption DEF CacheAssumption, TypeOK, Origins
<1>2. j < Size
  BY <1>1, CacheAssumption DEF CacheAssumption, Origins
<1>3. QED
  BY <1>1, <1>2, WordInPage DEF Contains

\* What the scan should return satisfies the equation of the scan.
LEMMA FirstFreeSolves ==
  ASSUME TypeOK, NEW s \in Strategies, NEW i \in Positions
  PROVE  FirstFree(s)[i] = NextOf(s, FirstFree(s), i)
<1> DEFINE g == FirstFree(s)
<1>0. Size \in Nat /\ WordBits \in Nat \ {0} /\ i \in Nat
  BY CacheAssumption DEF CacheAssumption, Positions
<1>1. CASE i >= Size
  BY <1>1 DEF FirstFree, NextOf
<1>2. CASE ~(i >= Size)
  <2>1. i \in Origins /\ i \in 0 .. Size /\ i < Size
    BY <1>0, <1>2 DEF Origins
  <2> DEFINE least == Least(Uncontained(s, i))
  <2>2. g[i] = least
    BY <1>2 DEF FirstFree
  <2>3. /\ least \in Uncontained(s, i)
        /\ \A k \in Uncontained(s, i) : least <= k
        /\ least \in i .. Size /\ ~Contains(s, least)
    BY <2>1, UncontainedIs DEF Uncontained
  <2> HIDE DEF least, g
  <2>4. ASSUME NEW j \in i .. Size, ~Contains(s, j),
               \A k \in i .. j - 1 : Contains(s, k)
        PROVE  least = j
    <3>1. j \in Uncontained(s, i)
      BY <2>4 DEF Uncontained
    <3>2. least <= j
      BY <2>3, <3>1
    <3>3. ~(least < j)
      BY <2>3, <2>4, <1>0
    <3>4. QED
      BY <2>3, <3>2, <3>3, <1>0
  <2>5. /\ After(i) \in Nat /\ i < After(i) /\ After(i) <= i + WordBits
        /\ After(i) = (Word(i) + 1) * WordBits
    BY <1>0, AfterIs DEF After
  <2>6. Available(s, i) = {j \in i .. After(i) - 1 : j \notin rejected[s]}
    BY <2>5 DEF Available
  <2>7. CASE Page(i) \notin pages[s]
    <3>1. ~Contains(s, i)
      BY <2>7 DEF Contains
    <3>2. \A k \in i .. i - 1 : FALSE
      BY <1>0
    <3>3. least = i
      BY <2>1, <2>4, <3>1, <3>2, <1>0
    <3>4. NextOf(s, FirstFree(s), i) = i
      BY <1>2, <2>7 DEF NextOf
    <3>5. QED
      BY <2>2, <3>3, <3>4 DEF g
  <2>8. CASE Page(i) \in pages[s] /\ Available(s, i) # {}
    <3> DEFINE j == Least(Available(s, i))
    <3>1. Available(s, i) \subseteq Nat
      BY <2>5, <2>6, <1>0
    <3>2. j \in Available(s, i) /\ \A k \in Available(s, i) : j <= k
      BY <2>8, <3>1, LeastIs
    <3>3. NextOf(s, FirstFree(s), i) = IF j < Size THEN j ELSE Size
      BY <1>2, <2>8 DEF NextOf
    <3> HIDE DEF j
    <3>4. j \in i .. After(i) - 1 /\ j \notin rejected[s]
      BY <2>6, <3>2
    <3>5. \A k \in i .. j - 1 : k \in i .. After(i) - 1 /\ k \in rejected[s]
      BY <1>0, <2>5, <2>6, <3>2, <3>4
    <3>6. \A k \in i .. j - 1 : Contains(s, k) /\ k < Size
      BY <2>1, <2>8, <3>5, SetMeansContained
    <3>7. CASE j < Size
      <4>1. ~Contains(s, j) /\ j \in i .. Size
        BY <1>0, <2>5, <3>4, <3>7 DEF Contains
      <4>2. least = j
        BY <2>4, <3>6, <4>1
      <4>3. QED
        BY <2>2, <3>3, <3>7, <4>2 DEF g
    <3>8. CASE ~(j < Size)
      <4>1. ~Contains(s, Size) /\ Size \in i .. Size
        BY <1>0, <2>1 DEF Contains
      <4>2. \A k \in i .. Size - 1 : Contains(s, k)
        BY <1>0, <2>5, <3>4, <3>6, <3>8
      <4>3. least = Size
        BY <2>4, <4>1, <4>2
      <4>4. QED
        BY <2>2, <3>3, <3>8, <4>3 DEF g
    <3>9. QED
      BY <3>7, <3>8
  <2>9. CASE Page(i) \in pages[s] /\ Available(s, i) = {}
    <3>1. \A k \in i .. After(i) - 1 : k \in rejected[s]
      BY <2>6, <2>9
    <3>2. \A k \in i .. After(i) - 1 : Contains(s, k) /\ k < Size
      BY <2>1, <2>9, <3>1, SetMeansContained
    <3>3. After(i) - 1 < Size
      BY <1>0, <2>5, <3>2
    <3>4. After(i) \in 0 .. Size
      BY <1>0, <2>5, <3>3
    <3>5. NextOf(s, FirstFree(s), i) = g[After(i)]
      BY <1>2, <2>9 DEF NextOf, g
    <3>6. After(i) \in Positions
      BY <1>0, <3>4 DEF Positions
    <3> DEFINE a == After(i)
    <3>7. CASE a >= Size
      <4>1. g[a] = Size
        BY <3>6, <3>7 DEF g, FirstFree
      <4>2. ~Contains(s, Size) /\ Size \in i .. Size
        BY <1>0, <2>1 DEF Contains
      <4>3. \A k \in i .. Size - 1 : Contains(s, k)
        BY <1>0, <2>5, <3>2, <3>7
      <4>4. least = Size
        BY <2>4, <4>2, <4>3
      <4>5. QED
        BY <2>2, <3>5, <4>1, <4>4 DEF g
    <3>8. CASE ~(a >= Size)
      <4> DEFINE l == Least(Uncontained(s, a))
      <4>1. g[a] = l
        BY <3>6, <3>8 DEF g, FirstFree
      <4>2. /\ l \in a .. Size /\ ~Contains(s, l)
            /\ \A k \in Uncontained(s, a) : l <= k
        BY <3>4, UncontainedIs DEF Uncontained
      <4> HIDE DEF l
      <4>3. \A k \in a .. l - 1 : Contains(s, k)
        BY <1>0, <2>5, <4>2 DEF Uncontained
      <4>4. \A k \in i .. l - 1 : Contains(s, k)
        BY <1>0, <2>5, <3>2, <4>2, <4>3
      <4>5. l \in i .. Size
        BY <1>0, <2>5, <4>2
      <4>6. least = l
        BY <2>4, <4>2, <4>4, <4>5
      <4>7. QED
        BY <2>2, <3>5, <4>1, <4>6 DEF g
    <3>9. QED
      BY <3>7, <3>8
  <2>10. QED
    BY <2>7, <2>8, <2>9
<1>3. QED
  BY <1>1, <1>2

\* The equation has only one solution: of two, take the last position in which
\* they differ.
LEMMA NextFreeFirst ==
  ASSUME TypeOK, NEW s \in Strategies
  PROVE  NextFree(s) = FirstFree(s)
<1> DEFINE g == FirstFree(s)
           f == NextFree(s)
<1>0. Size \in Nat /\ WordBits \in Nat \ {0}
  BY CacheAssumption DEF CacheAssumption
<1>1. g = [i \in Positions |-> NextOf(s, g, i)]
  <2>1. \A i \in Positions : g[i] = NextOf(s, g, i)
    BY FirstFreeSolves
  <2>2. g = [i \in Positions |-> g[i]]
    BY DEF FirstFree
  <2> HIDE DEF g
  <2>3. QED
    BY <2>1, <2>2
<1>2. f = CHOOSE h : h = [i \in Positions |-> NextOf(s, h, i)]
  BY NextFreeIs
<1> HIDE DEF g, f
<1>3. f = [i \in Positions |-> NextOf(s, f, i)]
  BY <1>1, <1>2, Zenon
<1> DEFINE Differ == {n \in Nat : \E i \in Positions :
                        n = Size + WordBits - i /\ f[i] # g[i]}
<1>4. Differ = {}
  <2>1. SUFFICES ASSUME Differ # {} PROVE FALSE
    OBVIOUS
  <2>2. PICK n \in Differ : \A m \in Differ : n <= m
    <3>1. Differ \subseteq Nat
      OBVIOUS
    <3> HIDE DEF Differ
    <3>2. QED
      BY <2>1, <3>1, LeastNatural
  <2>3. PICK i \in Positions : n = Size + WordBits - i /\ f[i] # g[i]
    BY <2>2
  <2>4. f[i] = NextOf(s, f, i) /\ g[i] = NextOf(s, g, i)
    BY <1>1, <1>3, <2>3
  <2>5. /\ ~(i >= Size)
        /\ NextOf(s, f, i) = f[After(i)] /\ NextOf(s, g, i) = g[After(i)]
    BY <2>3, <2>4 DEF NextOf
  <2>6. i \in Nat /\ i < Size
    BY <1>0, <2>3, <2>5 DEF Positions
  <2>7. After(i) \in Nat /\ i < After(i) /\ After(i) <= i + WordBits
    BY <2>6, AfterIs
  <2>8. After(i) \in Positions
    BY <1>0, <2>6, <2>7 DEF Positions
  <2>9. f[After(i)] # g[After(i)]
    BY <2>3, <2>4, <2>5
  <2> DEFINE m == Size + WordBits - After(i)
  <2>10. m \in Nat /\ m < n
    BY <1>0, <2>3, <2>6, <2>7, <2>8 DEF Positions
  <2>11. m \in Differ
    BY <2>8, <2>9, <2>10
  <2>12. QED
    BY <2>2, <2>10, <2>11
<1>5. \A i \in Positions : f[i] = g[i]
  <2> SUFFICES ASSUME NEW i \in Positions, f[i] # g[i] PROVE FALSE
    OBVIOUS
  <2>1. Size + WordBits - i \in Nat
    BY <1>0 DEF Positions
  <2>2. Size + WordBits - i \in Differ
    BY <2>1
  <2>3. QED
    BY <1>4, <2>2
<1>6. f = [i \in Positions |-> f[i]] /\ g = [i \in Positions |-> g[i]]
  BY <1>1, <1>3
<1>7. f = g
  BY <1>5, <1>6
<1>8. QED
  BY <1>7 DEF f, g

LEMMA TypedScanExact == TypeOK => ScanExact
<1> SUFFICES ASSUME TypeOK, NEW s \in Strategies, NEW i \in 0 .. Size
             PROVE  /\ NextFree(s)[i] \in i .. Size
                    /\ \A j \in i .. NextFree(s)[i] - 1 : Contains(s, j)
                    /\ ~Contains(s, NextFree(s)[i])
  BY DEF ScanExact
<1>0. Size \in Nat /\ WordBits \in Nat \ {0}
  BY CacheAssumption DEF CacheAssumption
<1> DEFINE l == Least(Uncontained(s, i))
<1>1. /\ l \in i .. Size /\ ~Contains(s, l)
      /\ \A k \in Uncontained(s, i) : l <= k
      /\ Size \in Uncontained(s, i)
  BY UncontainedIs DEF Uncontained
<1>2. i \in Positions
  BY <1>0 DEF Positions
<1>3. NextFree(s)[i] = IF i >= Size THEN Size ELSE l
  BY <1>2, NextFreeFirst DEF FirstFree
<1> HIDE DEF l
<1>4. NextFree(s)[i] = l
  BY <1>0, <1>1, <1>3
<1>5. \A j \in i .. l - 1 : Contains(s, j)
  BY <1>0, <1>1 DEF Uncontained
<1>6. QED
  BY <1>1, <1>4, <1>5

\* The scan of a strategy's candidates skips exactly the rejected origins, for
\* any size and any width of words and pages.
THEOREM ScanExactAlways == Spec => []ScanExact
<1>1. TypeOK => ScanExact
  BY TypedScanExact
<1>2. QED
  BY <1>1, TypeCorrect, PTL

-----------------------------------------------------------------------------
(* The trials that share the budget.                                       *)

\* Whatever the workers do to the caches is what strategies do.
LEMMA TrialsStepImplements == [TrialsNext]_allVars => [Next]_vars
<1> SUFFICES ASSUME [TrialsNext]_allVars PROVE [Next]_vars
  OBVIOUS
<1>1. CASE \E w \in Strategies : UsesCache(w) \/ CacheGoes(w) \/ CacheThrows(w)
  BY <1>1 DEF UsesCache, CacheGoes, CacheThrows, Next
<1>2. CASE \E w \in Strategies : \/ Leaves(w) \/ Claims(w) \/ WorkerThrows(w)
                                 \/ Ends(w) \/ RecordsError(w)
  BY <1>2 DEF Leaves, Claims, WorkerThrows, Ends, RecordsError
<1>3. CASE Rethrows \/ Returns \/ TimePasses \/ UNCHANGED allVars
  BY <1>3 DEF Rethrows, Returns, TimePasses, allVars
<1>4. QED
  BY <1>1, <1>2, <1>3 DEF TrialsNext

\* The workers use the cache only as RejectionCache allows.
THEOREM TrialsImplement == TrialsSpec => Spec
<1>1. TrialsInit => Init
  BY DEF TrialsInit
<1>2. QED
  BY <1>1, TrialsStepImplements, PTL DEF TrialsSpec, Spec

Records == [started : BOOLEAN, stopped : BOOLEAN, score : Nat]

TrialsTyped ==
  /\ next \in 0 .. TrialCount
  /\ where \in [Strategies -> {"looking", "running", "throwing", "ended"}]
  /\ job \in [Strategies -> 0 .. TrialCount]
  /\ trials \in [Trials -> Records]
  /\ quality \in [Trials -> 1 .. MaxScore]
  /\ over \in BOOLEAN /\ error \in BOOLEAN

\* The trials are started one after the other.
ClaimInv ==
  /\ \A t \in Trials : trials[t].started <=> t < next
  /\ \A w \in Strategies : where[w] = "running" => job[w] \in Trials

\* A trial that has ended has the score it deserves, unless time is over.
HasEnded(t) ==
  /\ trials[t].score \in 1 .. MaxScore
  /\ trials[t].stopped => over
  /\ ~over => trials[t].score = quality[t]

Failing == error \/ \E w \in Strategies : where[w] = "throwing"

\* A trial that was started is made, has ended, or its worker has failed.
MadeInv ==
  \A t \in Trials : trials[t].started =>
    \/ HasEnded(t) \/ Failing
    \/ \E w \in Strategies : where[w] = "running" /\ job[w] = t

\* A worker that leaves for no other reason has found no trial left.
LeaveInv ==
  \A w \in Strategies : where[w] = "ended" => over \/ error \/ next = TrialCount

\* Between two trials a worker has no cache.
NoCacheInv ==
  \A w \in Strategies : where[w] \in {"looking", "ended"} => NoCache(w)

\* What was returned stays true.
ResultInv ==
  result.end = "returned" =>
    /\ ~error /\ \A w \in Strategies : where[w] = "ended"
    /\ result.best = Best /\ result.peak = peak
    /\ result.completed = Cardinality({t \in Started : ~trials[t].stopped})

TrialInv == /\ TrialsTyped /\ ClaimInv /\ MadeInv
            /\ LeaveInv /\ NoCacheInv /\ ResultInv

LEMMA InitTrialInv == TrialsInit => TrialInv
<1> SUFFICES ASSUME TrialsInit PROVE TrialInv
  OBVIOUS
<1> USE TrialAssumption DEF TrialAssumption, TrialsInit, NotStarted, NotEnded, NoTrial
<1>1. TrialsTyped
  <2>1. [started |-> FALSE, stopped |-> FALSE, score |-> 0] \in Records
    BY DEF Records
  <2>2. trials \in [Trials -> Records]
    BY <2>1
  <2>3. next \in 0 .. TrialCount /\ job \in [Strategies -> 0 .. TrialCount]
    OBVIOUS
  <2>4. QED
    BY <2>2, <2>3 DEF TrialsTyped
<1>2. ClaimInv /\ MadeInv /\ LeaveInv
  BY DEF ClaimInv, MadeInv, LeaveInv, Trials
<1>3. NoCacheInv /\ ResultInv
  BY DEF NoCacheInv, NoCache, ResultInv, Init
<1>4. QED
  BY <1>1, <1>2, <1>3 DEF TrialInv

\* The rest stays as it is when only caches change.
LEMMA CacheKeeps ==
  ASSUME TrialInv, UNCHANGED trialVars,
         NEW w \in Strategies, where[w] \in {"running", "throwing"},
         \A v \in Strategies \ {w} : at'[v] = at[v] /\ pages'[v] = pages[v]
  PROVE  TrialInv'
<1> USE DEF TrialInv, trialVars
<1>1. TrialsTyped' /\ ClaimInv' /\ MadeInv' /\ LeaveInv'
  BY DEF TrialsTyped, ClaimInv, MadeInv, LeaveInv, HasEnded, Failing
<1>2. NoCacheInv'
  BY DEF NoCacheInv, NoCache
<1>3. ResultInv'
  BY DEF ResultInv, TrialsTyped
<1>4. QED
  BY <1>1, <1>2, <1>3

\* A step of one strategy leaves the caches of the others alone.
LEMMA OthersKeepCaches ==
  ASSUME TypeOK, NEW s \in Strategies, Searches(s) \/ AllocateThrows(s) \/ Destroyed(s)
  PROVE  \A v \in Strategies \ {s} : at'[v] = at[v] /\ pages'[v] = pages[v]
<1> USE DEF TypeOK, Goto, cache
<1>1. CASE \E i \in Origins : InsertKnown(s, i) \/ ReserveBegins(s, i)
  BY <1>1 DEF InsertKnown, ReserveBegins
<1>2. CASE Refused(s) \/ Swap(s) \/ SwapFails(s) \/ Allocates(s)
  BY <1>2 DEF Refused, Swap, SwapFails, Allocates
<1>3. CASE PeakLoaded(s) \/ Raise(s) \/ RaiseFails(s) \/ PeakHigher(s)
  BY <1>3 DEF PeakLoaded, Raise, RaiseFails, PeakHigher
<1>4. CASE AllocateThrows(s) \/ Destroyed(s)
  BY <1>4 DEF AllocateThrows, Destroyed
<1>5. QED
  BY <1>1, <1>2, <1>3, <1>4 DEF Searches

LEMMA CacheStep ==
  ASSUME TypeOK, TrialInv, NEW w \in Strategies, UsesCache(w) \/ CacheGoes(w)
  PROVE  TrialInv'
BY OthersKeepCaches, CacheKeeps DEF UsesCache, CacheGoes

\* Nothing was returned as long as a worker is at work.
LEMMA NotReturned ==
  ASSUME TrialInv, NEW w \in Strategies, where[w] # "ended"
  PROVE  result.end # "returned"
BY DEF TrialInv, ResultInv

\* A worker whose exception travels on.
LEMMA ThrowStep ==
  ASSUME TypeOK, TrialInv, NEW w \in Strategies, CacheThrows(w) \/ WorkerThrows(w)
  PROVE  TrialInv'
<1> USE DEF TrialInv, TrialsTyped
<1>1. /\ where[w] # "ended" /\ where' = [where EXCEPT ![w] = "throwing"]
      /\ UNCHANGED <<next, job, trials, quality, over, error, result>>
  BY DEF CacheThrows, WorkerThrows, WorkerGoes
<1>2. \A v \in Strategies \ {w} : at'[v] = at[v] /\ pages'[v] = pages[v]
  BY OthersKeepCaches DEF CacheThrows, WorkerThrows, vars, cache
<1>3. TrialsTyped' /\ ClaimInv' /\ LeaveInv'
  BY <1>1 DEF ClaimInv, LeaveInv
<1>4. MadeInv'
  BY <1>1 DEF MadeInv, HasEnded, Failing
<1>5. NoCacheInv'
  BY <1>1, <1>2 DEF NoCacheInv, NoCache
<1>6. ResultInv'
  BY <1>1, NotReturned DEF ResultInv
<1>7. QED
  BY <1>3, <1>4, <1>5, <1>6

\* Only a deadline that has passed stops a worker.
LEMMA PollsTrue == \A b \in Polls : b \in BOOLEAN /\ (b => over)
BY Zenon DEF Polls

LEMMA LeavesStep ==
  ASSUME TrialInv, NEW w \in Strategies, Leaves(w)
  PROVE  TrialInv'
<1> USE DEF TrialInv, TrialsTyped
<1>1. /\ where[w] = "looking" /\ where' = [where EXCEPT ![w] = "ended"]
      /\ over \/ next = TrialCount
      /\ UNCHANGED <<vars, next, job, trials, quality, over, error, result>>
  <2>1. TRUE \in Polls => over
    BY PollsTrue, Zenon
  <2>2. /\ WorkerGoes(w, "looking", "ended") /\ (over \/ next >= TrialCount)
        /\ UNCHANGED <<vars, next, job, trials, quality, over, error, result>>
    BY <2>1, Zenon DEF Leaves
  <2>3. QED
    BY <2>2, TrialAssumption DEF TrialAssumption, WorkerGoes
<1>2. TrialsTyped' /\ ClaimInv' /\ LeaveInv'
  BY <1>1 DEF ClaimInv, LeaveInv
<1>3. MadeInv'
  BY <1>1 DEF MadeInv, HasEnded, Failing
<1>4. NoCacheInv'
  BY <1>1 DEF NoCacheInv, NoCache, vars, cache
<1>5. ResultInv'
  BY <1>1, NotReturned DEF ResultInv
<1>6. QED
  BY <1>2, <1>3, <1>4, <1>5

\* The record of one trial changes.
LEMMA StartTyped ==
  ASSUME NEW f \in [Trials -> Records], NEW t \in Trials, NEW b \in BOOLEAN
  PROVE  [f EXCEPT ![t] = [f[t] EXCEPT !.started = b]] \in [Trials -> Records]
<1> DEFINE r == [f[t] EXCEPT !.started = b]
<1>1. f[t] \in Records
  OBVIOUS
<1>2. r \in Records
  BY <1>1 DEF Records
<1> HIDE DEF r
<1>3. [f EXCEPT ![t] = r] \in [Trials -> Records]
  BY <1>2
<1>4. QED
  BY <1>3 DEF r

LEMMA ScoreTyped ==
  ASSUME NEW f \in [Trials -> Records], NEW t \in Trials, NEW b \in BOOLEAN,
         NEW n \in Nat
  PROVE  [f EXCEPT ![t] = [f[t] EXCEPT !.score = n, !.stopped = b]] \in [Trials -> Records]
<1> DEFINE r == [f[t] EXCEPT !.score = n, !.stopped = b]
<1>1. f[t] \in Records
  OBVIOUS
<1>2. r \in Records
  BY <1>1 DEF Records
<1> HIDE DEF r
<1>3. [f EXCEPT ![t] = r] \in [Trials -> Records]
  BY <1>2
<1>4. QED
  BY <1>3 DEF r

LEMMA ClaimsStep ==
  ASSUME TrialInv, NEW w \in Strategies, Claims(w)
  PROVE  TrialInv'
<1> USE DEF TrialInv, TrialsTyped
<1>1. /\ where[w] = "looking" /\ where' = [where EXCEPT ![w] = "running"]
      /\ next \in Trials /\ next' = next + 1
      /\ job' = [job EXCEPT ![w] = next]
      /\ trials' = [trials EXCEPT ![next].started = TRUE]
      /\ UNCHANGED <<vars, quality, over, error, result>>
  BY TrialAssumption DEF TrialAssumption, Claims, WorkerGoes, Trials
<1>2. /\ trials'[next].started
      /\ \A t \in Trials \ {next} : trials'[t] = trials[t]
  BY <1>1
<1>3. TrialsTyped'
  <2>1. trials' = [trials EXCEPT ![next] = [trials[next] EXCEPT !.started = TRUE]]
    BY <1>1
  <2>2. trials' \in [Trials -> Records]
    <3>1. TRUE \in BOOLEAN /\ next \in Trials /\ trials \in [Trials -> Records]
      BY <1>1
    <3>2. QED
      BY <2>1, <3>1, StartTyped, Zenon
  <2>3. next' \in 0 .. TrialCount
    BY <1>1, TrialAssumption DEF TrialAssumption, Trials
  <2>4. QED
    BY <1>1, <2>2, <2>3
<1>4. ClaimInv'
  BY <1>1, <1>2 DEF ClaimInv, Trials
<1>5. \A v \in Strategies : /\ v # w => where'[v] = where[v] /\ job'[v] = job[v]
                            /\ v = w => where'[v] = "running" /\ job'[v] = next
  BY <1>1
<1>6. MadeInv'
  <2> SUFFICES ASSUME NEW t \in Trials, trials'[t].started
               PROVE  \/ HasEnded(t)' \/ Failing'
                      \/ \E v \in Strategies : where'[v] = "running" /\ job'[v] = t
    BY DEF MadeInv
  <2>1. CASE t = next
    BY <1>5, <2>1
  <2>2. CASE t # next
    BY <1>1, <1>2, <1>5, <2>2 DEF MadeInv, HasEnded, Failing
  <2>3. QED
    BY <2>1, <2>2
<1>7. LeaveInv' /\ NoCacheInv'
  BY <1>1, <1>5 DEF LeaveInv, NoCacheInv, NoCache, Trials, vars, cache
<1>8. ResultInv'
  BY <1>1, NotReturned DEF ResultInv
<1>9. QED
  BY <1>3, <1>4, <1>6, <1>7, <1>8

LEMMA EndsStep ==
  ASSUME TrialInv, NEW w \in Strategies, Ends(w)
  PROVE  TrialInv'
<1> USE DEF TrialInv, TrialsTyped
<1> DEFINE j == job[w]
<1>1. /\ where[w] = "running" /\ where' = [where EXCEPT ![w] = "looking"]
      /\ NoCache(w) /\ job' = [job EXCEPT ![w] = NoTrial]
      /\ UNCHANGED <<vars, next, quality, over, error, result>>
  BY DEF Ends, WorkerGoes
<1>2. j \in Trials
  BY <1>1 DEF ClaimInv
<1>3. PICK ending \in Endings(j) :
        trials' = [trials EXCEPT ![j].score = ending.score,
                                 ![j].stopped = ending.stopped]
  BY Zenon DEF Ends
<1> DEFINE stopped == ending.stopped
           score == ending.score
<1>5. /\ stopped \in BOOLEAN /\ (stopped => over)
      /\ score \in 1 .. MaxScore /\ score \in Nat
      /\ ~over => score = quality[j]
  <2>1. quality[j] \in 1 .. MaxScore
    BY <1>2
  <2>2. CASE ending \in [stopped : {FALSE}, score : {quality[j]}]
    <3>1. ending.stopped \in {FALSE} /\ ending.score \in {quality[j]}
      BY <2>2
    <3>2. ending.stopped = FALSE /\ ending.score = quality[j]
      BY <3>1
    <3>3. quality[j] \in Nat
      BY <2>1, TrialAssumption DEF TrialAssumption
    <3>4. QED
      BY <2>1, <3>2, <3>3
  <2>3. CASE TRUE \in Polls /\ ending \in [stopped : BOOLEAN, score : 1 .. MaxScore]
    <3>1. over
      <4>1. TRUE \in Polls => over
        BY PollsTrue, Zenon
      <4>2. QED
        BY <2>3, <4>1
    <3>2. ending.stopped \in BOOLEAN /\ ending.score \in 1 .. MaxScore
      BY <2>3
    <3>3. QED
      BY <3>1, <3>2, TrialAssumption DEF TrialAssumption
  <2>4. QED
    BY <2>2, <2>3 DEF Endings
<1>6. trials' = [trials EXCEPT ![j] = [trials[j] EXCEPT !.score = score,
                                                        !.stopped = stopped]]
  BY <1>3, <1>2
<1> HIDE DEF stopped, score
<1>7. /\ trials'[j].score = score /\ trials'[j].stopped = stopped
      /\ trials'[j].started = trials[j].started
      /\ \A t \in Trials \ {j} : trials'[t] = trials[t]
  BY <1>2, <1>6
<1>8. TrialsTyped'
  <2>1. trials' \in [Trials -> Records]
    BY <1>2, <1>5, <1>6, ScoreTyped
  <2>2. NoTrial \in 0 .. TrialCount
    BY TrialAssumption DEF TrialAssumption, NoTrial
  <2>3. QED
    BY <1>1, <2>1, <2>2
<1>9. \A v \in Strategies : /\ v # w => where'[v] = where[v] /\ job'[v] = job[v]
                            /\ v = w => where'[v] = "looking"
  BY <1>1
<1>10. ClaimInv'
  BY <1>1, <1>2, <1>7, <1>9 DEF ClaimInv
<1>11. MadeInv'
  <2> SUFFICES ASSUME NEW t \in Trials, trials'[t].started
               PROVE  \/ HasEnded(t)' \/ Failing'
                      \/ \E v \in Strategies : where'[v] = "running" /\ job'[v] = t
    BY DEF MadeInv
  <2>1. CASE t = j
    BY <1>1, <1>5, <1>7, <2>1 DEF HasEnded
  <2>2. CASE t # j
    <3>1. trials'[t] = trials[t]
      BY <1>7, <2>2
    <3>2. CASE HasEnded(t)
      BY <1>1, <3>1, <3>2 DEF HasEnded
    <3>3. CASE Failing
      BY <1>1, <1>9, <3>3 DEF Failing
    <3>4. CASE \E v \in Strategies : where[v] = "running" /\ job[v] = t
      BY <1>9, <2>2, <3>4
    <3>5. QED
      BY <3>1, <3>2, <3>3, <3>4 DEF MadeInv
  <2>3. QED
    BY <2>1, <2>2
<1>12. LeaveInv' /\ NoCacheInv'
  BY <1>1, <1>9 DEF LeaveInv, NoCacheInv, NoCache, vars, cache
<1>13. ResultInv'
  BY <1>1, NotReturned DEF ResultInv
<1>14. QED
  BY <1>8, <1>10, <1>11, <1>12, <1>13

LEMMA RecordStep ==
  ASSUME TrialInv, NEW w \in Strategies, RecordsError(w)
  PROVE  TrialInv'
<1> USE DEF TrialInv, TrialsTyped
<1>1. /\ where[w] = "throwing" /\ where' = [where EXCEPT ![w] = "ended"]
      /\ NoCache(w) /\ error' = TRUE
      /\ UNCHANGED <<vars, next, job, trials, quality, over, result>>
  BY DEF RecordsError, WorkerGoes
<1>2. TrialsTyped' /\ ClaimInv' /\ LeaveInv'
  BY <1>1 DEF ClaimInv, LeaveInv
<1>3. MadeInv'
  BY <1>1 DEF MadeInv, Failing
<1>4. NoCacheInv'
  BY <1>1 DEF NoCacheInv, NoCache, vars, cache
<1>5. ResultInv'
  BY <1>1, NotReturned DEF ResultInv
<1>6. QED
  BY <1>2, <1>3, <1>4, <1>5

\* The caller returns or throws once all workers have ended.
LEMMA JoinedStep ==
  ASSUME TrialInv, Rethrows \/ Returns
  PROVE  TrialInv'
<1> USE DEF TrialInv
<1>1. /\ UNCHANGED <<vars, next, where, job, trials, quality, over, error>>
      /\ Joined
  BY DEF Rethrows, Returns
<1>2. TrialsTyped' /\ ClaimInv' /\ LeaveInv'
  BY <1>1 DEF TrialsTyped, ClaimInv, LeaveInv
<1>3. MadeInv'
  BY <1>1 DEF MadeInv, HasEnded, Failing
<1>4. NoCacheInv'
  BY <1>1 DEF NoCacheInv, NoCache, vars, cache
<1>5. ResultInv'
  <2>1. CASE Rethrows
    BY <2>1 DEF Rethrows, ResultInv, NotEnded
  <2>2. CASE Returns
    <3>1. Best' = Best /\ Started' = Started
      BY <1>1 DEF Best, Started, FirstBest
    <3>2. {t \in Started' : ~trials'[t].stopped} = {t \in Started : ~trials[t].stopped}
      BY <1>1, <3>1
    <3>3. /\ result'.best = Best /\ result'.peak = peak /\ ~error
          /\ result'.completed = Cardinality({t \in Started : ~trials[t].stopped})
      BY <2>2 DEF Returns
    <3>4. peak' = peak
      BY <1>1 DEF vars, counters
    <3>5. QED
      BY <1>1, <3>1, <3>2, <3>3, <3>4 DEF ResultInv, Joined
  <2>3. QED
    BY <2>1, <2>2
<1>6. QED
  BY <1>2, <1>3, <1>4, <1>5

LEMMA TimeStep ==
  ASSUME TrialInv, TimePasses
  PROVE  TrialInv'
<1> USE DEF TrialInv, TimePasses
<1>1. TrialsTyped' /\ ClaimInv' /\ LeaveInv'
  BY DEF TrialsTyped, ClaimInv, LeaveInv
<1>2. MadeInv'
  BY DEF MadeInv, HasEnded, Failing
<1>3. NoCacheInv'
  BY DEF NoCacheInv, NoCache, vars, cache
<1>4. ResultInv'
  BY DEF ResultInv, Best, FirstBest, Started, vars, counters
<1>5. QED
  BY <1>1, <1>2, <1>3, <1>4

LEMMA StepTrialInv == IInv /\ TrialInv /\ [TrialsNext]_allVars => TrialInv'
<1> SUFFICES ASSUME IInv, TrialInv, [TrialsNext]_allVars PROVE TrialInv'
  OBVIOUS
<1>1. ASSUME NEW w \in Strategies, Leaves(w) \/ Claims(w) \/ Ends(w) \/ RecordsError(w)
      PROVE  TrialInv'
  BY <1>1, LeavesStep, ClaimsStep, EndsStep, RecordStep
<1>2. ASSUME NEW w \in Strategies, \/ UsesCache(w) \/ CacheGoes(w)
                                   \/ CacheThrows(w) \/ WorkerThrows(w)
      PROVE  TrialInv'
  BY <1>2, CacheStep, ThrowStep DEF IInv
<1>3. CASE Rethrows \/ Returns \/ TimePasses
  BY <1>3, JoinedStep, TimeStep
<1>4. CASE UNCHANGED allVars
  <2> USE <1>4 DEF TrialInv, allVars, trialVars
  <2>1. TrialsTyped' /\ ClaimInv' /\ MadeInv' /\ LeaveInv'
    BY DEF TrialsTyped, ClaimInv, MadeInv, LeaveInv, HasEnded, Failing
  <2>2. NoCacheInv'
    BY DEF NoCacheInv, NoCache, vars, cache
  <2>3. ResultInv'
    BY DEF ResultInv, Best, FirstBest, Started, vars, counters
  <2>4. QED
    BY <2>1, <2>2, <2>3
<1>5. QED
  BY <1>1, <1>2, <1>3, <1>4 DEF TrialsNext

\* The first of the trials with the lowest score exists.
LEMMA FirstBestIs ==
  ASSUME TrialsTyped, NEW S, S \subseteq Trials, S # {}
  PROVE  /\ FirstBest(S) \in S
         /\ \A u \in S : \/ trials[FirstBest(S)].score < trials[u].score
                         \/ /\ trials[FirstBest(S)].score = trials[u].score
                            /\ FirstBest(S) <= u
<1> DEFINE P(t) == \A u \in S : \/ trials[t].score < trials[u].score
                                \/ trials[t].score = trials[u].score /\ t <= u
<1>1. /\ \A t \in S : trials[t].score \in Nat
      /\ S \subseteq Nat
  BY TrialAssumption DEF TrialAssumption, TrialsTyped, Records, Trials
<1> DEFINE Scores == {trials[t].score : t \in S}
<1>2. PICK n \in Scores : \A m \in Scores : n <= m
  <2>1. Scores \subseteq Nat /\ Scores # {}
    BY <1>1
  <2> HIDE DEF Scores
  <2>2. QED
    BY <2>1, LeastNatural
<1> DEFINE Lowest == {t \in S : trials[t].score = n}
<1>3. PICK t \in Lowest : \A u \in Lowest : t <= u
  <2>1. Lowest \subseteq Nat /\ Lowest # {}
    BY <1>1, <1>2
  <2> HIDE DEF Lowest
  <2>2. QED
    BY <2>1, LeastNatural
<1>4. t \in S /\ P(t)
  BY <1>1, <1>2, <1>3
<1> HIDE DEF P
<1>5. FirstBest(S) = CHOOSE x \in S : P(x)
  BY DEF FirstBest, P
<1>6. FirstBest(S) \in S /\ P(FirstBest(S))
  BY <1>4, <1>5
<1>7. QED
  BY <1>6 DEF P

\* If every trial was made in time, all have the score they deserve.
LEMMA AllTrialsMade ==
  ASSUME TrialInv, result.end = "returned", ~over
  PROVE  /\ Started = Trials
         /\ \A t \in Trials : trials[t].score = quality[t]
         /\ result.completed = TrialCount
<1>1. \A t \in Started : HasEnded(t)
  BY DEF TrialInv, ResultInv, MadeInv, Failing, Started
<1>2. next = TrialCount
  BY TrialAssumption DEF TrialAssumption, TrialInv, ResultInv, LeaveInv
<1>3. Started = Trials
  BY <1>2, TrialAssumption DEF TrialAssumption, Trials, Started, TrialInv, ClaimInv
<1>4. {t \in Started : ~trials[t].stopped} = Trials
  BY <1>1, <1>3 DEF HasEnded
<1>5. IsFiniteSet(Trials) /\ Cardinality(Trials) = TrialCount
  BY FS_Interval, TrialAssumption DEF TrialAssumption, Trials
<1>6. result.completed = TrialCount
  BY <1>4, <1>5 DEF TrialInv, ResultInv
<1>7. QED
  BY <1>1, <1>3, <1>6 DEF HasEnded

LEMMA ReturnsBestHolds == IInv /\ PeakInv /\ TrialInv => ReturnsBest
<1> SUFFICES ASSUME IInv, PeakInv, TrialInv, result.end = "returned"
             PROVE  /\ \A t \in Started : trials[t].score \in 1 .. MaxScore
                    /\ Started # {} =>
                         /\ result.best \in Started
                         /\ \A t \in Started :
                              \/ trials[result.best].score < trials[t].score
                              \/ /\ trials[result.best].score = trials[t].score
                                 /\ result.best <= t
                    /\ ~over =>
                         /\ result.completed = TrialCount
                         /\ \A t \in Trials :
                              \/ quality[result.best] < quality[t]
                              \/ quality[result.best] = quality[t] /\ result.best <= t
                    /\ used = 0 /\ result.peak = highest
  BY DEF ReturnsBest
<1>1. /\ \A w \in Strategies : where[w] = "ended" /\ NoCache(w)
      /\ ~Failing
      /\ result.best = Best /\ result.peak = peak
  BY DEF TrialInv, ResultInv, NoCacheInv, Failing
<1>2. TrialsTyped /\ Started \subseteq Trials
  BY DEF TrialInv, Started
<1>3. \A t \in Started : trials[t].score \in 1 .. MaxScore
  BY <1>1, <1>2 DEF TrialInv, MadeInv, HasEnded, Started
<1>4. ASSUME Started # {}
      PROVE  /\ result.best \in Started
             /\ \A u \in Started : \/ trials[result.best].score < trials[u].score
                                   \/ /\ trials[result.best].score = trials[u].score
                                      /\ result.best <= u
  BY <1>1, <1>2, <1>4, FirstBestIs DEF Best
<1>6. ASSUME ~over
      PROVE  /\ result.completed = TrialCount
             /\ \A t \in Trials :
                  \/ quality[result.best] < quality[t]
                  \/ quality[result.best] = quality[t] /\ result.best <= t
  <2>1. /\ Started = Trials
        /\ \A t \in Trials : trials[t].score = quality[t]
        /\ result.completed = TrialCount
    BY <1>6, AllTrialsMade
  <2>2. Trials # {}
    BY TrialAssumption DEF TrialAssumption, Trials
  <2>3. QED
    BY <1>4, <2>1, <2>2
<1>7. used = 0 /\ result.peak = highest
  <2>1. Owned = {} /\ Reserving = {}
    BY <1>1 DEF NoCache, Owned, Reserving
  <2>2. used = PageCost * (0 + 0)
    BY <2>1, FS_EmptySet DEF IInv, Accounted
  <2>3. used = 0
    BY <2>2, CacheAssumption DEF CacheAssumption
  <2>4. PeakSeen
    BY PeakInvSeen DEF IInv
  <2>5. QED
    BY <1>1, <2>1, <2>3, <2>4 DEF PeakSeen
<1>8. QED
  BY <1>3, <1>4, <1>6, <1>7

\* However the workers share the trials and the budget, what is returned is
\* the first best of the trials that were started, and of all trials if time
\* permits; and every page was given back by then.
THEOREM ReturnsBestAlways == TrialsSpec => []ReturnsBest
<1>1. TrialsInit => IInv /\ PeakInv /\ TrialInv
  BY InitIInv, InitPeakInv, InitTrialInv DEF TrialsInit
<1>2. IInv /\ PeakInv /\ TrialInv /\ [TrialsNext]_allVars
        => IInv' /\ PeakInv' /\ TrialInv'
  BY TrialsStepImplements, StepIInv, StepPeakInv, StepTrialInv DEF IInv
<1>3. QED
  BY <1>1, <1>2, ReturnsBestHolds, PTL DEF TrialsSpec

=============================================================================
