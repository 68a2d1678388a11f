---------------------------- MODULE RejectionCache ----------------------------
(***************************************************************************)
(* RejectionCacheBudget and RejectedOrigins: every strategy of a nesting   *)
(* run remembers which origins it has rejected, in pages of bits that it   *)
(* allocates when it first needs them.  All strategies share one budget,   *)
(* two atomic counters; a page that the budget refuses is "unknown", and   *)
(* never rejects anything.                                                 *)
(*                                                                         *)
(* Each atomic operation is one action.  compare_exchange_weak may fail    *)
(* although the counter has the expected value.  A word has WordBits bits  *)
(* and a page PageWords words (64 and 64 in the code).                     *)
(***************************************************************************)
EXTENDS Naturals, FiniteSets

CONSTANTS Strategies,  \* the concurrent owners of a RejectedOrigins
          Size,        \* size, the number of origins of each
          WordBits, PageWords,
          PageCost,    \* pageCost
          Limit        \* limit_

ASSUME CacheAssumption ==
  /\ IsFiniteSet(Strategies)
  /\ Size \in Nat /\ Limit \in Nat
  /\ WordBits \in Nat \ {0} /\ PageWords \in Nat \ {0}
  /\ PageCost \in Nat \ {0}

VARIABLES used,      \* used_
          peak,      \* peak_
          at,        \* where each strategy is in insert()
          origin,    \* the argument of that insert()
          read,      \* the local variable used of reserve()
          readPeak,  \* the local variable peak of reserve()
          pages,     \* the pages each strategy has allocated
          rejected,  \* the bits set in these pages
          highest    \* history: the highest value of used so far

counters == <<used, peak, highest>>
locals == <<origin, read, readPeak>>
cache == <<pages, rejected>>
vars == <<counters, at, locals, cache>>

Origins == 0 .. Size - 1
PageBits == WordBits * PageWords
Page(i) == i \div PageBits
Pages == {Page(i) : i \in Origins}

\* Every variable keeps its type.
TypeOK ==
  /\ used \in Nat
  /\ peak \in Nat
  /\ highest \in Nat
  /\ at \in [Strategies -> {"idle", "swapping", "loading", "raising",
                            "allocating", "unwinding"}]
  /\ origin \in [Strategies -> Origins \cup {0}]
  /\ read \in [Strategies -> Nat]
  /\ readPeak \in [Strategies -> Nat]
  /\ pages \in [Strategies -> SUBSET Pages]
  /\ rejected \in [Strategies -> SUBSET Origins]

Init ==
  /\ used = 0
  /\ peak = 0
  /\ highest = 0
  /\ at = [s \in Strategies |-> "idle"]
  /\ origin = [s \in Strategies |-> 0]
  /\ read = [s \in Strategies |-> 0]
  /\ readPeak = [s \in Strategies |-> 0]
  /\ pages = [s \in Strategies |-> {}]
  /\ rejected = [s \in Strategies |-> {}]

Goto(s, from, to) == at[s] = from /\ at' = [at EXCEPT ![s] = to]

-----------------------------------------------------------------------------
(* Reading the cache, which nobody changes meanwhile.                      *)

Contains(s, i) == i < Size /\ Page(i) \in pages[s] /\ i \in rejected[s]

Word(i) == i \div WordBits

\* The bits of the word of i, from i on, that are not set; bits beyond the
\* last origin are never set.
Available(s, i) == {j \in i .. (Word(i) + 1) * WordBits - 1 : j \notin rejected[s]}

Least(S) == CHOOSE j \in S : \A k \in S : j <= k

\* Mutant: the scan starts every word at its first bit.
NextFreeFromWord(s) ==
  LET next[i \in 0 .. Size + WordBits] ==
        IF i >= Size THEN Size
        ELSE IF Page(i) \notin pages[s] THEN i
        ELSE IF Available(s, Word(i) * WordBits) # {}
             THEN LET j == Least(Available(s, Word(i) * WordBits))
                  IN IF j < Size THEN j ELSE Size
        ELSE next[(Word(i) + 1) * WordBits]
  IN next

\* next(i): a word without free bits is skipped as a whole.
NextFree(s) ==
  LET next[i \in 0 .. Size + WordBits] ==
        IF i >= Size THEN Size
        ELSE IF Page(i) \notin pages[s] THEN i
        ELSE IF Available(s, i) # {}
             THEN LET j == Least(Available(s, i)) IN IF j < Size THEN j ELSE Size
        ELSE next[(Word(i) + 1) * WordBits]
  IN next

-----------------------------------------------------------------------------
(* insert(i) and the reserve() it calls.                                   *)

InsertKnown(s, i) ==
  /\ at[s] = "idle"
  /\ Page(i) \in pages[s]
  /\ rejected' = [rejected EXCEPT ![s] = @ \cup {i}]
  /\ UNCHANGED <<counters, at, locals, pages>>

ReserveBegins(s, i) ==
  /\ Goto(s, "idle", "swapping")
  /\ Page(i) \notin pages[s]
  /\ origin' = [origin EXCEPT ![s] = i]
  /\ read' = [read EXCEPT ![s] = used]
  /\ UNCHANGED <<counters, readPeak, cache>>

\* insert() returns or throws: its local variables are gone.
Forgets(s) ==
  /\ origin' = [origin EXCEPT ![s] = 0]
  /\ read' = [read EXCEPT ![s] = 0]
  /\ readPeak' = [readPeak EXCEPT ![s] = 0]

Fits(s) == read[s] <= Limit /\ PageCost <= Limit - read[s]

Refused(s) ==
  /\ Goto(s, "swapping", "idle")
  /\ ~Fits(s)
  /\ Forgets(s)
  /\ UNCHANGED <<counters, cache>>

Swap(s) ==
  /\ Goto(s, "swapping", "loading")
  /\ Fits(s)
  /\ used = read[s]
  /\ used' = used + PageCost
  /\ highest' = IF used + PageCost > highest THEN used + PageCost ELSE highest
  /\ UNCHANGED <<peak, locals, cache>>

SwapFails(s) ==
  /\ at[s] = "swapping"
  /\ Fits(s)
  /\ read' = [read EXCEPT ![s] = used]
  /\ UNCHANGED <<counters, at, origin, readPeak, cache>>

PeakLoaded(s) ==
  /\ Goto(s, "loading", "raising")
  /\ readPeak' = [readPeak EXCEPT ![s] = peak]
  /\ UNCHANGED <<counters, origin, read, cache>>

Raise(s) ==
  /\ Goto(s, "raising", "allocating")
  /\ readPeak[s] < read[s] + PageCost
  /\ peak = readPeak[s]
  /\ peak' = read[s] + PageCost
  /\ UNCHANGED <<used, highest, locals, cache>>

RaiseFails(s) ==
  /\ at[s] = "raising"
  /\ readPeak[s] < read[s] + PageCost
  /\ readPeak' = [readPeak EXCEPT ![s] = peak]
  /\ UNCHANGED <<counters, at, origin, read, cache>>

PeakHigher(s) ==
  /\ Goto(s, "raising", "allocating")
  /\ readPeak[s] >= read[s] + PageCost
  /\ UNCHANGED <<counters, locals, cache>>

Allocates(s) ==
  /\ Goto(s, "allocating", "idle")
  /\ pages' = [pages EXCEPT ![s] = @ \cup {Page(origin[s])}]
  /\ rejected' = [rejected EXCEPT ![s] = @ \cup {origin[s]}]
  /\ Forgets(s)
  /\ UNCHANGED counters

\* Mutant: the reservation is not given back.
AllocateThrowsLeaking(s) ==
  /\ Goto(s, "allocating", "unwinding")
  /\ UNCHANGED <<counters, locals, cache>>

\* No memory for the page: its cost is given back.
AllocateThrows(s) ==
  /\ Goto(s, "allocating", "unwinding")
  /\ used' = used - PageCost
  /\ Forgets(s)
  /\ UNCHANGED <<peak, highest, cache>>

\* The destructor; the next sheet or strategy begins with an empty cache.
Destroyed(s) ==
  /\ \E from \in {"idle", "unwinding"} : Goto(s, from, "idle")
  /\ used' = used - PageCost * Cardinality(pages[s])
  /\ pages' = [pages EXCEPT ![s] = {}]
  /\ rejected' = [rejected EXCEPT ![s] = {}]
  /\ UNCHANGED <<peak, highest, locals>>

-----------------------------------------------------------------------------

\* What a strategy does while it searches.
Searches(s) ==
  \/ \E i \in Origins : InsertKnown(s, i) \/ ReserveBegins(s, i)
  \/ Refused(s) \/ Swap(s) \/ SwapFails(s)
  \/ PeakLoaded(s) \/ Raise(s) \/ RaiseFails(s) \/ PeakHigher(s)
  \/ Allocates(s)

Next ==
  \E s \in Strategies : Searches(s) \/ AllocateThrows(s) \/ Destroyed(s)

Spec == Init /\ [][Next]_vars

-----------------------------------------------------------------------------
(* Properties.                                                             *)

\* The pages that strategies own or have reserved.
Reserving == {s \in Strategies : at[s] \in {"loading", "raising", "allocating"}}
Owned == UNION {{s} \X pages[s] : s \in Strategies}

\* The budget is the cost of all pages that exist or are about to: nothing
\* leaks and nothing is given back twice.
Accounted == used = PageCost * (Cardinality(Owned) + Cardinality(Reserving))

\* The strategies together never exceed the limit.
WithinLimit == used <= Limit

\* Once no reservation is under way, the reported peak is the highest use.
PeakSeen == Reserving = {} => peak = highest

\* What is accounted for never exceeds the limit, and the peak is reported.
BudgetKept == Accounted /\ WithinLimit /\ PeakSeen

\* The scan of a strategy's candidates skips exactly the rejected origins:
\* unknown pages are "never rejection" (rejection_cache.hpp:35).
ScanExact ==
  \A s \in Strategies : \A i \in 0 .. Size :
    /\ NextFree(s)[i] \in i .. Size
    /\ \A j \in i .. NextFree(s)[i] - 1 : Contains(s, j)
    /\ ~Contains(s, NextFree(s)[i])

=============================================================================
