-------------------------- MODULE ContinuousNesting --------------------------
(***************************************************************************)
(* runContinuousNesting: one seed pass, one round of a grid search with    *)
(* contact/repair helpers, a baseline, an idle wait, and the shutdown.     *)
(* All of them offer layouts to consider(), which keeps the incumbent      *)
(* under incumbentMutex and submits every improvement to the publisher     *)
(* (LatestResultPublisher, whose variables and actions this module uses)   *)
(* before it releases that mutex.  The publisher's worker measures the     *)
(* offcut, calls onImprovement, and writes the offcut back to the          *)
(* incumbent.                                                              *)
(*                                                                         *)
(* A layout is its number of unplaced parts, its waste (standing for the   *)
(* whole lexicographic rest of the quality, compared exactly), and its     *)
(* layoutInProgress flag.  What a search finds is arbitrary.  The grid     *)
(* search is the main thread: its workers call consider() one at a time,   *)
(* under publishMutex.                                                     *)
(***************************************************************************)
EXTENDS Naturals, Sequences

CONSTANTS Helpers,    \* the pool of a hybrid round, empty for a plain round
          Parts,      \* number of input parts
          Wastes,     \* the qualities of layouts that place equally many
          MaxSubmit   \* bound on the number of improvements

Main == "main"
Threads == Helpers \cup {Main}

ASSUME ContinuousAssumption ==
  /\ Main \notin Helpers /\ "nobody" \notin Helpers
  /\ Parts \in Nat
  /\ Wastes \subseteq Nat /\ 0 \in Wastes
  /\ MaxSubmit \in Nat

Layouts == [unplaced : 0 .. Parts, waste : Wastes, inProgress : BOOLEAN]
Baseline == [unplaced |-> Parts, waste |-> 0, inProgress |-> FALSE]

\* improvesLayout
Improves(a, b) ==
  \/ a.unplaced < b.unplaced
  \/ a.unplaced = b.unplaced /\ a.waste < b.waste

VARIABLES
  pending, closing, error, failed, worker, current, owner, outcome, accepted,
  delivered,      \* the LatestResultPublisher
  pc,             \* where each thread is
  lock,           \* the thread that holds incumbentMutex, "nobody" or a thread
  incumbent,      \* incumbent: has a layout been accepted
  best,           \* best: the accepted layout
  offcut,         \* the revision whose offcut is stored in best, 0 if none
  bestRevision,   \* bestRevision
  submitted,      \* history: the layouts given to the publisher
  reporter,       \* where the publisher's consumer is
  seedLeft,       \* unplaced parts of the seed pass's last snapshot
  finished,       \* finished: the helpers of the round shall stop
  helperError,    \* error of the round holds an exception
  stopRequested,  \* stop() returns true
  expired,        \* the time limit has passed
  cancelled,      \* final flags of the returned result
  timeLimit

publisherVars == <<pending, closing, error, failed, worker, current, owner,
                   outcome, accepted, delivered>>
bestVars == <<incumbent, best, offcut, bestRevision>>
roundVars == <<finished, helperError>>
stopVars == <<stopRequested, expired>>
finalVars == <<cancelled, timeLimit>>
vars == <<publisherVars, bestVars, roundVars, stopVars, finalVars, pc, lock,
          submitted, reporter, seedLeft>>

Publisher == INSTANCE LatestResultPublisher WITH Producers <- Threads

MainStates == {"start", "seeding", "round", "grid", "joining", "baseline",
               "idle", "closing", "returned", "unwinding", "threw"}
HelperStates == {"off", "looping", "trial"}

\* Every variable keeps its type.
TypeOK ==
  /\ Publisher!TypeOK
  /\ pc[Main].at \in MainStates
  /\ \A h \in Helpers : pc[h].at \in HelperStates
  /\ \A t \in Threads : pc[t].holding \subseteq Layouts
  /\ lock \in Threads \cup {"nobody"}
  /\ incumbent \in BOOLEAN
  /\ best \in Layouts
  /\ offcut \in Nat
  /\ bestRevision \in Nat
  /\ submitted \in Seq(Layouts)
  /\ reporter \in {"callback", "writeback"}
  /\ seedLeft \in 0 .. Parts
  /\ finished \in BOOLEAN
  /\ helperError \in BOOLEAN
  /\ stopRequested \in BOOLEAN
  /\ expired \in BOOLEAN
  /\ cancelled \in BOOLEAN
  /\ timeLimit \in BOOLEAN

Init ==
  /\ Publisher!Init
  /\ pc = [t \in Threads |->
             [at |-> IF t = Main THEN "start" ELSE "off", holding |-> {}]]
  /\ lock = "nobody"
  /\ incumbent = FALSE
  /\ best = Baseline
  /\ offcut = 0
  /\ bestRevision = 0
  /\ submitted = <<>>
  /\ reporter = "callback"
  /\ seedLeft = Parts
  /\ finished = FALSE
  /\ helperError = FALSE
  /\ stopRequested = FALSE
  /\ expired = FALSE
  /\ cancelled = FALSE
  /\ timeLimit = FALSE

\* The condition under which every loop of the session ends.
Over == failed \/ stopRequested \/ expired

At(t, state) == pc[t].at = state /\ pc[t].holding = {}
Goto(t, state) == pc' = [pc EXCEPT ![t] = [at |-> state, holding |-> {}]]

-----------------------------------------------------------------------------
(* consider(), by thread t, whose search has produced the given layout and *)
(* which then continues at next.  Accepting a layout and submitting it are *)
(* two steps of one critical section of incumbentMutex.  The numbers of    *)
(* the publisher and bestRevision agree until a submission throws, after   *)
(* which nothing is reported any more.                                     *)

Accept(t, next, layout) ==
  /\ lock = "nobody"
  /\ incumbent => Improves(layout, best)
  /\ accepted < MaxSubmit
  /\ bestRevision' = bestRevision + 1
  /\ best' = layout
  /\ incumbent' = TRUE
  /\ offcut' = 0
  /\ pc' = [pc EXCEPT ![t] = [at |-> next, holding |-> {layout}]]
  /\ lock' = t

\* A layout that is no improvement can still tell that the pass is finished.
Reject(layout) ==
  /\ lock = "nobody"
  /\ incumbent
  /\ ~Improves(layout, best)
  /\ best' = IF ~layout.inProgress /\ layout.unplaced = best.unplaced
             THEN [best EXCEPT !.inProgress = FALSE]
             ELSE best
  /\ UNCHANGED <<incumbent, offcut, bestRevision, lock>>

Consider(t, next, layout) ==
  /\ \/ Accept(t, next, layout)
     \/ Reject(layout) /\ Goto(t, next)
  /\ UNCHANGED <<publisherVars, stopVars, finalVars, submitted, reporter>>

\* publisher.submit returns, and the critical section ends.
Submit(t) ==
  /\ pc[t].holding # {}
  /\ Publisher!SubmitAccepted(t)
  /\ \E layout \in pc[t].holding : submitted' = Append(submitted, layout)
  /\ pc' = [pc EXCEPT ![t].holding = {}]
  /\ lock' = "nobody"
  /\ UNCHANGED <<bestVars, roundVars, stopVars, finalVars, reporter, seedLeft>>

\* publisher.submit rethrows a reporting failure: the caller's search ends.
SubmitThrows(t) ==
  /\ pc[t].holding # {}
  /\ Publisher!SubmitThrows(t)
  /\ lock' = "nobody"
  /\ IF t = Main
     THEN /\ Goto(Main, "unwinding")
          /\ finished' = TRUE
          /\ UNCHANGED helperError
     ELSE /\ Goto(t, "off")
          /\ finished' = TRUE
          /\ helperError' = TRUE
  /\ UNCHANGED <<bestVars, stopVars, finalVars, submitted, reporter, seedLeft>>

-----------------------------------------------------------------------------
(* The publisher's consumer.                                               *)

\* The offcut was measured and onImprovement returned.
Report ==
  /\ worker = "consuming"
  /\ reporter = "callback"
  /\ reporter' = "writeback"
  /\ UNCHANGED <<publisherVars, bestVars, roundVars, stopVars, finalVars, pc,
                 lock, submitted, seedLeft>>

\* Mutant: the offcut of an older snapshot is stored in a newer layout.
WriteBackStale ==
  /\ reporter = "writeback"
  /\ lock = "nobody"
  /\ offcut' = current
  /\ Publisher!ConsumeReturns
  /\ reporter' = "callback"
  /\ UNCHANGED <<incumbent, best, bestRevision, roundVars, stopVars, finalVars,
                 pc, lock, submitted, seedLeft>>

\* Under incumbentMutex, the offcut goes to the layout it was measured for.
WriteBack ==
  /\ reporter = "writeback"
  /\ lock = "nobody"
  /\ offcut' = IF current = bestRevision THEN current ELSE offcut
  /\ Publisher!ConsumeReturns
  /\ reporter' = "callback"
  /\ UNCHANGED <<incumbent, best, bestRevision, roundVars, stopVars, finalVars,
                 pc, lock, submitted, seedLeft>>

\* Measuring or saving a layout failed.
ReportThrows ==
  /\ reporter = "callback"
  /\ Publisher!ConsumeThrows
  /\ UNCHANGED <<bestVars, roundVars, stopVars, finalVars, pc, lock, submitted,
                 reporter, seedLeft>>

\* The other steps of the worker thread.
PublisherStep ==
  /\ \/ Publisher!WorkerWait \/ Publisher!WorkerTake \/ Publisher!WorkerReturn
     \/ Publisher!RecordFailure
  /\ UNCHANGED <<bestVars, roundVars, stopVars, finalVars, pc, lock, submitted,
                 reporter, seedLeft>>

Reporter == Report \/ WriteBack \/ ReportThrows \/ PublisherStep

-----------------------------------------------------------------------------
(* The main thread.                                                        *)

SeedBegins ==
  /\ At(Main, "start")
  /\ Goto(Main, IF stopRequested \/ expired THEN "round" ELSE "seeding")
  /\ UNCHANGED <<publisherVars, bestVars, roundVars, stopVars, finalVars, lock,
                 submitted, reporter, seedLeft>>

\* A snapshot of the pass shows more parts placed than the one before.
SeedSnapshot ==
  /\ At(Main, "seeding")
  /\ \E layout \in Layouts :
       /\ layout.inProgress
       /\ layout.unplaced < seedLeft
       /\ seedLeft' = layout.unplaced
       /\ Consider(Main, "seeding", layout)
  /\ UNCHANGED roundVars

\* The pass ends by itself or because it was stopped, and keeps its parts.
SeedEnds ==
  /\ At(Main, "seeding")
  /\ \E layout \in Layouts :
       /\ ~layout.inProgress
       /\ layout.unplaced <= seedLeft
       /\ Consider(Main, "round", layout)
  /\ UNCHANGED <<roundVars, seedLeft>>

RoundBegins ==
  /\ At(Main, "round")
  /\ ~Over
  /\ pc' = [t \in Threads |->
              [at |-> IF t = Main THEN "grid" ELSE "looping", holding |-> {}]]
  /\ UNCHANGED <<publisherVars, bestVars, roundVars, stopVars, finalVars, lock,
                 submitted, reporter, seedLeft>>

RoundSkipped ==
  /\ At(Main, "round")
  /\ Over
  /\ Goto(Main, "baseline")
  /\ UNCHANGED <<publisherVars, bestVars, roundVars, stopVars, finalVars, lock,
                 submitted, reporter, seedLeft>>

GridFinds ==
  /\ At(Main, "grid")
  /\ \E layout \in Layouts :
       ~layout.inProgress /\ Consider(Main, "grid", layout)
  /\ UNCHANGED <<roundVars, seedLeft>>

GridEnds ==
  /\ At(Main, "grid")
  /\ Goto(Main, "joining")
  /\ finished' = TRUE
  /\ UNCHANGED <<publisherVars, bestVars, helperError, stopVars, finalVars,
                 lock, submitted, reporter, seedLeft>>

\* The search of the seed pass or of the grid throws.
SearchThrows ==
  /\ At(Main, "seeding") \/ At(Main, "grid")
  /\ Goto(Main, "unwinding")
  /\ finished' = TRUE
  /\ UNCHANGED <<publisherVars, bestVars, helperError, stopVars, finalVars,
                 lock, submitted, reporter, seedLeft>>

PoolJoined == \A h \in Helpers : At(h, "off")

RoundEnds ==
  /\ At(Main, "joining")
  /\ PoolJoined
  /\ ~helperError
  /\ \E layout \in Layouts :
       ~layout.inProgress /\ Consider(Main, "baseline", layout)
  /\ UNCHANGED <<roundVars, seedLeft>>

RoundRethrows ==
  /\ At(Main, "joining")
  /\ PoolJoined
  /\ helperError
  /\ Goto(Main, "unwinding")
  /\ UNCHANGED <<publisherVars, bestVars, roundVars, stopVars, finalVars, lock,
                 submitted, reporter, seedLeft>>

BaselineConsidered ==
  /\ At(Main, "baseline")
  /\ ~incumbent
  /\ ~stopRequested
  /\ Consider(Main, "idle", Baseline)
  /\ UNCHANGED <<roundVars, seedLeft>>

\* Mutant: no baseline after the deadline either.
BaselineSkippedWhenOver ==
  /\ At(Main, "baseline")
  /\ incumbent \/ stopRequested \/ expired
  /\ Goto(Main, "idle")
  /\ UNCHANGED <<publisherVars, bestVars, roundVars, stopVars, finalVars, lock,
                 submitted, reporter, seedLeft>>

BaselineSkipped ==
  /\ At(Main, "baseline")
  /\ incumbent \/ stopRequested
  /\ Goto(Main, "idle")
  /\ UNCHANGED <<publisherVars, bestVars, roundVars, stopVars, finalVars, lock,
                 submitted, reporter, seedLeft>>

\* Mutant: the idle wait does not look at publisher.failed().
IdleEndsOnStop ==
  /\ At(Main, "idle")
  /\ stopRequested \/ expired
  /\ Publisher!BeginClose
  /\ Goto(Main, "closing")
  /\ UNCHANGED <<bestVars, roundVars, stopVars, finalVars, lock, submitted,
                 reporter, seedLeft>>

IdleEnds ==
  /\ At(Main, "idle")
  /\ Over
  /\ Publisher!BeginClose
  /\ Goto(Main, "closing")
  /\ UNCHANGED <<bestVars, roundVars, stopVars, finalVars, lock, submitted,
                 reporter, seedLeft>>

\* publisher.close() has joined the worker, and returns or rethrows.
Return ==
  /\ At(Main, "closing")
  /\ ~error
  /\ Publisher!FinishClose
  /\ Goto(Main, "returned")
  /\ cancelled' = stopRequested
  /\ timeLimit' = (expired /\ ~stopRequested)
  /\ UNCHANGED <<bestVars, roundVars, stopVars, lock, submitted, reporter,
                 seedLeft>>

CloseRethrows ==
  /\ At(Main, "closing")
  /\ error
  /\ Publisher!FinishClose
  /\ Goto(Main, "unwinding")
  /\ UNCHANGED <<bestVars, roundVars, stopVars, finalVars, lock, submitted,
                 reporter, seedLeft>>

\* The pool is joined, then the publisher is destroyed, which drains it.
UnwindBegins ==
  /\ At(Main, "unwinding")
  /\ PoolJoined
  /\ Publisher!BeginDestroy
  /\ UNCHANGED <<bestVars, roundVars, stopVars, finalVars, pc, lock, submitted,
                 reporter, seedLeft>>

UnwindEnds ==
  /\ At(Main, "unwinding")
  /\ Publisher!FinishDestroy
  /\ Goto(Main, "threw")
  /\ UNCHANGED <<bestVars, roundVars, stopVars, finalVars, lock, submitted,
                 reporter, seedLeft>>

\* What the main thread does without waiting for a search to find something.
MainProceeds ==
  \/ SeedBegins \/ SeedEnds \/ RoundBegins \/ RoundSkipped \/ GridEnds
  \/ RoundEnds \/ RoundRethrows \/ BaselineConsidered \/ BaselineSkipped
  \/ IdleEnds \/ Return \/ CloseRethrows \/ UnwindBegins \/ UnwindEnds
  \/ Submit(Main) \/ SubmitThrows(Main)

-----------------------------------------------------------------------------
(* A helper of the round.                                                  *)

HelperBegins(h) ==
  /\ At(h, "looping")
  /\ ~finished
  /\ ~Over
  /\ Goto(h, "trial")
  /\ UNCHANGED <<publisherVars, bestVars, roundVars, stopVars, finalVars, lock,
                 submitted, reporter, seedLeft>>

HelperFinds(h) ==
  /\ At(h, "trial")
  /\ \E layout \in Layouts : ~layout.inProgress /\ Consider(h, "trial", layout)
  /\ UNCHANGED <<roundVars, seedLeft>>

\* A contact, group or repair trial ends, by itself or because it is stopped.
HelperTrialEnds(h) ==
  /\ At(h, "trial")
  /\ \E layout \in Layouts :
       ~layout.inProgress /\ Consider(h, "looping", layout)
  /\ UNCHANGED <<roundVars, seedLeft>>

HelperThrows(h) ==
  /\ At(h, "trial")
  /\ Goto(h, "off")
  /\ finished' = TRUE
  /\ helperError' = TRUE
  /\ UNCHANGED <<publisherVars, bestVars, stopVars, finalVars, lock, submitted,
                 reporter, seedLeft>>

HelperEnds(h) ==
  /\ At(h, "looping")
  /\ finished \/ Over
  /\ Goto(h, "off")
  /\ UNCHANGED <<publisherVars, bestVars, roundVars, stopVars, finalVars, lock,
                 submitted, reporter, seedLeft>>

HelperProceeds(h) == \/ HelperTrialEnds(h) \/ HelperEnds(h)
                     \/ Submit(h) \/ SubmitThrows(h)

-----------------------------------------------------------------------------
(* The user and the clock.                                                 *)

UserStops ==
  /\ ~stopRequested
  /\ stopRequested' = TRUE
  /\ UNCHANGED <<publisherVars, bestVars, roundVars, expired, finalVars, pc,
                 lock, submitted, reporter, seedLeft>>

TimeExpires ==
  /\ ~expired
  /\ expired' = TRUE
  /\ UNCHANGED <<publisherVars, bestVars, roundVars, stopRequested, finalVars,
                 pc, lock, submitted, reporter, seedLeft>>

-----------------------------------------------------------------------------

Next ==
  \/ SeedSnapshot \/ GridFinds \/ SearchThrows \/ MainProceeds
  \/ \E h \in Helpers : HelperBegins(h) \/ HelperFinds(h) \/ HelperThrows(h)
                        \/ HelperProceeds(h)
  \/ Reporter
  \/ UserStops \/ TimeExpires

\* Searches need not end by themselves, but their stop hooks make them end
\* once the session is over; a round also ends for its helpers when finished
\* is set.  Threads that hold incumbentMutex release it; the reporter runs.
Fairness ==
  /\ WF_vars(Over /\ MainProceeds)
  /\ WF_vars(At(Main, "unwinding") /\ MainProceeds)
  /\ \A h \in Helpers : WF_vars((Over \/ finished) /\ HelperProceeds(h))
  /\ \A t \in Threads : WF_vars(Submit(t) \/ SubmitThrows(t))
  /\ WF_vars(Reporter)

Spec == Init /\ [][Next]_vars /\ Fairness

-----------------------------------------------------------------------------
(* Properties.                                                             *)

Returned == pc[Main].at = "returned"

\* The layouts handed to the reporting thread, and so the numbered results,
\* form a sequence of improvements although several searches compete
\* ("saved layouts remain ordered improvements", README.md:474).
SavedImprove ==
  \A i, j \in DOMAIN submitted :
    i < j => Improves(submitted[j], submitted[i])

\* An offcut stored in the incumbent was measured on that incumbent
\* (continuous_nesting.cpp:111).
OffcutOfBest == offcut \in {0, bestRevision}

\* The incumbent is what all searches together have found.
IncumbentSound == TypeOK /\ SavedImprove /\ OffcutOfBest

\* A normal return hands out the layout that was reported last, with its
\* offcut and no longer flagged as in progress: "the final pending result is drained on shutdown" (README.md:475).
FinalIsReported ==
  Returned /\ incumbent =>
    /\ delivered = bestRevision
    /\ Len(submitted) = bestRevision
    /\ best.unplaced = submitted[bestRevision].unplaced
    /\ best.waste = submitted[bestRevision].waste
    /\ offcut = bestRevision
    /\ ~best.inProgress

\* A normal return hides nothing, hands out the layout that was reported last,
\* and has a reason.  No report and no helper
\* failed.  The user or the time limit ended the session, never an exhausted
\* search (README.md:460).  Unless the user stopped it, a result was reported:
\* "even an immediate deadline produces a complete baseline"
\* (continuous_nesting.cpp:278).
ReturnsHonestly ==
  /\ FinalIsReported
  /\ Returned =>
       /\ ~error /\ ~helperError
       /\ cancelled \/ timeLimit
       /\ ~cancelled => delivered > 0

\* After a stop, the deadline or a failed report the session ends.
RunEnds == Over ~> pc[Main].at \in {"returned", "threw"}

=============================================================================
