---------------------------- MODULE StrategyTrials ----------------------------
(***************************************************************************)
(* placePartsBitmap: a few worker threads draw the trials (orders of the   *)
(* parts) of one nesting run, the best layout is returned.  A worker makes *)
(* one trial after the other; while it makes one it uses the cache of      *)
(* rejected origins, whose variables and actions (RejectionCache) this     *)
(* module uses, so that all workers share its budget.                      *)
(*                                                                         *)
(* A trial that is not interrupted has a fixed score: what it places does  *)
(* not depend on the other workers nor on pages that the budget refuses.   *)
(* An interrupted trial may have any score, and not every interruption is  *)
(* reported: the vector refinement and the condition of the refill loop    *)
(* poll the deadline without setting timeLimitReached.  A Trial that was   *)
(* never started is empty, which scores better than every layout.          *)
(***************************************************************************)
EXTENDS RejectionCache

CONSTANTS TrialCount,  \* trialCount, 1 to 4 in the code
          MaxScore     \* scores are 1 .. MaxScore, lower is better

\* There is a worker: the caller is one.
ASSUME TrialAssumption ==
  Strategies # {} /\ TrialCount \in Nat \ {0} /\ MaxScore \in Nat \ {0}

VARIABLES next,     \* the counter next
          where,    \* where each worker is in work()
          job,      \* the trial i of each worker
          trials,   \* trials
          quality,  \* the score of each trial when nothing interrupts it
          over,     \* the deadline has passed, or a stop was requested
          error,    \* error holds the first exception
          result    \* how placePartsBitmap ended

trialVars == <<next, where, job, trials, quality, over, error, result>>
allVars == <<vars, trialVars>>

Trials == 0 .. TrialCount - 1
NoTrial == TrialCount
NotStarted == [started |-> FALSE, stopped |-> FALSE, score |-> 0]
NotEnded == [end |-> "none", best |-> 0, completed |-> 0, peak |-> 0]

TrialsInit ==
  /\ Init
  /\ next = 0
  /\ where = [w \in Strategies |-> "looking"]
  /\ job = [w \in Strategies |-> NoTrial]
  /\ trials = [t \in Trials |-> NotStarted]
  /\ quality \in [Trials -> 1 .. MaxScore]
  /\ over = FALSE
  /\ error = FALSE
  /\ result = NotEnded

WorkerGoes(w, from, to) == where[w] = from /\ where' = [where EXCEPT ![w] = to]

\* A poll of the deadline.  A stop that was told once may be denied later.
Polls == IF over THEN BOOLEAN ELSE {FALSE}

-----------------------------------------------------------------------------
(* work(), on every thread.                                                *)

Leaves(w) ==
  /\ WorkerGoes(w, "looking", "ended")
  /\ TRUE \in Polls \/ next >= TrialCount
  /\ UNCHANGED <<vars, next, job, trials, quality, over, error, result>>

Claims(w) ==
  /\ WorkerGoes(w, "looking", "running")
  /\ FALSE \in Polls
  /\ next < TrialCount
  /\ next' = next + 1
  /\ job' = [job EXCEPT ![w] = next]
  /\ trials' = [trials EXCEPT ![next].started = TRUE]
  /\ UNCHANGED <<vars, quality, over, error, result>>

\* The search of a sheet looks up and remembers rejected origins.
UsesCache(w) ==
  /\ where[w] = "running"
  /\ Searches(w)
  /\ UNCHANGED trialVars

\* The cache of a sheet, or of a refill, is destroyed.
CacheGoes(w) ==
  /\ where[w] \in {"running", "throwing"}
  /\ pages[w] # {} \/ at[w] = "unwinding"
  /\ Destroyed(w)
  /\ UNCHANGED trialVars

CacheThrows(w) ==
  /\ WorkerGoes(w, "running", "throwing")
  /\ AllocateThrows(w)
  /\ UNCHANGED <<next, job, trials, quality, over, error, result>>

\* Anything else throws; the caches are destroyed on the way out.
WorkerThrows(w) ==
  /\ \E from \in {"looking", "running"} : WorkerGoes(w, from, "throwing")
  /\ at[w] = "idle"
  /\ UNCHANGED <<vars, next, job, trials, quality, over, error, result>>

NoCache(w) == at[w] = "idle" /\ pages[w] = {}

\* How a trial may end: interrupted or not, and if so with timeLimitReached
\* (stopped) or without.
Endings(t) ==
  [stopped : {FALSE}, score : {quality[t]}]
    \cup IF TRUE \in Polls THEN [stopped : BOOLEAN, score : 1 .. MaxScore] ELSE {}

\* The result of the last sheet is added to the trial.
Ends(w) ==
  /\ WorkerGoes(w, "running", "looking")
  /\ NoCache(w)
  /\ \E ending \in Endings(job[w]) :
       trials' = [trials EXCEPT ![job[w]].score = ending.score,
                                ![job[w]].stopped = ending.stopped]
  /\ job' = [job EXCEPT ![w] = NoTrial]
  /\ UNCHANGED <<vars, next, quality, over, error, result>>

\* The first exception is kept; the other workers go on.
RecordsError(w) ==
  /\ WorkerGoes(w, "throwing", "ended")
  /\ NoCache(w)
  /\ error' = TRUE
  /\ UNCHANGED <<vars, next, job, trials, quality, over, result>>

-----------------------------------------------------------------------------
(* The caller, which is one of the workers, and the clock.                 *)

Joined == result = NotEnded /\ \A w \in Strategies : where[w] = "ended"

Rethrows ==
  /\ Joined
  /\ error
  /\ result' = [NotEnded EXCEPT !.end = "threw"]
  /\ UNCHANGED <<vars, next, where, job, trials, quality, over, error>>

Started == {t \in Trials : trials[t].started}

\* The first of the trials in S with the lowest score; trial 0 if there is none.
FirstBest(S) ==
  IF S = {} THEN 0
  ELSE CHOOSE t \in S : \A u \in S : \/ trials[t].score < trials[u].score
                                     \/ trials[t].score = trials[u].score /\ t <= u

\* Mutant: a trial that was never started is looked at.
BestOfAll == FirstBest(Trials)

Best == FirstBest(Started)

Returns ==
  /\ Joined
  /\ ~error
  /\ result' = [end |-> "returned", best |-> Best, peak |-> peak,
                completed |-> Cardinality({t \in Started : ~trials[t].stopped})]
  /\ UNCHANGED <<vars, next, where, job, trials, quality, over, error>>

TimePasses ==
  /\ ~over
  /\ over' = TRUE
  /\ UNCHANGED <<vars, next, where, job, trials, quality, error, result>>

-----------------------------------------------------------------------------

TrialsNext ==
  \/ \E w \in Strategies :
       \/ Leaves(w) \/ Claims(w)
       \/ UsesCache(w) \/ CacheGoes(w) \/ CacheThrows(w)
       \/ WorkerThrows(w) \/ Ends(w) \/ RecordsError(w)
  \/ Rethrows \/ Returns \/ TimePasses

TrialsSpec == TrialsInit /\ [][TrialsNext]_allVars

-----------------------------------------------------------------------------
(* Properties.                                                             *)

\* What is returned does not depend on how the workers were scheduled: if time
\* permits it is the first of the best of all trials, with all of them counted
\* as completed, and always the first best of those that were started, all of
\* which have ended.  Every page was given back, so that the reported peak is final.
\* (That all are counted does not mean that time permitted.)
ReturnsBest ==
  result.end = "returned" =>
    LET best == result.best IN
    /\ \A t \in Started : trials[t].score \in 1 .. MaxScore
    /\ Started # {} => /\ best \in Started
                       /\ \A t \in Started :
                            \/ trials[best].score < trials[t].score
                            \/ trials[best].score = trials[t].score /\ best <= t
    /\ ~over => /\ result.completed = TrialCount
                /\ \A t \in Trials : \/ quality[best] < quality[t]
                                     \/ quality[best] = quality[t] /\ best <= t
    /\ used = 0 /\ result.peak = highest

=============================================================================
