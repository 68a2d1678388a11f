----------------------------- MODULE ParallelLoop -----------------------------
(***************************************************************************)
(* ParallelLoop: one calling thread and Size - 1 persistent helpers.       *)
(* run(count, f) splits 0 .. count - 1 into one range for each slot, wakes *)
(* the helpers by advancing epoch_, executes slot 0 itself and waits until *)
(* all helpers have finished: a barrier, because f and what it captures    *)
(* belong to the caller.                                                   *)
(*                                                                         *)
(* Each critical section of mutex_ is one action; a slot is executed       *)
(* outside it.  A thread that waits on a condition variable must be        *)
(* notified, or wakes for no reason, before it looks at its predicate.     *)
(***************************************************************************)
EXTENDS Naturals

CONSTANTS Size,      \* count_, the number of slots
          MaxCount,  \* bound on the length of a range
          MaxRuns    \* bound on the number of runs with helpers

ASSUME LoopAssumption ==
  /\ Size \in Nat \ {0}
  /\ MaxCount \in Nat
  /\ MaxRuns \in Nat

Helpers == 1 .. Size - 1
Indices == 0 .. MaxCount - 1

VARIABLES caller,    \* where the calling thread is
          at,        \* where each helper is
          seen,      \* seen, for each helper
          epoch,     \* epoch_
          finished,  \* finished_
          stopping,  \* stopping_
          error,     \* error_ holds an exception
          task,      \* task_ is not empty
          count,     \* the length of the last range
          work,      \* history: how often f was applied to each index of it
          outcome    \* history: how the last run ended

helperVars == <<at, seen>>
taskVars == <<task, count, outcome>>
vars == <<caller, helperVars, epoch, finished, stopping, error, taskVars,
          work>>

\* Every variable keeps its type.
TypeOK ==
  /\ caller \in {"constructing", "idle", "notifying", "executing", "checking",
                 "asleep", "stopping", "joining", "destroyed"}
  /\ at \in [Helpers -> {"unborn", "waiting", "woken", "executing", "finishing",
                         "ended"}]
  /\ seen \in [Helpers -> 0 .. MaxRuns]
  /\ epoch \in 0 .. MaxRuns
  /\ finished \in 0 .. Size - 1
  /\ stopping \in BOOLEAN
  /\ error \in BOOLEAN
  /\ task \in BOOLEAN
  /\ count \in 0 .. MaxCount
  /\ work \in [Indices -> Nat]
  /\ outcome \in {"none", "returned", "threw"}

Init ==
  /\ caller = "constructing"
  /\ at = [h \in Helpers |-> "unborn"]
  /\ seen = [h \in Helpers |-> 0]
  /\ epoch = 0
  /\ finished = 0
  /\ stopping = FALSE
  /\ error = FALSE
  /\ task = FALSE
  /\ count = 0
  /\ work = [i \in Indices |-> 0]
  /\ outcome = "none"

\* notify_all on ready_
NotifyHelpers ==
  at' = [h \in Helpers |-> IF at[h] = "waiting" THEN "woken" ELSE at[h]]

\* notify_one on done_
NotifyCaller == caller' = IF caller = "asleep" THEN "checking" ELSE caller

-----------------------------------------------------------------------------
(* The range of a slot, and its execution.                                 *)

First(slot) == (count * slot) \div Size

\* f processes the range of the slot up to an index, and throws before it has
\* reached the end, or not at all.  The first exception is kept.
Execute(slot) ==
  \E reached \in First(slot) .. First(slot + 1) :
    /\ work' = [i \in Indices |->
                  IF First(slot) <= i /\ i < reached THEN work[i] + 1
                                                     ELSE work[i]]
    /\ error' = (error \/ reached < First(slot + 1))

-----------------------------------------------------------------------------
(* The constructor.                                                        *)

Spawn(h) ==
  /\ caller = "constructing"
  /\ at[h] = "unborn"
  /\ \A g \in Helpers : at[g] = "unborn" => h <= g
  /\ at' = [at EXCEPT ![h] = "woken"]
  /\ UNCHANGED <<caller, seen, epoch, finished, stopping, error, taskVars,
                 work>>

\* The operating system refuses a thread: stop() ends the ones that exist.
SpawnFails ==
  /\ caller = "constructing"
  /\ \E h \in Helpers : at[h] = "unborn"
  /\ caller' = "stopping"
  /\ stopping' = TRUE
  /\ UNCHANGED <<helperVars, epoch, finished, error, taskVars, work>>

Constructed ==
  /\ caller = "constructing"
  /\ \A h \in Helpers : at[h] # "unborn"
  /\ caller' = "idle"
  /\ UNCHANGED <<helperVars, epoch, finished, stopping, error, taskVars, work>>

-----------------------------------------------------------------------------
(* run(), by the calling thread.                                           *)

\* f is called directly, and what it throws passes through.
RunInline(n) ==
  /\ caller = "idle"
  /\ n <= 1 \/ Size = 1
  /\ count' = n
  /\ \E reached \in 0 .. n :
       /\ work' = [i \in Indices |-> IF i < reached THEN 1 ELSE 0]
       /\ outcome' = IF reached = n THEN "returned" ELSE "threw"
  /\ UNCHANGED <<caller, helperVars, epoch, finished, stopping, error, task>>

\* Mutant: finished_ keeps the count of the run before.
RunBeginsUncounted(n) ==
  /\ caller = "idle"
  /\ n > 1 /\ Size > 1
  /\ epoch < MaxRuns
  /\ caller' = "notifying"
  /\ task' = TRUE
  /\ count' = n
  /\ error' = FALSE
  /\ epoch' = epoch + 1
  /\ work' = [i \in Indices |-> 0]
  /\ outcome' = "none"
  /\ UNCHANGED <<helperVars, finished, stopping>>

RunBegins(n) ==
  /\ caller = "idle"
  /\ n > 1 /\ Size > 1
  /\ epoch < MaxRuns
  /\ caller' = "notifying"
  /\ task' = TRUE
  /\ count' = n
  /\ error' = FALSE
  /\ finished' = 0
  /\ epoch' = epoch + 1
  /\ work' = [i \in Indices |-> 0]
  /\ outcome' = "none"
  /\ UNCHANGED <<helperVars, stopping>>

\* Mutant: the helpers are not told of a new epoch.
RunNotifiesNobody ==
  /\ caller = "notifying"
  /\ caller' = "executing"
  /\ UNCHANGED <<helperVars, epoch, finished, stopping, error, taskVars, work>>

RunNotifies ==
  /\ caller = "notifying"
  /\ caller' = "executing"
  /\ NotifyHelpers
  /\ UNCHANGED <<seen, epoch, finished, stopping, error, taskVars, work>>

RunExecutes ==
  /\ caller = "executing"
  /\ caller' = "checking"
  /\ Execute(0)
  /\ UNCHANGED <<helperVars, epoch, finished, stopping, taskVars>>

RunWaits ==
  /\ caller = "checking"
  /\ finished # Size - 1
  /\ caller' = "asleep"
  /\ UNCHANGED <<helperVars, epoch, finished, stopping, error, taskVars, work>>

CallerWakes ==
  /\ caller = "asleep"
  /\ caller' = "checking"
  /\ UNCHANGED <<helperVars, epoch, finished, stopping, error, taskVars, work>>

RunEnds ==
  /\ caller = "checking"
  /\ finished = Size - 1
  /\ caller' = "idle"
  /\ task' = FALSE
  /\ outcome' = IF error THEN "threw" ELSE "returned"
  /\ UNCHANGED <<helperVars, epoch, finished, stopping, error, count, work>>

-----------------------------------------------------------------------------
(* stop(), from the destructor or a failed constructor.                    *)

Stop ==
  /\ caller = "idle"
  /\ caller' = "stopping"
  /\ stopping' = TRUE
  /\ UNCHANGED <<helperVars, epoch, finished, error, taskVars, work>>

StopNotifies ==
  /\ caller = "stopping"
  /\ caller' = "joining"
  /\ NotifyHelpers
  /\ UNCHANGED <<seen, epoch, finished, stopping, error, taskVars, work>>

Joined ==
  /\ caller = "joining"
  /\ \A h \in Helpers : at[h] \in {"unborn", "ended"}
  /\ caller' = "destroyed"
  /\ UNCHANGED <<helperVars, epoch, finished, stopping, error, taskVars, work>>

Caller == \/ Constructed \/ RunNotifies \/ RunExecutes \/ RunWaits \/ RunEnds
          \/ StopNotifies \/ Joined

-----------------------------------------------------------------------------
(* A helper.                                                               *)

\* The predicate of ready_.wait, evaluated with the mutex held.
Sleeps(h) == ~stopping /\ epoch = seen[h]

HelperWaits(h) ==
  /\ at[h] = "woken"
  /\ Sleeps(h)
  /\ at' = [at EXCEPT ![h] = "waiting"]
  /\ UNCHANGED <<caller, seen, epoch, finished, stopping, error, taskVars,
                 work>>

HelperWakes(h) ==
  /\ at[h] = "waiting"
  /\ at' = [at EXCEPT ![h] = "woken"]
  /\ UNCHANGED <<caller, seen, epoch, finished, stopping, error, taskVars,
                 work>>

\* Mutant: the helper forgets which epoch it has executed.
HelperBeginsUnseen(h) ==
  /\ at[h] = "woken"
  /\ ~stopping
  /\ epoch # seen[h]
  /\ at' = [at EXCEPT ![h] = "executing"]
  /\ UNCHANGED <<caller, seen, epoch, finished, stopping, error, taskVars,
                 work>>

HelperBegins(h) ==
  /\ at[h] = "woken"
  /\ ~stopping
  /\ epoch # seen[h]
  /\ at' = [at EXCEPT ![h] = "executing"]
  /\ seen' = [seen EXCEPT ![h] = epoch]
  /\ UNCHANGED <<caller, epoch, finished, stopping, error, taskVars, work>>

HelperExecutes(h) ==
  /\ at[h] = "executing"
  /\ at' = [at EXCEPT ![h] = "finishing"]
  /\ Execute(h)
  /\ UNCHANGED <<caller, seen, epoch, finished, stopping, taskVars>>

\* The mutex is kept from the increment until the helper sleeps again.
HelperFinishes(h) ==
  /\ at[h] = "finishing"
  /\ finished' = finished + 1
  /\ NotifyCaller
  /\ at' = [at EXCEPT ![h] = IF Sleeps(h) THEN "waiting" ELSE "woken"]
  /\ UNCHANGED <<seen, epoch, stopping, error, taskVars, work>>

HelperEnds(h) ==
  /\ at[h] = "woken"
  /\ stopping
  /\ at' = [at EXCEPT ![h] = "ended"]
  /\ UNCHANGED <<caller, seen, epoch, finished, stopping, error, taskVars,
                 work>>

Helper(h) == \/ HelperWaits(h) \/ HelperBegins(h) \/ HelperExecutes(h)
             \/ HelperFinishes(h) \/ HelperEnds(h)

-----------------------------------------------------------------------------

Next ==
  \/ SpawnFails \/ Stop \/ CallerWakes \/ Caller
  \/ \E n \in 0 .. MaxCount : RunInline(n) \/ RunBegins(n)
  \/ \E h \in Helpers : Spawn(h) \/ Helper(h) \/ HelperWakes(h)

\* Threads run, and f returns or throws.
Fairness == WF_vars(Caller) /\ \A h \in Helpers : WF_vars(Helper(h))

Spec == Init /\ [][Next]_vars /\ Fairness

-----------------------------------------------------------------------------
(* Properties.                                                             *)

\* "A run is a barrier: captured input and per-worker output remain owned by
\* the caller until every helper has finished" (parallel_loop.hpp:13).
Barrier == \A h \in Helpers : at[h] \in {"executing", "finishing"} =>
             task /\ caller \in {"notifying", "executing", "checking", "asleep"}

\* However late a helper is, no index is processed twice in one run; a run
\* that returns has processed its whole range, and one that throws has not.
ExactlyOnce ==
  /\ \A i \in Indices : work[i] <= 1
  /\ outcome = "returned" => \A i \in 0 .. count - 1 : work[i] = 1
  /\ outcome = "threw" => \E i \in 0 .. count - 1 : work[i] = 0

\* Every run ends, if f does; destruction, or a failed construction, joins all
\* helpers and ends.
LoopEnds ==
  /\ caller = "notifying" ~> caller = "idle"
  /\ caller = "stopping" ~> caller = "destroyed"

=============================================================================
