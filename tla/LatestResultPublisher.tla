----------------------- MODULE LatestResultPublisher -----------------------
(***************************************************************************)
(* detail::LatestResultPublisher: a one-slot mailbox between the search    *)
(* threads, which submit layouts, and one worker thread, which reports     *)
(* them.  mutex_ protects the slot, closing_ and error_, and nothing       *)
(* blocks while holding it, so every critical section is one action.       *)
(* ready_ is the condition variable on which only the worker waits.        *)
(* A value is represented by the number under which it was accepted.       *)
(***************************************************************************)
EXTENDS Naturals

CONSTANTS Producers,  \* the threads that call submit()
          MaxSubmit   \* bound on the number of accepted values

ASSUME MaxSubmitAssumption == MaxSubmit \in Nat

VARIABLES pending,    \* pending_: an accepted value, 0 when the slot is empty
          closing,    \* closing_
          error,      \* error_ holds an exception
          failed,     \* failed_
          worker,     \* where the worker thread is in run()
          current,    \* the value the worker has taken, 0 when it has none
          owner,      \* where the owning thread is in close() and ~...()
          outcome,    \* how the last submit() of each producer ended
          accepted,   \* number of the newest accepted value
          delivered   \* number of the last value consume_ returned from

vars == <<pending, closing, error, failed, worker, current, owner, outcome,
          accepted, delivered>>

WorkerStates == {"checking", "waiting", "consuming", "failing", "done"}
OwnerStates == {"open", "joining", "closed", "rethrown", "destroying",
                "destroyed"}
Outcomes == {"none", "accepted", "ignored", "threw"}

TypeOK ==
  /\ pending \in 0 .. MaxSubmit
  /\ closing \in BOOLEAN
  /\ error \in BOOLEAN
  /\ failed \in BOOLEAN
  /\ worker \in WorkerStates
  /\ current \in 0 .. MaxSubmit
  /\ owner \in OwnerStates
  /\ outcome \in [Producers -> Outcomes]
  /\ accepted \in 0 .. MaxSubmit
  /\ delivered \in 0 .. MaxSubmit

Init ==
  /\ pending = 0
  /\ closing = FALSE
  /\ error = FALSE
  /\ failed = FALSE
  /\ worker = "checking"
  /\ current = 0
  /\ owner = "open"
  /\ outcome = [p \in Producers |-> "none"]
  /\ accepted = 0
  /\ delivered = 0

\* Mutant: the notification is forgotten.
NotifyForgotten == UNCHANGED worker

\* ready_.notify_one(): the worker is the only thread that can be waiting.
Notify == worker' = IF worker = "waiting" THEN "checking" ELSE worker

-----------------------------------------------------------------------------
(* submit(), called by any search thread while the object is alive.        *)

Alive == owner \notin {"destroying", "destroyed"}

SubmitThrows(p) ==
  /\ Alive
  /\ error
  /\ outcome' = [outcome EXCEPT ![p] = "threw"]
  /\ UNCHANGED <<pending, closing, error, failed, worker, current, owner,
                 accepted, delivered>>

\* Mutant: closing_ is tested before error_.
SubmitIgnoredFirst(p) ==
  /\ Alive
  /\ closing
  /\ outcome' = [outcome EXCEPT ![p] = "ignored"]
  /\ UNCHANGED <<pending, closing, error, failed, worker, current, owner,
                 accepted, delivered>>

SubmitIgnored(p) ==
  /\ Alive
  /\ ~error
  /\ closing
  /\ outcome' = [outcome EXCEPT ![p] = "ignored"]
  /\ UNCHANGED <<pending, closing, error, failed, worker, current, owner,
                 accepted, delivered>>

SubmitAccepted(p) ==
  /\ Alive
  /\ ~error
  /\ ~closing
  /\ accepted < MaxSubmit
  /\ accepted' = accepted + 1
  /\ pending' = accepted + 1
  /\ Notify
  /\ outcome' = [outcome EXCEPT ![p] = "accepted"]
  /\ UNCHANGED <<closing, error, failed, current, owner, delivered>>

Submit(p) == SubmitThrows(p) \/ SubmitIgnored(p) \/ SubmitAccepted(p)

-----------------------------------------------------------------------------
(* run(), the worker thread.                                               *)

WorkerWait ==
  /\ worker = "checking"
  /\ ~closing
  /\ pending = 0
  /\ worker' = "waiting"
  /\ UNCHANGED <<pending, closing, error, failed, current, owner, outcome,
                 accepted, delivered>>

SpuriousWakeup ==
  /\ worker = "waiting"
  /\ worker' = "checking"
  /\ UNCHANGED <<pending, closing, error, failed, current, owner, outcome,
                 accepted, delivered>>

WorkerTake ==
  /\ worker = "checking"
  /\ pending # 0
  /\ current' = pending
  /\ pending' = 0
  /\ worker' = "consuming"
  /\ UNCHANGED <<closing, error, failed, owner, outcome, accepted, delivered>>

WorkerReturn ==
  /\ worker = "checking"
  /\ closing
  /\ pending = 0
  /\ worker' = "done"
  /\ UNCHANGED <<pending, closing, error, failed, current, owner, outcome,
                 accepted, delivered>>

\* consume_ runs without the mutex; it returns or it throws.
ConsumeReturns ==
  /\ worker = "consuming"
  /\ delivered' = current
  /\ current' = 0
  /\ worker' = "checking"
  /\ UNCHANGED <<pending, closing, error, failed, owner, outcome, accepted>>

ConsumeThrows ==
  /\ worker = "consuming"
  /\ worker' = "failing"
  /\ UNCHANGED <<pending, closing, error, failed, current, owner, outcome,
                 accepted, delivered>>

RecordFailure ==
  /\ worker = "failing"
  /\ error' = TRUE
  /\ failed' = TRUE
  /\ closing' = TRUE
  /\ pending' = 0
  /\ worker' = "done"
  /\ UNCHANGED <<current, owner, outcome, accepted, delivered>>

Worker == \/ WorkerWait \/ WorkerTake \/ WorkerReturn
          \/ ConsumeReturns \/ ConsumeThrows \/ RecordFailure

-----------------------------------------------------------------------------
(* close() and the destructor, called by the owning thread.                *)

BeginClose ==
  /\ owner = "open"
  /\ closing' = TRUE
  /\ Notify
  /\ owner' = "joining"
  /\ UNCHANGED <<pending, error, failed, current, outcome, accepted,
                 delivered>>

\* worker_.join() returned: rethrow what the worker recorded.
FinishClose ==
  /\ owner = "joining"
  /\ worker = "done"
  /\ owner' = IF error THEN "rethrown" ELSE "closed"
  /\ UNCHANGED <<pending, closing, error, failed, worker, current, outcome,
                 accepted, delivered>>

\* The destructor closes again, or for the first time on an error path.
BeginDestroy ==
  /\ owner \in {"open", "closed", "rethrown"}
  /\ closing' = TRUE
  /\ Notify
  /\ owner' = "destroying"
  /\ UNCHANGED <<pending, error, failed, current, outcome, accepted,
                 delivered>>

FinishDestroy ==
  /\ owner = "destroying"
  /\ worker = "done"
  /\ owner' = "destroyed"
  /\ UNCHANGED <<pending, closing, error, failed, worker, current, outcome,
                 accepted, delivered>>

Owner == BeginClose \/ FinishClose \/ BeginDestroy \/ FinishDestroy

-----------------------------------------------------------------------------

Next == \/ \E p \in Producers : Submit(p)
        \/ Worker
        \/ SpuriousWakeup
        \/ Owner

SafeSpec == Init /\ [][Next]_vars

\* The worker thread runs, consume_ ends, and join() returns once the worker
\* has ended.  Nothing makes a producer submit or an owner close, and nothing
\* relies on a spurious wakeup.
Fairness == /\ WF_vars(Worker)
            /\ WF_vars(FinishClose)
            /\ WF_vars(FinishDestroy)

Spec == SafeSpec /\ Fairness

-----------------------------------------------------------------------------
(* Properties.                                                             *)

\* close() returns normally only after the newest accepted value was reported;
\* a failed report always comes out of close() as an exception.
Drained == owner = "closed" => ~error /\ delivered = accepted

\* submit() drops a layout silently only after the owner asked to close.  A
\* failed report also sets closing_, but later submissions must see the error.
FailureIsLoud ==
  \A p \in Producers : outcome[p] = "ignored" => owner # "open"

\* No layout is lost without anybody being told: a normal close() has drained
\* the slot, and only the owner's request makes submit() ignore a layout
\* ("drain the last pending value, join, and propagate reporting failures",
\* latest_result_publisher.hpp:29).
NothingLost == Drained /\ FailureIsLoud

-----------------------------------------------------------------------------
(* The mailbox implements LatestValue.                                     *)

Phase == CASE error -> "failed"
           [] ~error /\ worker = "done" -> "ended"
           [] ~error /\ worker # "done" /\ closing -> "closing"
           [] OTHER -> "open"

Abstract == INSTANCE LatestValue
              WITH latest <- accepted, reported <- delivered, phase <- Phase

\* The mailbox is a LatestValue: reports are newest-wins and never go back,
\* the newest value is eventually reported unless a report fails, and the
\* worker ends only when it has caught up.
IsLatestValue == Abstract!Spec

=============================================================================
