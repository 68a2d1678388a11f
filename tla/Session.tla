------------------------------- MODULE Session -------------------------------
(***************************************************************************)
(* main() of the command line: one session that ends with an exit code.    *)
(* A continuous session saves every improvement as a numbered result and   *)
(* submits it to the writer of the root JSON (LatestJson, whose variables  *)
(* and actions this module uses); a first session submits its one layout.  *)
(* The thread that reports results runs beside the main thread, the writer *)
(* beside both, and a stop may come from a signal, from the cancel file,   *)
(* from the time limit or from a writer that has failed.                   *)
(*                                                                         *)
(* What runContinuousNesting does inside is the subject of                 *)
(* ContinuousNesting, what save() does of ResultDirectory: here the run    *)
(* calls the reporter one result after the other, returns only when it is  *)
(* over and no report failed, and throws when one did.  Snapshot n of the  *)
(* writer is the numbered result n, the one after the last is the final.   *)
(***************************************************************************)
EXTENDS LatestJson

VARIABLES mode,      \* config.mode
          main,      \* where main() is
          reporter,  \* where the callback onImprovement is
          numbered,  \* the number of results saved in the history
          saved,     \* saved
          stop,      \* stopRequested, or the time limit of the run
          cancel     \* the cancel file exists

sessionVars == <<mode, main, reporter, numbered, saved, stop, cancel>>
allVars == <<vars, sessionVars>>

MainStates == {"search", "finalize", "export", "finish", "finishing", "leave",
               "leaving", "unwind", "unwinding", "exit 0", "exit 1"}

\* Every variable keeps its type.
SessionTypeOK ==
  /\ TypeOK
  /\ mode \in {"first", "continuous"}
  /\ main \in MainStates
  /\ reporter \in {"idle", "saved", "failed"}
  /\ numbered \in 0 .. MaxSubmit
  /\ saved \in 0 .. MaxSubmit
  /\ stop \in BOOLEAN
  /\ cancel \in BOOLEAN

\* A first session constructs its publisher after the search.
SessionInit ==
  /\ Init
  /\ mode \in {"first", "continuous"}
  /\ main = IF mode = "first" THEN "finalize" ELSE "search"
  /\ reporter = "idle"
  /\ numbered = 0
  /\ saved = 0
  /\ stop = FALSE
  /\ cancel = FALSE

Alive == owner # "killed"
MainGoes(from, to) == Alive /\ main = from /\ main' = to
ReporterGoes(from, to) ==
  /\ Alive
  /\ main = "search"
  /\ reporter = from
  /\ reporter' = to

-----------------------------------------------------------------------------
(* onImprovement, called by the reporting thread of the run.               *)

\* Mutant: the root JSON is submitted first.
SaveNumberedLater ==
  /\ ReporterGoes("idle", "saved")
  /\ numbered < MaxSubmit - 1
  /\ UNCHANGED <<vars, mode, main, numbered, saved, stop, cancel>>

\* results.save returns.
SaveNumbered ==
  /\ ReporterGoes("idle", "saved")
  /\ numbered < MaxSubmit - 1
  /\ numbered' = numbered + 1
  /\ UNCHANGED <<vars, mode, main, saved, stop, cancel>>

\* results.save throws, or the offcut cannot be measured.
SaveThrows ==
  /\ ReporterGoes("idle", "failed")
  /\ UNCHANGED <<vars, mode, main, numbered, saved, stop, cancel>>

\* latest.submit returns, and the number is recorded.
ReporterSubmits ==
  /\ ReporterGoes("saved", "idle")
  /\ SubmitAccepted
  /\ saved' = numbered
  /\ UNCHANGED <<mode, main, numbered, stop, cancel>>

\* The writer has failed meanwhile: the report fails.
ReporterRefused ==
  /\ ReporterGoes("saved", "failed")
  /\ SubmitThrows
  /\ UNCHANGED <<mode, main, numbered, saved, stop, cancel>>

-----------------------------------------------------------------------------
(* main()                                                                  *)

\* Mutant: the stop hook does not ask latest.failed().
OverDeaf == stop

\* The stop hook of the run, and its time limit.
Over == error \/ stop

SearchReturns ==
  /\ MainGoes("search", "finalize")
  /\ Over
  /\ reporter = "idle"
  /\ UNCHANGED <<vars, mode, reporter, numbered, saved, stop, cancel>>

\* A search or a report has thrown, or the session could not be set up.
SearchThrows ==
  /\ MainGoes("search", "unwind")
  /\ reporter # "saved"
  /\ UNCHANGED <<vars, mode, reporter, numbered, saved, stop, cancel>>

\* "if(saved)": without a layout the root JSON stays what it was.
NothingToSubmit ==
  /\ MainGoes("finalize", "finish")
  /\ mode = "continuous" /\ saved = 0
  /\ UNCHANGED <<vars, mode, reporter, numbered, saved, stop, cancel>>

SubmitFinal ==
  /\ MainGoes("finalize", IF mode = "first" THEN "export" ELSE "finish")
  /\ mode = "first" \/ saved > 0
  /\ SubmitAccepted
  /\ UNCHANGED <<mode, reporter, numbered, saved, stop, cancel>>

SubmitFinalThrows ==
  /\ MainGoes("finalize", "unwind")
  /\ mode = "first" \/ saved > 0
  /\ SubmitThrows
  /\ UNCHANGED <<mode, reporter, numbered, saved, stop, cancel>>

\* The DXF and the SVG of a first session are written beside the writer.
Export ==
  /\ \E to \in {"finish", "unwind"} : MainGoes("export", to)
  /\ UNCHANGED <<vars, mode, reporter, numbered, saved, stop, cancel>>

\* Mutant: the destructor is trusted to publish what is pending.
FinishOmitted ==
  /\ MainGoes("finish", "leave")
  /\ UNCHANGED <<vars, mode, reporter, numbered, saved, stop, cancel>>

\* latest.finish() closes the publisher ...
FinishCalled ==
  /\ MainGoes("finish", "finishing")
  /\ BeginFinish
  /\ UNCHANGED <<mode, reporter, numbered, saved, stop, cancel>>

\* ... and returns, or rethrows, when the writer has ended.
FinishEnds ==
  /\ MainGoes("finishing", IF error THEN "unwind" ELSE "leave")
  /\ EndFinish
  /\ UNCHANGED <<mode, reporter, numbered, saved, stop, cancel>>

\* ~LatestJsonPublisher, before the exit code is returned.
Destroys ==
  /\ \/ MainGoes("leave", "leaving")
     \/ MainGoes("unwind", "unwinding")
  /\ BeginDestroy
  /\ UNCHANGED <<mode, reporter, numbered, saved, stop, cancel>>

Exits ==
  /\ \/ MainGoes("leaving", "exit 0")
     \/ MainGoes("unwinding", "exit 1")
  /\ EndDestroy
  /\ UNCHANGED <<mode, reporter, numbered, saved, stop, cancel>>

\* What the main thread does without waiting for a search.
MainProceeds ==
  \/ NothingToSubmit \/ SubmitFinal \/ SubmitFinalThrows \/ Export
  \/ FinishCalled \/ FinishEnds \/ Destroys \/ Exits

-----------------------------------------------------------------------------
(* The user, the cancel file and the clock.                                *)

\* A stop signal, or the time limit of the run.
UserStops ==
  /\ ~stop
  /\ stop' = TRUE
  /\ UNCHANGED <<vars, mode, main, reporter, numbered, saved, cancel>>

CancelFileChanges ==
  /\ cancel' = ~cancel
  /\ UNCHANGED <<vars, mode, main, reporter, numbered, saved, stop>>

\* stopped() finds the file; the request stays although the file may go.
CancelFileSeen ==
  /\ Alive
  /\ main = "search"
  /\ cancel
  /\ ~stop
  /\ stop' = TRUE
  /\ UNCHANGED <<vars, mode, main, reporter, numbered, saved, cancel>>

WriterSteps ==
  /\ Worker \/ SpuriousWakeup
  /\ UNCHANGED sessionVars

\* Somebody else opens the output, or the process is killed: a closed console
\* waits four seconds for main() and then kills the process.
EnvironmentSteps ==
  /\ ReaderOpens \/ ReaderCloses \/ (main \notin {"exit 0", "exit 1"} /\ Killed)
  /\ UNCHANGED sessionVars

SessionNext ==
  \/ SaveNumbered \/ SaveThrows \/ ReporterSubmits \/ ReporterRefused
  \/ SearchReturns \/ SearchThrows \/ MainProceeds
  \/ UserStops \/ CancelFileChanges \/ CancelFileSeen
  \/ WriterSteps \/ EnvironmentSteps

\* The threads run; the hook is polled as long as there is a search; a run
\* that is over, or whose report failed, ends (RunEnds of ContinuousNesting).
SessionFairness ==
  /\ WF_allVars(WriterSteps /\ Worker)
  /\ WF_allVars(MainProceeds)
  /\ WF_allVars(ReporterSubmits \/ ReporterRefused)
  /\ WF_allVars(CancelFileSeen)
  /\ WF_allVars(SearchReturns \/ (reporter = "failed" /\ SearchThrows))

SessionSpec == SessionInit /\ [][SessionNext]_allVars /\ SessionFairness

-----------------------------------------------------------------------------
(* Properties.                                                             *)

\* Exit code 0 means that nothing was lost: a stop was asked for, every
\* numbered result was handed on, and the root JSON holds the final snapshot,
\* or is untouched if there was none ("waits for the final JSON to be published
\* before exiting successfully", README.md:539).
ExitsHonestly ==
  main = "exit 0" =>
    /\ ~error
    /\ mode = "continuous" => stop /\ saved = numbered
    /\ output = IF mode = "continuous" /\ saved = 0 THEN Previous
                ELSE [version |-> saved + 1, whole |-> TRUE]

\* Whatever fails or is killed, the root JSON of a continuous session never
\* shows a layout that is not saved in the history, but for the final counters.
RootInHistory ==
  mode = "continuous" =>
    \/ output.version <= numbered
    \/ main # "search" /\ output.version = numbered + 1 /\ saved = numbered

Ended == main \in {"exit 0", "exit 1"} \/ owner = "killed"

\* A stop, a cancel file that stays, or a failed writer ends the session once
\* readers leave the output alone; an exception ends it whatever readers do.
SessionEnds ==
  /\ <>[]~held =>
       /\ stop \/ error ~> Ended
       /\ <>[]cancel => <>Ended
  /\ main = "unwind" ~> Ended

=============================================================================
