----------------------------- MODULE LatestJson -----------------------------
(***************************************************************************)
(* cli::LatestJsonPublisher: the thread that keeps the root result JSON up *)
(* to date.  It takes the newest snapshot, writes it to <output>.tmp and   *)
(* renames that file over the output.  On Windows a program that has the   *)
(* output open blocks the rename; the writer then retries, and prefers a   *)
(* newer snapshot to the one it has prepared.  A POSIX rename is never     *)
(* blocked, which is the case MaxReads = 0.                                *)
(* Each critical section of mutex_ is one action.  A snapshot is the       *)
(* number under which it was accepted; a file is a snapshot, written       *)
(* completely or not.  blocked_ only selects console messages.             *)
(***************************************************************************)
EXTENDS Naturals

CONSTANTS MaxSubmit,  \* bound on the number of accepted snapshots
          MaxReads,   \* bound on how often a reader opens the output
          TailLost    \* the disk may lose what the stream still buffers

ASSUME BoundsAssumption ==
  /\ MaxSubmit \in Nat
  /\ MaxReads \in Nat
  /\ TailLost \in BOOLEAN

VARIABLES pending,   \* pending_, 0 when empty
          closing,   \* closing_
          abort,     \* abort_
          error,     \* error_ holds an exception (and failed_ is set)
          worker,    \* where the worker thread is in run()
          snapshot,  \* the snapshot the worker has taken, 0 when none
          written,   \* temporaryWritten
          tmp,       \* the file temporary_
          output,    \* the file output_
          owner,     \* where the owning thread is in finish() and ~...()
          result,    \* how the last submit() ended
          accepted,  \* number of the newest accepted snapshot
          held,      \* a reader has the output open without sharing deletion
          reads      \* how often a reader opened the output

mailbox == <<pending, closing, abort, error, accepted, result>>
files == <<tmp, output>>
reader == <<held, reads>>
vars == <<mailbox, worker, snapshot, written, files, owner, reader>>

File == [version : 0 .. MaxSubmit, whole : BOOLEAN]
NoFile == [version |-> 0, whole |-> FALSE]
\* What an earlier session has left at temporary_, and nobody reads.
Leftover == [version |-> 0, whole |-> TRUE]
Previous == [version |-> 0, whole |-> TRUE]   \* the output of an earlier run

WorkerStates == {"checking", "waiting", "preparing", "writing", "trying",
                 "replacing", "sleeping", "failing", "cleanup", "done",
                 "killed"}
OwnerStates == {"open", "finishing", "finished", "threw", "destroying",
                "destroyed", "killed"}

TypeOK ==
  /\ pending \in 0 .. MaxSubmit
  /\ closing \in BOOLEAN
  /\ abort \in BOOLEAN
  /\ error \in BOOLEAN
  /\ worker \in WorkerStates
  /\ snapshot \in 0 .. MaxSubmit
  /\ written \in BOOLEAN
  /\ tmp \in File
  /\ output \in File
  /\ owner \in OwnerStates
  /\ result \in {"none", "accepted", "refused", "threw"}
  /\ accepted \in 0 .. MaxSubmit
  /\ held \in BOOLEAN
  /\ reads \in 0 .. MaxReads

Init ==
  /\ pending = 0
  /\ closing = FALSE
  /\ abort = FALSE
  /\ error = FALSE
  /\ worker = "checking"
  /\ snapshot = 0
  /\ written = FALSE
  /\ tmp \in {NoFile, Leftover}
  /\ output = Previous
  /\ owner = "open"
  /\ result = "none"
  /\ accepted = 0
  /\ held = FALSE
  /\ reads = 0

\* notify_one / notify_all on ready_; a sleeping worker also wakes by itself.
Notify == worker' = IF worker = "waiting" THEN "checking" ELSE worker

-----------------------------------------------------------------------------
(* submit(), called by the thread that saves the numbered results and, at  *)
(* the end, by the main thread.                                            *)

Usable == owner \in {"open", "finishing", "finished", "threw"}

SubmitThrows ==
  /\ Usable
  /\ error
  /\ result' = "threw"
  /\ UNCHANGED <<pending, closing, abort, error, accepted, worker, snapshot,
                 written, files, owner, reader>>

SubmitRefused ==
  /\ Usable
  /\ ~error
  /\ closing
  /\ result' = "refused"
  /\ UNCHANGED <<pending, closing, abort, error, accepted, worker, snapshot,
                 written, files, owner, reader>>

SubmitAccepted ==
  /\ Usable
  /\ ~error
  /\ ~closing
  /\ accepted < MaxSubmit
  /\ accepted' = accepted + 1
  /\ pending' = accepted + 1
  /\ result' = "accepted"
  /\ Notify
  /\ UNCHANGED <<closing, abort, error, snapshot, written, files, owner,
                 reader>>

Submit == SubmitThrows \/ SubmitRefused \/ SubmitAccepted

-----------------------------------------------------------------------------
(* run(), the worker thread.                                               *)

\* A step of the worker that only moves it.
Goto(from, to) == worker = from /\ worker' = to

WorkerWait ==
  /\ Goto("checking", "waiting")
  /\ ~abort /\ ~closing /\ pending = 0
  /\ UNCHANGED <<mailbox, snapshot, written, files, owner, reader>>

SpuriousWakeup ==
  /\ Goto("waiting", "checking")
  /\ UNCHANGED <<mailbox, snapshot, written, files, owner, reader>>

WorkerTake ==
  /\ Goto("checking", "preparing")
  /\ ~abort
  /\ pending # 0
  /\ snapshot' = pending
  /\ pending' = 0
  /\ UNCHANGED <<closing, abort, error, accepted, result, written, files,
                 owner, reader>>

WorkerStop ==
  /\ Goto("checking", "cleanup")
  /\ abort \/ (closing /\ pending = 0)
  /\ UNCHANGED <<mailbox, snapshot, written, files, owner, reader>>

\* Mutant: temporaryWritten is set after the file was written.
BeginWriteUnmarked ==
  /\ Goto("preparing", "writing")
  /\ tmp' = [version |-> snapshot, whole |-> FALSE]
  /\ UNCHANGED <<mailbox, snapshot, written, output, owner, reader>>

BeginWrite ==
  /\ Goto("preparing", "writing")
  /\ written' = TRUE
  /\ tmp' = [version |-> snapshot, whole |-> FALSE]
  /\ UNCHANGED <<mailbox, snapshot, output, owner, reader>>

\* Mutant: the stream is flushed only after the rename.
EndWriteUnflushed ==
  /\ Goto("writing", "trying")
  /\ UNCHANGED <<mailbox, snapshot, written, files, owner, reader>>

\* writeNestingJson returns.  It tests its stream before the stream flushes
\* its buffer and is closed, so that an error of the last flush goes unnoticed.
EndWrite ==
  /\ Goto("writing", "trying")
  /\ \E whole \in IF TailLost THEN BOOLEAN ELSE {TRUE} :
       tmp' = [tmp EXCEPT !.whole = whole]
  /\ UNCHANGED <<mailbox, snapshot, written, output, owner, reader>>

\* create_directories, writeNestingJson or a rename that cannot succeed.
WorkerThrows ==
  /\ \E from \in {"preparing", "writing", "replacing"} : Goto(from, "failing")
  /\ UNCHANGED <<mailbox, snapshot, written, files, owner, reader>>

\* Leave the inner loop without replacing the output.
GiveUp ==
  /\ Goto("trying", "checking")
  /\ abort \/ pending # 0
  /\ snapshot' = 0
  /\ UNCHANGED <<mailbox, written, files, owner, reader>>

TryReplace ==
  /\ Goto("trying", "replacing")
  /\ ~abort
  /\ pending = 0
  /\ UNCHANGED <<mailbox, snapshot, written, files, owner, reader>>

Replaced ==
  /\ Goto("replacing", "checking")
  /\ ~held
  /\ output' = tmp
  /\ tmp' = NoFile
  /\ written' = FALSE
  /\ snapshot' = 0
  /\ UNCHANGED <<mailbox, owner, reader>>

\* Mutant: a blocked snapshot is put back, over a newer pending one.
ReplaceBusyRequeues ==
  /\ Goto("replacing", "checking")
  /\ held
  /\ pending' = snapshot
  /\ snapshot' = 0
  /\ UNCHANGED <<closing, abort, error, accepted, result, written, files,
                 owner, reader>>

ReplaceBusy ==
  /\ Goto("replacing", "sleeping")
  /\ held
  /\ UNCHANGED <<mailbox, snapshot, written, files, owner, reader>>

\* wait_for returned: after 50 ms, or on abort_ or a newer snapshot.
Retry ==
  /\ Goto("sleeping", "trying")
  /\ UNCHANGED <<mailbox, snapshot, written, files, owner, reader>>

RecordFailure ==
  /\ Goto("failing", "cleanup")
  /\ error' = TRUE
  /\ pending' = 0
  /\ UNCHANGED <<closing, abort, accepted, result, snapshot, written, files,
                 owner, reader>>

\* The temporary file is removed, if there is one that was not renamed; that
\* the removal fails is ignored.
Cleanup ==
  /\ Goto("cleanup", "done")
  /\ tmp' \in IF written THEN {NoFile, tmp} ELSE {tmp}
  /\ UNCHANGED <<mailbox, snapshot, written, output, owner, reader>>

Worker == \/ WorkerWait \/ WorkerTake \/ WorkerStop
          \/ BeginWrite \/ EndWrite \/ WorkerThrows
          \/ GiveUp \/ TryReplace \/ Replaced \/ ReplaceBusy \/ Retry
          \/ RecordFailure \/ Cleanup

-----------------------------------------------------------------------------
(* finish() and the destructor, called by the main thread.                 *)

BeginFinish ==
  /\ owner = "open"
  /\ owner' = "finishing"
  /\ closing' = TRUE
  /\ Notify
  /\ UNCHANGED <<pending, abort, error, accepted, result, snapshot, written,
                 files, reader>>

EndFinish ==
  /\ owner = "finishing"
  /\ worker = "done"
  /\ owner' = IF error THEN "threw" ELSE "finished"
  /\ UNCHANGED <<mailbox, worker, snapshot, written, files, reader>>

BeginDestroy ==
  /\ owner \in {"open", "finished", "threw"}
  /\ owner' = "destroying"
  /\ abort' = TRUE
  /\ Notify
  /\ UNCHANGED <<pending, closing, error, accepted, result, snapshot, written,
                 files, reader>>

EndDestroy ==
  /\ owner = "destroying"
  /\ worker = "done"
  /\ owner' = "destroyed"
  /\ UNCHANGED <<mailbox, worker, snapshot, written, files, reader>>

-----------------------------------------------------------------------------
(* The environment: a reader of the output, and a killed process, of which *)
(* only the files stay.                                                    *)

ReaderOpens ==
  /\ ~held
  /\ reads < MaxReads
  /\ held' = TRUE
  /\ reads' = reads + 1
  /\ UNCHANGED <<mailbox, worker, snapshot, written, files, owner>>

ReaderCloses ==
  /\ held
  /\ held' = FALSE
  /\ UNCHANGED <<mailbox, worker, snapshot, written, files, owner, reads>>

Killed ==
  /\ owner \notin {"destroyed", "killed"}
  /\ owner' = "killed"
  /\ worker' = IF worker = "done" THEN "done" ELSE "killed"
  /\ UNCHANGED <<mailbox, snapshot, written, files, reader>>

-----------------------------------------------------------------------------

Next == \/ Submit
        \/ Worker
        \/ SpuriousWakeup
        \/ BeginFinish \/ EndFinish \/ BeginDestroy \/ EndDestroy
        \/ ReaderOpens \/ ReaderCloses
        \/ Killed

\* The worker thread runs and join() returns after it ended.  A reader may
\* keep the file open for ever, and nothing makes the owner finish.
Fairness == WF_vars(Worker) /\ WF_vars(EndFinish) /\ WF_vars(EndDestroy)

Spec == Init /\ [][Next]_vars /\ Fairness

-----------------------------------------------------------------------------
(* Properties.                                                             *)

\* Whoever opens the output, at any moment and after any crash, finds a
\* completely written result (tests/latest_json.cpp:52).
OutputWhole == output.whole

\* A normal return of finish() means that the newest snapshot is in place:
\* "the final snapshot must be published before a successful process exit"
\* (latest_json.hpp:46).  The last rename has used up the temporary file
\* (tests/latest_json.cpp:57), so that nothing depends on a removal, and not
\* even what an earlier session left there is found any more.
FinishedNewest ==
  owner = "finished" =>
    /\ ~error /\ output.version = accepted
    /\ accepted > 0 => tmp = NoFile

\* A temporary file of this session outlives the worker only if writing has
\* failed or was abandoned, and then its removal was tried in vain.
TemporaryTried ==
  worker = "done" /\ tmp \notin {NoFile, Leftover} =>
    written /\ (error \/ abort)

\* The publisher ends with the newest snapshot in place and nothing beside it,
\* however many snapshots were blocked, given up or overtaken; what it leaves
\* otherwise it has tried to remove.
EndsClean == FinishedNewest /\ TemporaryTried

Phase ==
  IF error THEN "failed"
  ELSE IF worker = "done"
       THEN IF abort /\ output.version # accepted THEN "failed" ELSE "ended"
  ELSE IF closing \/ abort THEN "closing" ELSE "open"

Abstract == INSTANCE LatestValue
              WITH latest <- accepted, reported <- output.version,
                   phase <- Phase

\* The output file is a LatestValue of the submitted snapshots: it never goes
\* back to an older one and, unless it is aborted, ends with the newest.
IsLatestValue == Abstract!SafeSpec

=============================================================================
