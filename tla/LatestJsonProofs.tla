--------------------------- MODULE LatestJsonProofs ---------------------------
(***************************************************************************)
(* Proofs, for any number of snapshots and of readers, about the writer of *)
(* the root JSON and the session that owns it.  The first part is about    *)
(* the writer alone, whoever calls it: the snapshot that it holds is newer *)
(* than the output and older than the pending one, and whatever it renames *)
(* is a file that it has finished.  The second part relates the main       *)
(* thread and the reporter to the snapshots they have submitted.           *)
(*                                                                         *)
(* That the output is always whole needs a disk that does not lose what    *)
(* the stream still buffers when it is tested.                             *)
(***************************************************************************)
EXTENDS Session, TLAPS

\* The worker's snapshot is newer than the output and older than the pending one.
SlotInv ==
  /\ output.version <= accepted
  /\ snapshot # 0 => output.version < snapshot /\ snapshot <= accepted
  /\ pending # 0 => /\ pending = accepted
                    /\ output.version < pending /\ snapshot < pending

Busy == {"preparing", "writing", "trying", "replacing", "sleeping", "failing"}

\* What the worker's position says about the snapshots.
WorkerInv ==
  /\ worker \in {"checking", "waiting"} =>
       snapshot = 0 /\ (pending = 0 => output.version = accepted \/ abort)
  /\ worker \in Busy => snapshot # 0 /\ (pending = 0 => snapshot = accepted)
  /\ worker \in {"cleanup", "done"} /\ ~error =>
       /\ closing \/ abort
       /\ abort \/ output.version = accepted
  /\ error => worker \in {"cleanup", "done", "killed"}

\* Who can have set closing_ and abort_, and when the owner has returned.
OwnerInv ==
  /\ owner \in {"finishing", "finished", "threw"} => closing
  /\ closing => owner # "open"
  /\ abort => owner \in {"destroying", "destroyed", "killed"}
  /\ owner \in {"finished", "threw", "destroyed"} => worker = "done"
  /\ owner = "finished" => ~error
  /\ worker = "killed" => owner = "killed"
  /\ owner = "killed" => worker \in {"killed", "done"}

\* What the worker's position says about the temporary file.
FileInv ==
  /\ worker \in {"writing", "trying", "replacing", "sleeping"} =>
       written /\ tmp.version = snapshot
  /\ worker \in {"trying", "replacing", "sleeping"} /\ ~TailLost => tmp.whole
  /\ ~TailLost => output.whole
  /\ ~written => tmp \in {NoFile, Leftover}
  /\ output.version # 0 => tmp # Leftover
  /\ worker \in {"checking", "waiting"} /\ written => pending # 0 \/ abort
  /\ worker \in {"cleanup", "done"} /\ written => error \/ abort

IInv == TypeOK /\ SlotInv /\ WorkerInv /\ OwnerInv /\ FileInv

LEMMA FilesTyped ==
  /\ NoFile \in File /\ Leftover \in File /\ Previous \in File
  /\ \A v \in 0 .. MaxSubmit : [version |-> v, whole |-> FALSE] \in File
  /\ \A f \in File : f.version \in Nat /\ f.version \in 0 .. MaxSubmit
<1>1. 0 \in 0 .. MaxSubmit
  BY BoundsAssumption DEF BoundsAssumption
<1>2. QED
  BY <1>1, BoundsAssumption DEF BoundsAssumption, File, NoFile, Leftover,
                                      Previous

LEMMA InitIInv == Init => IInv
<1> SUFFICES ASSUME Init PROVE IInv
  OBVIOUS
<1> USE BoundsAssumption DEF BoundsAssumption, Init
<1>1. TypeOK
  <2>1. /\ tmp \in File /\ output \in File
        /\ 0 \in 0 .. MaxSubmit /\ 0 \in 0 .. MaxReads
    BY FilesTyped
  <2>2. /\ pending \in 0 .. MaxSubmit /\ snapshot \in 0 .. MaxSubmit
        /\ accepted \in 0 .. MaxSubmit /\ reads \in 0 .. MaxReads
    BY <2>1
  <2>3. QED
    BY <2>1, <2>2 DEF TypeOK, WorkerStates, OwnerStates
<1>2. SlotInv /\ WorkerInv /\ OwnerInv
  BY DEF SlotInv, WorkerInv, OwnerInv, Busy, Previous
<1>3. FileInv
  BY DEF FileInv, Previous
<1>4. QED
  BY <1>1, <1>2, <1>3 DEF IInv

\* The stream has written everything, unless the disk lost the tail.
LEMMA EndWriteFile ==
  ASSUME TypeOK, EndWrite
  PROVE  /\ tmp' \in File /\ tmp'.version = tmp.version
         /\ ~TailLost => tmp'.whole
         /\ Goto("writing", "trying")
         /\ UNCHANGED <<mailbox, snapshot, written, output, owner, reader>>
<1>1. PICK whole \in IF TailLost THEN BOOLEAN ELSE {TRUE} :
        tmp' = [tmp EXCEPT !.whole = whole]
  BY Zenon DEF EndWrite
<1>2. whole \in BOOLEAN /\ (~TailLost => whole)
  BY <1>1, Zenon
<1>3. tmp \in File
  BY DEF TypeOK
<1>4. /\ Goto("writing", "trying")
      /\ UNCHANGED <<mailbox, snapshot, written, output, owner, reader>>
  BY Zenon DEF EndWrite
<1>5. QED
  BY <1>1, <1>2, <1>3, <1>4 DEF File

LEMMA TypeStep == TypeOK /\ [Next]_vars => TypeOK'
<1> SUFFICES ASSUME TypeOK, [Next]_vars PROVE TypeOK'
  OBVIOUS
<1> USE BoundsAssumption
    DEF BoundsAssumption, TypeOK, WorkerStates, OwnerStates, mailbox, files, reader
<1>1. CASE Submit
  BY <1>1 DEF Submit, SubmitThrows, SubmitRefused, SubmitAccepted, Notify
<1>2. CASE Worker
  <2> USE DEF Goto
  <2>1. CASE WorkerWait BY <2>1 DEF WorkerWait
  <2>2. CASE WorkerTake BY <2>2 DEF WorkerTake
  <2>3. CASE WorkerStop BY <2>3 DEF WorkerStop
  <2>4. CASE BeginWrite BY <2>4, FilesTyped DEF BeginWrite
  <2>5. CASE EndWrite BY <2>5, EndWriteFile
  <2>6. CASE WorkerThrows BY <2>6 DEF WorkerThrows
  <2>7. CASE GiveUp BY <2>7 DEF GiveUp
  <2>8. CASE TryReplace BY <2>8 DEF TryReplace
  <2>9. CASE Replaced
    <3>1. NoFile \in File /\ 0 \in 0 .. MaxSubmit
      BY FilesTyped
    <3>2. QED
      BY <2>9, <3>1 DEF Replaced
  <2>10. CASE ReplaceBusy BY <2>10 DEF ReplaceBusy
  <2>11. CASE Retry BY <2>11 DEF Retry
  <2>12. CASE RecordFailure BY <2>12 DEF RecordFailure
  <2>13. CASE Cleanup BY <2>13, FilesTyped DEF Cleanup
  <2>14. QED
    BY <1>2, <2>1, <2>2, <2>3, <2>4, <2>5, <2>6, <2>7, <2>8, <2>9, <2>10,
       <2>11, <2>12, <2>13 DEF Worker
<1>3. CASE SpuriousWakeup BY <1>3 DEF SpuriousWakeup, Goto
<1>4. CASE BeginFinish \/ EndFinish \/ BeginDestroy \/ EndDestroy
  <2>1. CASE BeginFinish BY <2>1 DEF BeginFinish, Notify
  <2>2. CASE EndFinish BY <2>2 DEF EndFinish
  <2>3. CASE BeginDestroy BY <2>3 DEF BeginDestroy, Notify
  <2>4. CASE EndDestroy BY <2>4 DEF EndDestroy
  <2>5. QED
    BY <1>4, <2>1, <2>2, <2>3, <2>4
<1>5. CASE ReaderOpens \/ ReaderCloses \/ Killed
  <2>1. CASE ReaderOpens BY <2>1 DEF ReaderOpens
  <2>2. CASE ReaderCloses
    <3>1. /\ UNCHANGED <<pending, closing, abort, error, accepted, result, worker,
                         snapshot, written, tmp, output, owner, reads>>
          /\ held' \in BOOLEAN
      BY <2>2 DEF ReaderCloses
    <3>2. QED
      BY <3>1
  <2>3. CASE Killed BY <2>3 DEF Killed
  <2>4. QED
    BY <1>5, <2>1, <2>2, <2>3
<1>6. CASE UNCHANGED vars BY <1>6 DEF vars
<1>7. QED
  BY <1>1, <1>2, <1>3, <1>4, <1>5, <1>6 DEF Next

Invs == SlotInv /\ WorkerInv /\ OwnerInv

\* A submission fills the slot with a snapshot newer than the one in progress.
LEMMA SubmitInvs == IInv /\ Submit => Invs'
<1> SUFFICES ASSUME IInv, Submit PROVE Invs'
  OBVIOUS
<1> USE BoundsAssumption, FilesTyped
    DEF BoundsAssumption, IInv, Invs, TypeOK, SlotInv, WorkerInv, OwnerInv,
        Busy, Usable, files, reader
<1>1. CASE SubmitThrows BY <1>1 DEF SubmitThrows
<1>2. CASE SubmitRefused BY <1>2 DEF SubmitRefused
<1>3. CASE SubmitAccepted BY <1>3 DEF SubmitAccepted, Notify
<1>4. QED
  BY <1>1, <1>2, <1>3 DEF Submit

\* The worker takes the newest snapshot, and drops it only for a newer one or
\* because it was told to stop.
LEMMA WorkerInvs == IInv /\ (Worker \/ SpuriousWakeup) => Invs'
<1> SUFFICES ASSUME IInv, Worker \/ SpuriousWakeup PROVE Invs'
  OBVIOUS
<1> USE BoundsAssumption, FilesTyped
    DEF BoundsAssumption, IInv, Invs, TypeOK, SlotInv, WorkerInv, OwnerInv,
        Busy, Goto, mailbox, files, reader
<1>1. CASE WorkerWait BY <1>1 DEF WorkerWait
<1>2. CASE WorkerTake BY <1>2 DEF WorkerTake
<1>3. CASE WorkerStop BY <1>3 DEF WorkerStop
<1>4. CASE BeginWrite BY <1>4 DEF BeginWrite
<1>5. CASE EndWrite BY <1>5, EndWriteFile
<1>6. CASE WorkerThrows BY <1>6 DEF WorkerThrows
<1>7. CASE GiveUp BY <1>7 DEF GiveUp
<1>8. CASE TryReplace BY <1>8 DEF TryReplace
<1>9. CASE Replaced BY <1>9 DEF Replaced, FileInv
<1>10. CASE ReplaceBusy BY <1>10 DEF ReplaceBusy
<1>11. CASE Retry BY <1>11 DEF Retry
<1>12. CASE RecordFailure BY <1>12 DEF RecordFailure
<1>13. CASE Cleanup BY <1>13 DEF Cleanup
<1>14. CASE SpuriousWakeup BY <1>14 DEF SpuriousWakeup
<1>15. QED
  BY <1>1, <1>2, <1>3, <1>4, <1>5, <1>6, <1>7, <1>8, <1>9, <1>10, <1>11,
     <1>12, <1>13, <1>14 DEF Worker

\* The owner sets closing_ or abort_, and returns once the worker has ended.
LEMMA OwnerInvs ==
  IInv /\ (BeginFinish \/ EndFinish \/ BeginDestroy \/ EndDestroy) => Invs'
<1> SUFFICES ASSUME IInv, BeginFinish \/ EndFinish \/ BeginDestroy \/ EndDestroy
             PROVE  Invs'
  OBVIOUS
<1> USE DEF IInv, Invs, TypeOK, SlotInv, WorkerInv, OwnerInv, Busy, Notify,
            mailbox, files, reader
<1>1. CASE BeginFinish BY <1>1 DEF BeginFinish
<1>2. CASE EndFinish BY <1>2 DEF EndFinish
<1>3. CASE BeginDestroy BY <1>3 DEF BeginDestroy
<1>4. CASE EndDestroy BY <1>4 DEF EndDestroy
<1>5. QED
  BY <1>1, <1>2, <1>3, <1>4

LEMMA OtherInvs ==
  IInv /\ (ReaderOpens \/ ReaderCloses \/ Killed \/ UNCHANGED vars) => Invs'
BY DEF IInv, Invs, TypeOK, SlotInv, WorkerInv, OwnerInv, Busy, mailbox, files,
       reader, ReaderOpens, ReaderCloses, Killed, vars

\* Only a finished temporary file becomes the output.
LEMMA FileStep == IInv /\ [Next]_vars => FileInv'
<1> SUFFICES ASSUME IInv, [Next]_vars PROVE FileInv'
  OBVIOUS
<1> USE DEF IInv, FileInv, mailbox, files, reader, Goto
<1>0. /\ pending \in Nat /\ accepted \in Nat /\ snapshot \in Nat
      /\ tmp.version \in Nat /\ NoFile # Leftover
      /\ \A v \in Nat : [version |-> v, whole |-> FALSE] # Leftover
      /\ NoFile.version = 0 /\ Leftover.version = 0
  BY FilesTyped, BoundsAssumption DEF BoundsAssumption, TypeOK, NoFile, Leftover
<1>1. CASE Submit
  BY <1>0, <1>1 DEF Submit, SubmitThrows, SubmitRefused, SubmitAccepted, Notify
<1>2. CASE Worker \/ SpuriousWakeup
  <2>1. CASE \/ WorkerWait \/ WorkerTake \/ WorkerStop \/ WorkerThrows \/ GiveUp
             \/ TryReplace \/ ReplaceBusy \/ Retry \/ RecordFailure \/ SpuriousWakeup
    BY <2>1 DEF WorkerWait, WorkerTake, WorkerStop, WorkerThrows, GiveUp,
                TryReplace, ReplaceBusy, Retry, RecordFailure, SpuriousWakeup
  <2>2. CASE BeginWrite BY <1>0, <2>2 DEF BeginWrite
  <2>3. CASE EndWrite
    BY <1>0, <2>3, EndWriteFile DEF SlotInv, WorkerInv, Busy
  <2>4. CASE Replaced BY <1>0, <2>4 DEF Replaced
  <2>5. CASE Cleanup BY <1>0, <2>5 DEF Cleanup
  <2>6. QED
    BY <1>2, <2>1, <2>2, <2>3, <2>4, <2>5 DEF Worker
<1>3. CASE BeginFinish \/ EndFinish \/ BeginDestroy \/ EndDestroy
  BY <1>3 DEF BeginFinish, EndFinish, BeginDestroy, EndDestroy, Notify
<1>4. CASE ReaderOpens \/ ReaderCloses \/ Killed \/ UNCHANGED vars
  BY <1>4 DEF ReaderOpens, ReaderCloses, Killed, vars
<1>5. QED
  BY <1>1, <1>2, <1>3, <1>4 DEF Next

LEMMA StepIInv == IInv /\ [Next]_vars => IInv'
<1>1. IInv /\ [Next]_vars => Invs'
  BY SubmitInvs, WorkerInvs, OwnerInvs, OtherInvs DEF Next
<1>2. QED
  BY <1>1, TypeStep, FileStep DEF IInv, Invs

LEMMA InvsHold ==
  /\ IInv /\ ~TailLost => OutputWhole
  /\ IInv => EndsClean
BY DEF IInv, FileInv, OwnerInv, WorkerInv, TypeOK, OutputWhole, EndsClean,
       FinishedNewest, TemporaryTried

-----------------------------------------------------------------------------
(* Every step of the writer and its owner is a step of LatestValue, or     *)
(* leaves it as it is.                                                     *)

LEMMA InitRefines == Init => Abstract!Init
BY DEF Init, Abstract!Init, Phase, Previous

LEMMA StepRefines == IInv /\ IInv' /\ [Next]_vars => [Abstract!Next]_(Abstract!vars)
<1> SUFFICES ASSUME IInv, IInv', [Next]_vars
             PROVE  [Abstract!Next]_(Abstract!vars)
  OBVIOUS
<1> USE DEF mailbox, files, reader, Phase, Abstract!vars
<1>0. /\ output.version \in Nat /\ accepted \in Nat /\ snapshot \in Nat
      /\ accepted \in 0 .. MaxSubmit /\ MaxSubmit \in Nat
      /\ error \in BOOLEAN /\ abort \in BOOLEAN /\ closing \in BOOLEAN
  BY FilesTyped, BoundsAssumption DEF BoundsAssumption, IInv, TypeOK
<1>1. CASE SubmitAccepted
  BY <1>0, <1>1 DEF SubmitAccepted, Notify, Usable, IInv, OwnerInv, WorkerInv,
                    Abstract!Next, Abstract!Submit
<1>2. CASE SubmitThrows \/ SubmitRefused
  BY <1>2 DEF SubmitThrows, SubmitRefused
<1>3. CASE \/ WorkerWait \/ WorkerTake \/ WorkerStop \/ BeginWrite
           \/ WorkerThrows \/ GiveUp \/ TryReplace \/ ReplaceBusy \/ Retry
           \/ SpuriousWakeup
  BY <1>3 DEF WorkerWait, WorkerTake, WorkerStop, BeginWrite, WorkerThrows,
              GiveUp, TryReplace, ReplaceBusy, Retry, SpuriousWakeup, Goto
<1>4. CASE EndWrite
  BY <1>4, EndWriteFile DEF Goto, IInv
<1>5. CASE Replaced
  BY <1>0, <1>5 DEF Replaced, Goto, IInv, SlotInv, WorkerInv, FileInv, Busy,
                    Abstract!Next, Abstract!Report
<1>6. CASE RecordFailure
  BY <1>0, <1>6 DEF RecordFailure, Goto, IInv, SlotInv, WorkerInv, Busy,
                    Abstract!Next, Abstract!Fail
<1>7. CASE Cleanup
  BY <1>0, <1>7 DEF Cleanup, Goto, IInv, SlotInv, WorkerInv,
                    Abstract!Next, Abstract!End, Abstract!Fail
<1>8. CASE BeginFinish
  BY <1>0, <1>8 DEF BeginFinish, Notify, IInv, OwnerInv, WorkerInv,
                    Abstract!Next, Abstract!Close
<1>9. CASE BeginDestroy
  BY <1>0, <1>9 DEF BeginDestroy, Notify, IInv, OwnerInv, WorkerInv,
                    Abstract!Next, Abstract!Close
<1>10. CASE EndFinish \/ EndDestroy
  BY <1>10 DEF EndFinish, EndDestroy
<1>11. CASE ReaderOpens \/ ReaderCloses \/ UNCHANGED vars
  BY <1>11 DEF ReaderOpens, ReaderCloses, vars
<1>12. CASE Killed
  BY <1>12 DEF Killed
<1>13. QED
  BY <1>1, <1>2, <1>3, <1>4, <1>5, <1>6, <1>7, <1>8, <1>9, <1>10, <1>11, <1>12
     DEF Next, Submit, Worker

-----------------------------------------------------------------------------
(* The session.                                                            *)

\* Whatever the session does to the writer is what an owner may do.
LEMMA SessionStepImplements == [SessionNext]_allVars => [Next]_vars
<1> SUFFICES ASSUME [SessionNext]_allVars PROVE [Next]_vars
  OBVIOUS
<1> USE DEF Next, Submit
<1>1. CASE SaveNumbered \/ SaveThrows \/ SearchReturns \/ SearchThrows
  BY <1>1 DEF SaveNumbered, SaveThrows, SearchReturns, SearchThrows
<1>2. CASE ReporterSubmits \/ ReporterRefused
  BY <1>2 DEF ReporterSubmits, ReporterRefused
<1>3. CASE MainProceeds
  BY <1>3 DEF MainProceeds, NothingToSubmit, SubmitFinal, SubmitFinalThrows,
              Export, FinishCalled, FinishEnds, Destroys, Exits
<1>4. CASE UserStops \/ CancelFileChanges \/ CancelFileSeen
  BY <1>4 DEF UserStops, CancelFileChanges, CancelFileSeen
<1>5. CASE WriterSteps \/ EnvironmentSteps
  BY <1>5 DEF WriterSteps, EnvironmentSteps
<1>6. CASE UNCHANGED allVars
  BY <1>6 DEF allVars
<1>7. QED
  BY <1>1, <1>2, <1>3, <1>4, <1>5, <1>6 DEF SessionNext

\* The output is completely written at every moment, whatever is killed, as
\* long as the disk does not lose the end of a file.
THEOREM OutputWholeAlways ==
  ASSUME ~TailLost PROVE SessionSpec => []OutputWhole
<1>1. SessionInit => IInv
  BY InitIInv DEF SessionInit
<1>2. IInv => OutputWhole
  BY InvsHold
<1>3. QED
  BY <1>1, <1>2, StepIInv, SessionStepImplements, PTL DEF SessionSpec

\* finish() returns normally only with the newest snapshot in place and no
\* temporary file beside it; a writer that has failed or was abandoned leaves
\* one only if it could not be removed.
THEOREM EndsCleanAlways == SessionSpec => []EndsClean
<1>1. SessionInit => IInv
  BY InitIInv DEF SessionInit
<1>2. IInv => EndsClean
  BY InvsHold
<1>3. QED
  BY <1>1, <1>2, StepIInv, SessionStepImplements, PTL DEF SessionSpec

\* The root JSON implements the safety part of LatestValue: it never goes back
\* and ends with the newest snapshot unless a failure or the destructor cuts in.
THEOREM Implements == SessionSpec => IsLatestValue
<1>1. SessionInit => IInv /\ Abstract!Init
  BY InitIInv, InitRefines DEF SessionInit
<1>2. QED
  BY <1>1, StepIInv, StepRefines, SessionStepImplements, PTL
     DEF SessionSpec, IsLatestValue, Abstract!SafeSpec

Submitted == {"export", "finish", "finishing", "leave", "leaving", "exit 0"}
Failed == {"unwind", "unwinding", "exit 1"}

SessionTyped ==
  /\ mode \in {"first", "continuous"}
  /\ main \in MainStates
  /\ reporter \in {"idle", "saved", "failed"}
  /\ numbered \in 0 .. MaxSubmit /\ saved \in 0 .. MaxSubmit
  /\ stop \in BOOLEAN /\ cancel \in BOOLEAN

\* How the numbered results and the accepted snapshots are related.
ReporterInv ==
  /\ reporter = "idle" => numbered = saved
  /\ reporter = "saved" => main = "search" /\ numbered = saved + 1
  /\ saved <= numbered
  /\ mode = "first" => saved = 0 /\ main # "search"

MainInv ==
  /\ main \in {"search", "finalize"} => accepted = saved
  /\ main \in Submitted =>
       accepted = IF mode = "continuous" /\ saved = 0 THEN 0 ELSE saved + 1
  /\ main \in Submitted \cup {"finalize"} =>
       /\ reporter = "idle"
       /\ mode = "continuous" => stop \/ error
  /\ main \in Failed =>
       accepted = saved \/ (accepted = saved + 1 /\ reporter = "idle")

\* finish() has returned normally: the newest snapshot stays in place.
LeaveInv ==
  main \in {"leave", "leaving", "exit 0"} =>
    worker = "done" /\ ~error /\ output.version = accepted

SessionInv == SessionTyped /\ ReporterInv /\ MainInv /\ LeaveInv

LEMMA InitSessionInv == SessionInit => SessionInv
<1> SUFFICES ASSUME SessionInit PROVE SessionInv
  OBVIOUS
<1>1. 0 \in 0 .. MaxSubmit
  BY BoundsAssumption DEF BoundsAssumption
<1>2. \/ mode = "first" /\ main = "finalize"
      \/ mode = "continuous" /\ main = "search"
  BY DEF SessionInit
<1>3. /\ reporter = "idle" /\ numbered = 0 /\ saved = 0 /\ accepted = 0
      /\ stop = FALSE /\ cancel = FALSE
  BY DEF SessionInit, Init
<1>4. SessionTyped
  BY <1>1, <1>2, <1>3 DEF SessionTyped, MainStates
<1>5. ReporterInv /\ MainInv /\ LeaveInv
  <2>1. CASE mode = "first" /\ main = "finalize"
    BY <2>1, <1>3 DEF ReporterInv, MainInv, LeaveInv, Submitted, Failed
  <2>2. CASE mode = "continuous" /\ main = "search"
    BY <2>2, <1>3 DEF ReporterInv, MainInv, LeaveInv, Submitted, Failed
  <2>3. QED
    BY <1>2, <2>1, <2>2
<1>6. QED
  BY <1>4, <1>5 DEF SessionInv

\* The writer and whoever opens its files accept nothing and forgive nothing,
\* and a writer that has ended leaves its output alone.
LEMMA WriterKeeps ==
  ASSUME IInv, WriterSteps \/ EnvironmentSteps
  PROVE  /\ accepted' = accepted /\ (error => error')
         /\ worker = "done" => /\ worker' = "done" /\ error' = error
                               /\ output' = output
<1> USE DEF mailbox, files, reader, Goto
<1>1. CASE WorkerWait \/ WorkerTake \/ WorkerStop \/ BeginWrite \/ WorkerThrows
  BY <1>1 DEF WorkerWait, WorkerTake, WorkerStop, BeginWrite, WorkerThrows
<1>2. CASE EndWrite
  BY <1>2, EndWriteFile DEF IInv
<1>3. CASE GiveUp \/ TryReplace \/ ReplaceBusy \/ Retry \/ SpuriousWakeup
  BY <1>3 DEF GiveUp, TryReplace, ReplaceBusy, Retry, SpuriousWakeup
<1>4. CASE Replaced \/ RecordFailure \/ Cleanup
  BY <1>4 DEF Replaced, RecordFailure, Cleanup
<1>5. CASE ReaderOpens \/ ReaderCloses \/ Killed
  BY <1>5 DEF ReaderOpens, ReaderCloses, Killed
<1>6. QED
  BY <1>1, <1>2, <1>3, <1>4, <1>5 DEF WriterSteps, EnvironmentSteps, Worker

\* The reporter saves a result before it submits the snapshot.
LEMMA ReporterStep ==
  SessionInv /\ (SaveNumbered \/ SaveThrows \/ ReporterSubmits \/ ReporterRefused)
    => SessionInv'
<1> SUFFICES ASSUME SessionInv, \/ SaveNumbered \/ SaveThrows
                                \/ ReporterSubmits \/ ReporterRefused
             PROVE  SessionInv'
  OBVIOUS
<1> USE BoundsAssumption
    DEF BoundsAssumption, SessionInv, SessionTyped, ReporterInv, MainInv, LeaveInv,
        ReporterGoes, Submitted, Failed, MainStates
<1>1. CASE SaveNumbered BY <1>1 DEF SaveNumbered, vars, mailbox
<1>2. CASE SaveThrows BY <1>2 DEF SaveThrows, vars, mailbox
<1>3. CASE ReporterSubmits BY <1>3 DEF ReporterSubmits, SubmitAccepted
<1>4. CASE ReporterRefused BY <1>4 DEF ReporterRefused, SubmitThrows
<1>5. QED
  BY <1>1, <1>2, <1>3, <1>4

\* The main thread submits the final snapshot after all results.
LEMMA MainStep ==
  IInv /\ SessionInv /\ (SearchReturns \/ SearchThrows \/ MainProceeds) => SessionInv'
<1> SUFFICES ASSUME IInv, SessionInv, SearchReturns \/ SearchThrows \/ MainProceeds
             PROVE  SessionInv'
  OBVIOUS
<1> USE DEF SessionInv, SessionTyped, ReporterInv, MainInv, LeaveInv,
            MainGoes, Submitted, Failed, MainStates, vars, mailbox, files
<1>1. CASE SearchReturns BY <1>1 DEF SearchReturns, Over
<1>2. CASE SearchThrows BY <1>2 DEF SearchThrows
<1>3. CASE NothingToSubmit BY <1>3 DEF NothingToSubmit
<1>4. CASE SubmitFinal BY <1>4 DEF SubmitFinal, SubmitAccepted
<1>5. CASE SubmitFinalThrows BY <1>5 DEF SubmitFinalThrows, SubmitThrows
<1>6. CASE Export BY <1>6 DEF Export
<1>7. CASE FinishCalled BY <1>7 DEF FinishCalled, BeginFinish
<1>8. CASE FinishEnds
  BY <1>8 DEF FinishEnds, EndFinish, IInv, OwnerInv, WorkerInv, TypeOK
<1>9. CASE Destroys BY <1>9 DEF Destroys, BeginDestroy, Notify
<1>10. CASE Exits BY <1>10 DEF Exits, EndDestroy
<1>11. QED
  BY <1>1, <1>2, <1>3, <1>4, <1>5, <1>6, <1>7, <1>8, <1>9, <1>10 DEF MainProceeds

LEMMA OtherStep ==
  /\ IInv /\ SessionInv
  /\ \/ UserStops \/ CancelFileChanges \/ CancelFileSeen
     \/ WriterSteps \/ EnvironmentSteps \/ UNCHANGED allVars
  => SessionInv'
<1> SUFFICES ASSUME IInv, SessionInv,
                    \/ UserStops \/ CancelFileChanges \/ CancelFileSeen
                    \/ WriterSteps \/ EnvironmentSteps \/ UNCHANGED allVars
             PROVE  SessionInv'
  OBVIOUS
<1> USE DEF SessionInv, SessionTyped, ReporterInv, MainInv, LeaveInv,
            Submitted, Failed
<1>1. CASE UserStops \/ CancelFileChanges \/ CancelFileSeen
  <2>1. /\ UNCHANGED <<vars, mode, main, reporter, numbered, saved>>
        /\ stop' \in BOOLEAN /\ (stop => stop') /\ cancel' \in BOOLEAN
    BY <1>1, Zenon DEF UserStops, CancelFileChanges, CancelFileSeen, SessionInv,
                       SessionTyped
  <2>2. QED
    BY <2>1 DEF vars, mailbox, files
<1>2. CASE WriterSteps \/ EnvironmentSteps
  <2>1. UNCHANGED <<mode, main, reporter, numbered, saved, stop, cancel>>
    BY <1>2 DEF WriterSteps, EnvironmentSteps, sessionVars
  <2>2. /\ accepted' = accepted /\ (error => error')
        /\ worker = "done" => /\ worker' = "done" /\ error' = error
                              /\ output' = output
    BY <1>2, WriterKeeps
  <2>3. SessionTyped' /\ ReporterInv'
    BY <2>1
  <2>4. MainInv' /\ LeaveInv'
    BY <2>1, <2>2
  <2>5. QED
    BY <2>3, <2>4
<1>3. CASE UNCHANGED allVars
  BY <1>3 DEF allVars, sessionVars, vars, mailbox, files
<1>4. QED
  BY <1>1, <1>2, <1>3

LEMMA StepSessionInv == IInv /\ SessionInv /\ [SessionNext]_allVars => SessionInv'
BY ReporterStep, MainStep, OtherStep DEF SessionNext

\* The fields of the writer and of the session keep their types.
THEOREM TypeCorrect == SessionSpec => []SessionTypeOK
<1>1. SessionInit => IInv /\ SessionInv
  BY InitIInv, InitSessionInv DEF SessionInit
<1>2. IInv /\ SessionInv => SessionTypeOK
  BY DEF IInv, SessionInv, SessionTyped, SessionTypeOK
<1>3. QED
  BY <1>1, <1>2, StepIInv, StepSessionInv, SessionStepImplements, PTL
     DEF SessionSpec

\* The root JSON of a continuous session shows nothing that is not saved in
\* the history, whatever fails or is killed.
THEOREM RootInHistoryAlways == SessionSpec => []RootInHistory
<1>1. SessionInit => IInv /\ SessionInv
  BY InitIInv, InitSessionInv DEF SessionInit
<1>2. ASSUME IInv, SessionInv PROVE RootInHistory
  <2>1. /\ output.version \in Nat /\ accepted \in Nat
        /\ numbered \in Nat /\ saved \in Nat
        /\ output.version <= accepted
    BY <1>2, FilesTyped, BoundsAssumption
       DEF BoundsAssumption, IInv, TypeOK, SlotInv, SessionInv, SessionTyped
  <2>2. main \in {"search", "finalize"} \cup Submitted \cup Failed
    BY <1>2 DEF SessionInv, SessionTyped, MainStates, Submitted, Failed
  <2>3. ReporterInv /\ MainInv
    BY <1>2 DEF SessionInv
  <2>4. accepted <= numbered \/ (/\ accepted = numbered + 1 /\ saved = numbered
                                 /\ main # "search")
    <3>1. CASE main \in {"search", "finalize"}
      BY <2>1, <2>3, <3>1 DEF ReporterInv, MainInv
    <3>2. CASE main \in Submitted
      BY <2>1, <2>3, <3>2 DEF ReporterInv, MainInv, Submitted
    <3>3. CASE main \in Failed
      BY <2>1, <2>3, <3>3 DEF ReporterInv, MainInv, Failed
    <3>4. QED
      BY <2>2, <3>1, <3>2, <3>3
  <2>5. QED
    BY <2>1, <2>4 DEF RootInHistory
<1>3. QED
  BY <1>1, <1>2, StepIInv, StepSessionInv, SessionStepImplements, PTL
     DEF SessionSpec

\* Exit code 0 means that every result was handed on and the final snapshot is
\* in place, completely written if the disk does not lose the end of a file.
THEOREM ExitsHonestlyAlways ==
  ASSUME ~TailLost PROVE SessionSpec => []ExitsHonestly
<1>1. SessionInit => IInv /\ SessionInv
  BY InitIInv, InitSessionInv DEF SessionInit
<1>2. ASSUME IInv, SessionInv PROVE ExitsHonestly
  <2> SUFFICES ASSUME main = "exit 0"
               PROVE  /\ ~error
                      /\ mode = "continuous" => stop /\ saved = numbered
                      /\ output = IF mode = "continuous" /\ saved = 0 THEN Previous
                                  ELSE [version |-> saved + 1, whole |-> TRUE]
    BY DEF ExitsHonestly
  <2>1. /\ ~error /\ (mode = "continuous" => stop /\ saved = numbered)
        /\ output.version = accepted
        /\ accepted = IF mode = "continuous" /\ saved = 0 THEN 0 ELSE saved + 1
    BY <1>2 DEF SessionInv, MainInv, LeaveInv, ReporterInv, Submitted
  <2>2. output \in File /\ output.whole
    BY <1>2, InvsHold DEF IInv, TypeOK, OutputWhole
  <2>3. output = [version |-> accepted, whole |-> TRUE]
    BY <2>1, <2>2 DEF File
  <2>4. QED
    BY <2>1, <2>3 DEF Previous
<1>3. QED
  BY <1>1, <1>2, StepIInv, StepSessionInv, SessionStepImplements, PTL
     DEF SessionSpec

=============================================================================
