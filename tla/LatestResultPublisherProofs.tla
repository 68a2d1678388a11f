-------------------- MODULE LatestResultPublisherProofs ---------------------
(***************************************************************************)
(* Proofs, for any set of producers and any bound, of the safety of the    *)
(* mailbox and of its implementation of LatestValue.                       *)
(***************************************************************************)
EXTENDS LatestResultPublisher, TLAPS

\* What the worker's position says about the slot and the value it holds.
WorkerInv ==
  /\ worker \in {"checking", "waiting"} =>
       /\ current = 0
       /\ pending = 0 => delivered = accepted
  /\ worker \in {"consuming", "failing"} =>
       /\ delivered < current
       /\ current <= accepted
  /\ worker = "consuming" /\ pending = 0 => current = accepted
  /\ worker = "done" /\ ~error =>
       closing /\ pending = 0 /\ current = 0 /\ delivered = accepted
  /\ error => worker = "done" /\ pending = 0

\* Who can have set closing_, and when the owner can have returned.
OwnerInv ==
  /\ owner # "open" => closing
  /\ closing => owner # "open" \/ error
  /\ owner = "closed" => worker = "done" /\ ~error
  /\ FailureIsLoud

SlotInv ==
  /\ delivered <= accepted
  /\ current # 0 => delivered < current
  /\ pending # 0 => /\ pending = accepted
                    /\ delivered < pending
                    /\ current < pending

IInv == TypeOK /\ SlotInv /\ WorkerInv /\ OwnerInv

LEMMA InitIInv == Init => IInv
<1> SUFFICES ASSUME Init PROVE IInv
  OBVIOUS
<1>1. TypeOK
  <2>1. 0 \in 0 .. MaxSubmit
    BY MaxSubmitAssumption DEF MaxSubmitAssumption
  <2>2. outcome \in [Producers -> Outcomes]
    BY DEF Init, Outcomes
  <2>3. QED
    BY <2>1, <2>2 DEF Init, TypeOK, WorkerStates, OwnerStates
<1>2. SlotInv
  BY DEF Init, SlotInv
<1>3. WorkerInv
  BY DEF Init, WorkerInv
<1>4. OwnerInv
  BY DEF Init, OwnerInv, FailureIsLoud
<1>5. QED
  BY <1>1, <1>2, <1>3, <1>4 DEF IInv

LEMMA TypeStep == TypeOK /\ [Next]_vars => TypeOK'
<1> SUFFICES ASSUME TypeOK, [Next]_vars PROVE TypeOK'
  OBVIOUS
<1> USE MaxSubmitAssumption
    DEF MaxSubmitAssumption, TypeOK, WorkerStates, OwnerStates, Outcomes
<1>1. ASSUME NEW p \in Producers, Submit(p) PROVE TypeOK'
  BY <1>1 DEF Submit, SubmitThrows, SubmitIgnored, SubmitAccepted, Notify
<1>2. CASE Worker
  <2>1. CASE WorkerWait BY <2>1 DEF WorkerWait
  <2>2. CASE WorkerTake BY <2>2 DEF WorkerTake
  <2>3. CASE WorkerReturn BY <2>3 DEF WorkerReturn
  <2>4. CASE ConsumeReturns BY <2>4 DEF ConsumeReturns
  <2>5. CASE ConsumeThrows BY <2>5 DEF ConsumeThrows
  <2>6. CASE RecordFailure BY <2>6 DEF RecordFailure
  <2>7. QED
    BY <1>2, <2>1, <2>2, <2>3, <2>4, <2>5, <2>6 DEF Worker
<1>3. CASE SpuriousWakeup
  BY <1>3 DEF SpuriousWakeup
<1>4. CASE Owner
  BY <1>4 DEF Owner, BeginClose, FinishClose, BeginDestroy, FinishDestroy,
              Notify
<1>5. CASE UNCHANGED vars
  BY <1>5 DEF vars
<1>6. QED
  BY <1>1, <1>2, <1>3, <1>4, <1>5 DEF Next

\* A submission fills the slot with a value newer than the one in progress.
LEMMA SubmitIInv ==
  ASSUME NEW p \in Producers, IInv, Submit(p)
  PROVE  SlotInv' /\ WorkerInv' /\ OwnerInv'
<1> USE DEF IInv, TypeOK, SlotInv, WorkerInv, OwnerInv, FailureIsLoud,
            WorkerStates, OwnerStates, Outcomes
<1>1. CASE SubmitThrows(p)
  BY <1>1 DEF SubmitThrows
<1>2. CASE SubmitIgnored(p)
  BY <1>2 DEF SubmitIgnored
<1>3. CASE SubmitAccepted(p)
  BY <1>3, MaxSubmitAssumption
     DEF MaxSubmitAssumption, SubmitAccepted, Notify
<1>4. QED
  BY <1>1, <1>2, <1>3 DEF Submit

\* The worker takes the newest value and reports it before it takes another.
LEMMA WorkerIInv ==
  ASSUME IInv, Worker \/ SpuriousWakeup
  PROVE  SlotInv' /\ WorkerInv' /\ OwnerInv'
<1> USE MaxSubmitAssumption
    DEF MaxSubmitAssumption, IInv, TypeOK, SlotInv, WorkerInv, OwnerInv,
        FailureIsLoud, WorkerStates, OwnerStates, Outcomes
<1>1. CASE WorkerWait BY <1>1 DEF WorkerWait
<1>2. CASE WorkerTake BY <1>2 DEF WorkerTake
<1>3. CASE WorkerReturn BY <1>3 DEF WorkerReturn
<1>4. CASE ConsumeReturns BY <1>4 DEF ConsumeReturns
<1>5. CASE ConsumeThrows BY <1>5 DEF ConsumeThrows
<1>6. CASE RecordFailure BY <1>6 DEF RecordFailure
<1>7. CASE SpuriousWakeup BY <1>7 DEF SpuriousWakeup
<1>8. QED
  BY <1>1, <1>2, <1>3, <1>4, <1>5, <1>6, <1>7 DEF Worker

\* The owner only sets closing_, and returns once the worker has ended.
LEMMA OwnerIInv ==
  ASSUME IInv, Owner
  PROVE  SlotInv' /\ WorkerInv' /\ OwnerInv'
<1> USE DEF IInv, TypeOK, SlotInv, WorkerInv, OwnerInv, FailureIsLoud,
            WorkerStates, OwnerStates, Outcomes
<1>1. CASE BeginClose BY <1>1 DEF BeginClose, Notify
<1>2. CASE FinishClose BY <1>2 DEF FinishClose
<1>3. CASE BeginDestroy BY <1>3 DEF BeginDestroy, Notify
<1>4. CASE FinishDestroy BY <1>4 DEF FinishDestroy
<1>5. QED
  BY <1>1, <1>2, <1>3, <1>4 DEF Owner

LEMMA StepIInv == IInv /\ [Next]_vars => IInv'
<1> SUFFICES ASSUME IInv, [Next]_vars PROVE IInv'
  OBVIOUS
<1>1. TypeOK'
  BY TypeStep DEF IInv
<1>2. SlotInv' /\ WorkerInv' /\ OwnerInv'
  <2>1. CASE UNCHANGED vars
    BY <2>1 DEF vars, IInv, SlotInv, WorkerInv, OwnerInv, FailureIsLoud
  <2>2. CASE Next
    BY <2>2, SubmitIInv, WorkerIInv, OwnerIInv DEF Next
  <2>3. QED
    BY <2>1, <2>2
<1>3. QED
  BY <1>1, <1>2 DEF IInv

-----------------------------------------------------------------------------

\* The fields keep their types.
THEOREM TypeCorrect == SafeSpec => []TypeOK
<1>1. IInv => TypeOK
  BY DEF IInv
<1>2. QED
  BY <1>1, InitIInv, StepIInv, PTL DEF SafeSpec

\* A normal close() has reported the newest accepted value, and submit()
\* ignores a value only after close() was called, never after a failed report.
THEOREM NothingLostAlways == SafeSpec => []NothingLost
<1>1. IInv => Drained
  BY DEF IInv, WorkerInv, OwnerInv, Drained
<1>2. IInv => FailureIsLoud
  BY DEF IInv, OwnerInv
<1>3. IInv => NothingLost
  BY <1>1, <1>2 DEF NothingLost
<1>4. QED
  BY <1>3, InitIInv, StepIInv, PTL DEF SafeSpec

-----------------------------------------------------------------------------
(* Every step of the mailbox is a step of LatestValue, or leaves it as is. *)

LEMMA InitRefines == Init => Abstract!Init
BY DEF Init, Abstract!Init, Phase

LEMMA StepRefines ==
  IInv /\ IInv' /\ [Next]_vars => [Abstract!Next]_(Abstract!vars)
<1> SUFFICES ASSUME IInv, IInv', [Next]_vars
             PROVE  [Abstract!Next]_(Abstract!vars)
  OBVIOUS
<1> USE DEF IInv, TypeOK, SlotInv, WorkerInv, OwnerInv, FailureIsLoud,
            WorkerStates, OwnerStates, Outcomes, Phase, Abstract!vars
<1>1. ASSUME NEW p \in Producers, Submit(p)
      PROVE  [Abstract!Next]_(Abstract!vars)
  BY <1>1 DEF Submit, SubmitThrows, SubmitIgnored, SubmitAccepted, Notify,
              Abstract!Next, Abstract!Submit
<1>2. CASE WorkerWait BY <1>2 DEF WorkerWait
<1>3. CASE WorkerTake BY <1>3 DEF WorkerTake
<1>4. CASE WorkerReturn BY <1>4 DEF WorkerReturn, Abstract!Next, Abstract!End
<1>5. CASE ConsumeReturns
  BY <1>5 DEF ConsumeReturns, Abstract!Next, Abstract!Report
<1>6. CASE ConsumeThrows BY <1>6 DEF ConsumeThrows
<1>7. CASE RecordFailure
  BY <1>7 DEF RecordFailure, Abstract!Next, Abstract!Fail
<1>8. CASE SpuriousWakeup BY <1>8 DEF SpuriousWakeup
<1>9. CASE Owner
  BY <1>9 DEF Owner, BeginClose, FinishClose, BeginDestroy, FinishDestroy,
              Notify, Abstract!Next, Abstract!Close
<1>10. CASE UNCHANGED vars
  BY <1>10 DEF vars
<1>11. QED
  BY <1>1, <1>2, <1>3, <1>4, <1>5, <1>6, <1>7, <1>8, <1>9, <1>10
     DEF Next, Worker

\* The mailbox implements the safety part of LatestValue.
THEOREM Implements == SafeSpec => Abstract!SafeSpec
<1>1. QED
  BY InitIInv, StepIInv, InitRefines, StepRefines, PTL
     DEF SafeSpec, Abstract!SafeSpec

=============================================================================
