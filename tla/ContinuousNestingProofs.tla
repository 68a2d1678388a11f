----------------------- MODULE ContinuousNestingProofs -----------------------
(***************************************************************************)
(* Proofs, for any helpers, parts, wastes and number of improvements: what *)
(* a session reports and what it returns are true of everything its        *)
(* searches have found.                                                    *)
(*                                                                         *)
(* The mailbox is used as its own module says, so that what is proved of   *)
(* the mailbox holds in a session.  The rest of the argument is about the  *)
(* critical section of incumbentMutex: who is in it has accepted a layout  *)
(* that the mailbox does not have yet, and that is all that the mailbox    *)
(* does not have as long as no report has failed.                          *)
(*                                                                         *)
(* The last section is about the numbered results of all the sessions of a *)
(* directory, for any sessions, kinds and numbers of results: the lock     *)
(* makes a session alone in the directory once it is clear, and save() has *)
(* published and finished what its script says.                            *)
(***************************************************************************)
EXTENDS ContinuousNesting, ResultDirectory, TLAPS

Mailbox == INSTANCE LatestResultPublisherProofs WITH Producers <- Threads

Held == lock # "nobody"

States == MainStates \cup HelperStates

PlacesTyped ==
  /\ pc \in [Threads -> [at : States, holding : SUBSET Layouts]]
  /\ pc[Main].at \in MainStates
  /\ \A h \in Helpers : pc[h].at \in HelperStates

ValuesTyped ==
  /\ lock \in Threads \cup {"nobody"}
  /\ incumbent \in BOOLEAN
  /\ best \in Layouts
  /\ offcut \in Nat
  /\ bestRevision \in Nat
  /\ submitted \in Seq(Layouts)
  /\ reporter \in {"callback", "writeback"}
  /\ seedLeft \in 0 .. Parts
  /\ finished \in BOOLEAN
  /\ helperError \in BOOLEAN
  /\ stopRequested \in BOOLEAN
  /\ expired \in BOOLEAN
  /\ cancelled \in BOOLEAN
  /\ timeLimit \in BOOLEAN

SessionTyped == PlacesTyped /\ ValuesTyped

\* Who is in the critical section holds the incumbent.
LockInv ==
  \A t \in Threads : pc[t].holding = IF lock = t THEN {best} ELSE {}

\* Main is in the critical section only while it can accept a layout, and
\* helpers run only in a round or until a failure has joined them.
PlaceInv ==
  /\ lock = Main => pc[Main].at \in {"seeding", "round", "grid", "baseline",
                                     "idle"}
  /\ pc[Main].at \notin {"grid", "joining", "unwinding"} => PoolJoined
  /\ owner # "open" => PoolJoined

\* The owner of the mailbox is the main thread.
OwnerInv ==
  LET where == pc[Main].at
  IN /\ owner = "joining" <=> where = "closing"
     /\ owner = "closed" <=> where = "returned"
     /\ owner = "destroyed" <=> where = "threw"
     /\ owner \in {"rethrown", "destroying"} => where = "unwinding"
     /\ failed => error

\* The mailbox has all that was accepted, but for the layout in the critical
\* section, until a report fails; then it has no more.
CountInv ==
  /\ incumbent <=> bestRevision > 0
  /\ bestRevision >= accepted + (IF Held THEN 1 ELSE 0)
  /\ ~error => bestRevision = accepted + (IF Held THEN 1 ELSE 0)
  /\ Len(submitted) = accepted

\* The incumbent is at least as good as everything that was submitted.
ChainInv ==
  /\ SavedImprove
  /\ \A i \in DOMAIN submitted :
       IF Held THEN Improves(best, submitted[i]) ELSE ~Improves(submitted[i], best)
  /\ ~error /\ ~Held /\ accepted > 0 =>
       /\ best.unplaced = submitted[accepted].unplaced
       /\ best.waste = submitted[accepted].waste

\* What was reported of the incumbent has reached it.
OffcutInv ==
  /\ OffcutOfBest
  /\ delivered = bestRevision => offcut = bestRevision

\* Only the seed pass finds layouts that are in progress, and its last one
\* replaces them or is one of them.
FlagInv ==
  /\ pc[Main].at \in {"start", "seeding"} => best.unplaced = seedLeft
  /\ best.inProgress => pc[Main].at \in {"seeding", "unwinding", "threw"}

\* Why the main thread is where it is.
EndInv ==
  LET where == pc[Main].at
  IN /\ helperError => where \in {"grid", "joining", "unwinding", "threw"}
     /\ where \in {"idle", "closing"} => incumbent \/ stopRequested
     /\ where = "closing" => Over
     /\ where = "returned" => /\ cancelled \/ timeLimit
                              /\ incumbent \/ cancelled

DataInv == LockInv /\ CountInv /\ ChainInv /\ OffcutInv

ControlInv == PlaceInv /\ OwnerInv /\ FlagInv /\ EndInv

IInv == SessionTyped /\ Mailbox!IInv /\ DataInv /\ ControlInv

-----------------------------------------------------------------------------
(* A session does nothing to the mailbox but what its module says.         *)

LEMMA MailboxStep == [Next]_vars => [Mailbox!Next]_(Mailbox!vars)
<1> SUFFICES ASSUME [Next]_vars PROVE [Mailbox!Next]_(Mailbox!vars)
  OBVIOUS
<1> USE DEF Mailbox!vars
<1>1. ASSUME UNCHANGED publisherVars PROVE UNCHANGED Mailbox!vars
  BY <1>1 DEF publisherVars
<1>2. ASSUME NEW t \in Threads, Submit(t) \/ SubmitThrows(t)
      PROVE  Mailbox!Next
  BY <1>2 DEF Submit, SubmitThrows, Publisher!SubmitAccepted, Publisher!Alive,
              Publisher!Notify, Publisher!SubmitThrows, Mailbox!Next,
              Mailbox!Submit, Mailbox!SubmitAccepted, Mailbox!SubmitThrows,
              Mailbox!Alive, Mailbox!Notify
<1>3. CASE Reporter
  <2> USE DEF Mailbox!Next, Mailbox!Worker
  <2>1. CASE Report
    BY <2>1, <1>1 DEF Report
  <2>2. CASE WriteBack
    BY <2>2 DEF WriteBack, Publisher!ConsumeReturns, Mailbox!ConsumeReturns
  <2>3. CASE ReportThrows
    BY <2>3 DEF ReportThrows, Publisher!ConsumeThrows, Mailbox!ConsumeThrows
  <2>4. CASE PublisherStep
    BY <2>4 DEF PublisherStep, Publisher!WorkerWait, Publisher!WorkerTake,
                Publisher!WorkerReturn, Publisher!RecordFailure,
                Mailbox!WorkerWait, Mailbox!WorkerTake, Mailbox!WorkerReturn,
                Mailbox!RecordFailure
  <2>5. QED
    BY <1>3, <2>1, <2>2, <2>3, <2>4 DEF Reporter
<1>4. CASE IdleEnds \/ Return \/ CloseRethrows \/ UnwindBegins \/ UnwindEnds
  BY <1>4 DEF IdleEnds, Return, CloseRethrows, UnwindBegins, UnwindEnds,
              Publisher!BeginClose, Publisher!FinishClose,
              Publisher!BeginDestroy, Publisher!FinishDestroy,
              Publisher!Notify, Mailbox!Next, Mailbox!Owner,
              Mailbox!BeginClose, Mailbox!FinishClose, Mailbox!BeginDestroy,
              Mailbox!FinishDestroy, Mailbox!Notify
<1>5. CASE \/ SeedBegins \/ SeedSnapshot \/ SeedEnds \/ RoundBegins
           \/ RoundSkipped \/ GridFinds \/ GridEnds \/ SearchThrows
           \/ RoundEnds \/ RoundRethrows \/ BaselineConsidered
           \/ BaselineSkipped \/ UserStops \/ TimeExpires
  BY <1>5, <1>1
     DEF SeedBegins, SeedSnapshot, SeedEnds, RoundBegins, RoundSkipped,
         GridFinds, GridEnds, SearchThrows, RoundEnds, RoundRethrows,
         BaselineConsidered, BaselineSkipped, Consider, UserStops, TimeExpires
<1>6. ASSUME NEW h \in Helpers,
             HelperBegins(h) \/ HelperFinds(h) \/ HelperThrows(h)
               \/ HelperTrialEnds(h) \/ HelperEnds(h)
      PROVE  UNCHANGED Mailbox!vars
  BY <1>6, <1>1 DEF HelperBegins, HelperFinds, HelperThrows, HelperTrialEnds,
                    HelperEnds, Consider
<1>7. CASE UNCHANGED vars
  BY <1>7, <1>1 DEF vars
<1>8. Main \in Threads /\ Helpers \subseteq Threads
  BY DEF Threads
<1>9. QED
  BY <1>2, <1>3, <1>4, <1>5, <1>6, <1>7, <1>8
     DEF Next, MainProceeds, HelperProceeds

\* The mailbox of a session loses nothing.
THEOREM MailboxUsed == Spec => Mailbox!SafeSpec
<1>1. Init => Mailbox!Init
  BY DEF Init, Publisher!Init, Mailbox!Init
<1>2. QED
  BY <1>1, MailboxStep, PTL DEF Spec, Mailbox!SafeSpec

LEMMA MailboxKept == Mailbox!IInv /\ [Next]_vars => Mailbox!IInv'
<1>1. Mailbox!IInv /\ [Mailbox!Next]_(Mailbox!vars) => Mailbox!IInv'
  BY Mailbox!StepIInv, ContinuousAssumption DEF ContinuousAssumption
<1>2. QED
  BY <1>1, MailboxStep

-----------------------------------------------------------------------------
(* The critical section.                                                   *)

\* What a step that does not touch the incumbent or the slot leaves alone.
Aside ==
  /\ UNCHANGED <<bestVars, submitted, lock, accepted, delivered>>
  /\ error => error'
  /\ \A t \in Threads : pc'[t].holding = pc[t].holding

LEMMA NobodyElse == "nobody" \notin Threads /\ Main \in Threads
BY ContinuousAssumption DEF ContinuousAssumption, Threads, Main

LEMMA AsideData == ASSUME DataInv, Aside PROVE DataInv'
<1> USE DEF Aside, bestVars, Held
<1>1. LockInv'
  BY DEF DataInv, LockInv
<1>2. CountInv'
  BY DEF DataInv, CountInv
<1>3. ChainInv'
  BY DEF DataInv, ChainInv, SavedImprove
<1>4. OffcutInv'
  BY DEF DataInv, OffcutInv, OffcutOfBest
<1>5. QED
  BY <1>1, <1>2, <1>3, <1>4 DEF DataInv

LEMMA Typed ==
  ASSUME SessionTyped, Mailbox!IInv
  PROVE  /\ \A t \in Threads : /\ pc[t] \in [at : States, holding : SUBSET Layouts]
                               /\ pc[t].holding \subseteq Layouts
         /\ pc \in [Threads -> [at : States, holding : SUBSET Layouts]]
         /\ lock \in Threads \cup {"nobody"}
         /\ best \in Layouts /\ submitted \in Seq(Layouts)
         /\ bestRevision \in Nat /\ accepted \in Nat /\ delivered \in Nat
         /\ current \in Nat /\ offcut \in Nat
         /\ current # 0 => delivered < current
         /\ delivered <= accepted
         /\ error \in BOOLEAN /\ failed \in BOOLEAN
<1>1. /\ accepted \in Nat /\ delivered \in Nat /\ current \in Nat
      /\ error \in BOOLEAN /\ failed \in BOOLEAN
  BY ContinuousAssumption
     DEF ContinuousAssumption, Mailbox!IInv, Mailbox!TypeOK
<1>2. delivered <= accepted /\ (current # 0 => delivered < current)
  BY DEF Mailbox!IInv, Mailbox!SlotInv
<1>3. QED
  BY <1>1, <1>2 DEF SessionTyped, PlacesTyped, ValuesTyped

LEMMA LayoutTyped ==
  \A l \in Layouts : l.unplaced \in Nat /\ l.waste \in Nat
<1>1. Parts \in Nat /\ Wastes \subseteq Nat
  BY ContinuousAssumption DEF ContinuousAssumption
<1>2. ASSUME NEW l \in Layouts PROVE l.unplaced \in Nat /\ l.waste \in Nat
  <2>1. l.unplaced \in 0 .. Parts /\ l.waste \in Wastes
    BY DEF Layouts
  <2>2. l.waste \in Nat
    BY <1>1, <2>1
  <2>3. l.unplaced \in Nat
    BY <1>1, <2>1
  <2>4. QED
    BY <2>2, <2>3
<1>3. QED
  BY <1>2

\* What improves on the incumbent improves on all it improves on.
LEMMA ImprovesChain ==
  ASSUME NEW a \in Layouts, NEW b \in Layouts, NEW c \in Layouts
  PROVE  /\ Improves(a, b) /\ Improves(b, c) => Improves(a, c)
         /\ Improves(a, b) /\ ~Improves(c, b) => Improves(a, c)
         /\ Improves(a, b) => ~Improves(b, a)
         /\ ~Improves(a, a)
BY LayoutTyped DEF Improves

\* Accepting begins the critical section, and rejecting changes no quality.
LEMMA ConsiderData ==
  ASSUME SessionTyped, Mailbox!IInv, DataInv,
         NEW t \in Threads, NEW next, NEW layout \in Layouts,
         Consider(t, next, layout)
  PROVE  DataInv'
<1> USE Typed, NobodyElse
<1>1. UNCHANGED <<submitted, accepted, delivered, error>>
  BY DEF Consider, publisherVars
<1>2. CASE Accept(t, next, layout)
  <2> USE <1>1, <1>2 DEF Accept, Held
  <2>1. LockInv'
    BY DEF DataInv, LockInv
  <2>2. CountInv'
    BY DEF DataInv, CountInv
  <2>3. ChainInv'
    <3>1. ASSUME NEW i \in DOMAIN submitted
          PROVE  Improves(layout, submitted[i])
      <4>1. submitted[i] \in Layouts /\ accepted > 0
        BY <3>1 DEF DataInv, CountInv
      <4>2. incumbent
        BY <4>1 DEF DataInv, CountInv
      <4>3. Improves(layout, best) /\ ~Improves(submitted[i], best)
        BY <3>1, <4>2 DEF DataInv, ChainInv
      <4>4. QED
        BY <4>1, <4>3, ImprovesChain
    <3>2. QED
      BY <3>1 DEF DataInv, ChainInv, SavedImprove
  <2>4. OffcutInv'
    BY DEF DataInv, CountInv, OffcutInv, OffcutOfBest
  <2>5. QED
    BY <2>1, <2>2, <2>3, <2>4 DEF DataInv
<1>3. CASE Reject(layout) /\ Goto(t, next)
  <2> USE <1>1, <1>3 DEF Reject, Goto, Held
  <2>1. best' \in Layouts /\ best'.unplaced = best.unplaced
                          /\ best'.waste = best.waste
    BY DEF Layouts
  <2>2. LockInv'
    BY DEF DataInv, LockInv
  <2>3. CountInv'
    BY DEF DataInv, CountInv
  <2>4. ChainInv'
    <3>1. \A i \in DOMAIN submitted : ~Improves(submitted[i], best')
      BY <2>1 DEF DataInv, ChainInv, Improves
    <3>2. QED
      BY <2>1, <3>1 DEF DataInv, ChainInv, SavedImprove
  <2>5. OffcutInv'
    BY DEF DataInv, OffcutInv, OffcutOfBest
  <2>6. QED
    BY <2>2, <2>3, <2>4, <2>5 DEF DataInv
<1>4. QED
  BY <1>2, <1>3 DEF Consider

\* The layout in the critical section is submitted.
LEMMA SubmitData ==
  ASSUME SessionTyped, Mailbox!IInv, DataInv, NEW t \in Threads, Submit(t)
  PROVE  DataInv' /\ lock = t /\ lock' = "nobody"
<1> USE Typed, NobodyElse
<1>1. /\ lock = t /\ pc[t].holding = {best}
      /\ pc' = [pc EXCEPT ![t].holding = {}] /\ lock' = "nobody"
  BY DEF Submit, DataInv, LockInv
<1>2. UNCHANGED bestVars
  BY DEF Submit
<1>3. /\ ~error /\ accepted' = accepted + 1
      /\ UNCHANGED <<error, delivered>>
  BY DEF Submit, Publisher!SubmitAccepted
<1>4. submitted' = Append(submitted, best)
  BY <1>1 DEF Submit
<1>5. LockInv'
  <2>1. ASSUME NEW x \in Threads PROVE pc'[x].holding = {}
    BY <1>1 DEF DataInv, LockInv
  <2>2. QED
    BY <1>1, <2>1 DEF LockInv
<1>6. CountInv'
  BY <1>1, <1>2, <1>3, <1>4 DEF DataInv, CountInv, Held, bestVars
<1>7. ChainInv'
  <2>1. /\ Len(submitted') = accepted + 1
        /\ submitted'[accepted + 1] = best
        /\ \A i \in DOMAIN submitted : submitted'[i] = submitted[i]
        /\ DOMAIN submitted' = DOMAIN submitted \cup {accepted + 1}
        /\ DOMAIN submitted = 1 .. accepted
    BY <1>4 DEF DataInv, CountInv
  <2>2. \A i \in DOMAIN submitted : Improves(best, submitted[i])
    BY <1>1 DEF DataInv, ChainInv, Held
  <2>3. ~Improves(best, best)
    BY ImprovesChain
  <2>4. \A i \in DOMAIN submitted : submitted[i] \in Layouts
    OBVIOUS
  <2>5. \A i \in DOMAIN submitted : ~Improves(submitted[i], best)
    BY <2>2, <2>4, ImprovesChain
  <2>6. \A i \in DOMAIN submitted' : ~Improves(submitted'[i], best)
    BY <2>1, <2>3, <2>5
  <2>7. SavedImprove'
    <3>1. ASSUME NEW i \in DOMAIN submitted', NEW j \in DOMAIN submitted', i < j
          PROVE  Improves(submitted'[j], submitted'[i])
      <4>1. i \in DOMAIN submitted
        BY <2>1, <3>1
      <4>2. CASE j \in DOMAIN submitted
        BY <2>1, <3>1, <4>1, <4>2 DEF DataInv, ChainInv, SavedImprove
      <4>3. CASE j = accepted + 1
        BY <2>1, <2>2, <4>1, <4>3
      <4>4. QED
        BY <2>1, <4>2, <4>3
    <3>2. QED
      BY <3>1 DEF SavedImprove
  <2>8. QED
    BY <1>1, <1>2, <1>3, <2>1, <2>6, <2>7 DEF ChainInv, Held, bestVars
<1>8. OffcutInv'
  BY <1>2, <1>3 DEF DataInv, OffcutInv, OffcutOfBest, bestVars
<1>9. QED
  BY <1>1, <1>5, <1>6, <1>7, <1>8 DEF DataInv

\* A failed report ends the critical section with nothing submitted.
LEMMA SubmitThrowsData ==
  ASSUME SessionTyped, Mailbox!IInv, DataInv, NEW t \in Threads,
         SubmitThrows(t)
  PROVE  DataInv' /\ lock = t /\ lock' = "nobody"
<1> USE Typed, NobodyElse
<1>1. lock = t /\ lock' = "nobody"
  BY DEF SubmitThrows, DataInv, LockInv
<1>2. UNCHANGED <<bestVars, submitted, accepted, delivered>> /\ error /\ error'
  BY DEF SubmitThrows, Publisher!SubmitThrows
<1>3. pc'[t].holding = {} /\ \A x \in Threads \ {t} : pc'[x] = pc[x]
  BY DEF SubmitThrows, Goto
<1>4. LockInv'
  BY <1>1, <1>3 DEF DataInv, LockInv
<1>5. CountInv'
  BY <1>1, <1>2 DEF DataInv, CountInv, Held, bestVars
<1>6. ChainInv'
  <2>1. ASSUME NEW i \in DOMAIN submitted PROVE ~Improves(submitted[i], best)
    <3>1. Improves(best, submitted[i]) /\ submitted[i] \in Layouts
      BY <1>1 DEF DataInv, ChainInv, Held
    <3>2. QED
      BY <3>1, ImprovesChain
  <2>2. QED
    BY <1>1, <1>2, <2>1 DEF DataInv, ChainInv, SavedImprove, Held, bestVars
<1>7. OffcutInv'
  BY <1>2 DEF DataInv, OffcutInv, OffcutOfBest, bestVars
<1>8. QED
  BY <1>1, <1>4, <1>5, <1>6, <1>7 DEF DataInv

\* The offcut of the incumbent, if it was that one that was reported.
LEMMA WriteBackData ==
  ASSUME SessionTyped, Mailbox!IInv, DataInv, WriteBack
  PROVE  DataInv'
<1> USE Typed
<1>1. /\ delivered' = current
      /\ UNCHANGED <<incumbent, best, bestRevision, pc, lock, submitted,
                     accepted, error>>
      /\ offcut' = IF current = bestRevision THEN current ELSE offcut
  BY DEF WriteBack, Publisher!ConsumeReturns
<1>2. LockInv' /\ CountInv' /\ ChainInv'
  BY <1>1 DEF DataInv, LockInv, CountInv, ChainInv, SavedImprove, Held
<1>3. OffcutInv'
  BY <1>1 DEF DataInv, OffcutInv, OffcutOfBest
<1>4. QED
  BY <1>2, <1>3 DEF DataInv

-----------------------------------------------------------------------------
(* Where the threads are.                                                  *)

\* A step of the main thread leaves the helpers where they are.
LEMMA MainMoves ==
  ASSUME SessionTyped, Mailbox!IInv, NEW to, NEW held,
         pc' = [pc EXCEPT ![Main] = [at |-> to, holding |-> held]]
  PROVE  pc'[Main].at = to /\ pc'[Main].holding = held /\ PoolJoined' = PoolJoined
<1>1. pc'[Main] = [at |-> to, holding |-> held]
  BY Typed, NobodyElse
<1>2. \A h \in Helpers : pc'[h] = pc[h]
  BY Typed, ContinuousAssumption DEF ContinuousAssumption, Threads
<1>3. QED
  BY <1>1, <1>2 DEF PoolJoined, At

\* What a step of consider() by the main thread does to the control state.
LEMMA MainConsiders ==
  ASSUME SessionTyped, Mailbox!IInv, NEW next, NEW layout \in Layouts,
         Consider(Main, next, layout)
  PROVE  /\ pc'[Main].at = next /\ PoolJoined' = PoolJoined
         /\ lock = "nobody" /\ lock' \in {"nobody", Main}
         /\ incumbent' = TRUE
         /\ \/ best' = layout /\ (incumbent => Improves(layout, best))
            \/ /\ incumbent /\ ~Improves(layout, best)
               /\ best'.unplaced = best.unplaced
               /\ best'.inProgress => best.inProgress
               /\ ~layout.inProgress /\ layout.unplaced = best.unplaced =>
                    ~best'.inProgress
         /\ UNCHANGED <<owner, error, failed, stopVars, finalVars>>
<1>1. UNCHANGED <<owner, error, failed, stopVars, finalVars>>
  BY DEF Consider, publisherVars
<1>2. CASE Accept(Main, next, layout)
  BY <1>1, <1>2, MainMoves DEF Accept
<1>3. CASE Reject(layout) /\ Goto(Main, next)
  <2>1. pc'[Main].at = next /\ PoolJoined' = PoolJoined
    BY <1>3, MainMoves DEF Goto
  <2>2. best \in Layouts
    BY Typed
  <2>3. QED
    BY <1>1, <1>3, <2>1, <2>2 DEF Reject, Layouts
<1>4. QED
  BY <1>2, <1>3 DEF Consider

\* The steps in which the main thread considers what it has found.
LEMMA MainConsidersControl ==
  ASSUME SessionTyped, Mailbox!IInv, ControlInv,
         \/ SeedSnapshot \/ SeedEnds \/ GridFinds \/ RoundEnds
         \/ BaselineConsidered
  PROVE  ControlInv'
<1> USE DEF ControlInv, PlaceInv, OwnerInv, FlagInv, EndInv, roundVars,
            stopVars, finalVars, At
<1>1. CASE SeedSnapshot
  <2>1. PICK layout \in Layouts :
          /\ layout.inProgress /\ layout.unplaced < seedLeft
          /\ seedLeft' = layout.unplaced
          /\ Consider(Main, "seeding", layout)
    BY <1>1 DEF SeedSnapshot
  <2>2. pc[Main].at = "seeding" /\ UNCHANGED roundVars
    BY <1>1 DEF SeedSnapshot
  <2>3. ~incumbent \/ Improves(layout, best)
    BY <2>1, <2>2 DEF Improves
  <2>4. best' = layout
    BY <2>1, <2>3, MainConsiders
  <2>5. QED
    BY <2>1, <2>2, <2>4, MainConsiders
<1>2. CASE SeedEnds
  <2>1. PICK layout \in Layouts : /\ ~layout.inProgress
                                  /\ layout.unplaced <= seedLeft
                                  /\ Consider(Main, "round", layout)
    BY <1>2 DEF SeedEnds
  <2>2. pc[Main].at = "seeding" /\ UNCHANGED <<roundVars, seedLeft>>
    BY <1>2 DEF SeedEnds
  <2>3. layout.unplaced \in Nat /\ best.unplaced \in Nat
    BY Typed, LayoutTyped
  <2>4. ~Improves(layout, best) => layout.unplaced = best.unplaced
    BY <2>1, <2>2, <2>3 DEF Improves
  <2>5. ~best'.inProgress
    BY <2>1, <2>4, MainConsiders
  <2>6. pc'[Main].at = "round" /\ PoolJoined' = PoolJoined
    BY <2>1, MainConsiders
  <2>7. PlaceInv'
    BY <2>1, <2>2, <2>6, MainConsiders
  <2>8. OwnerInv'
    BY <2>1, <2>2, <2>6, MainConsiders
  <2>9. FlagInv'
    BY <2>5, <2>6
  <2>10. EndInv'
    BY <2>1, <2>2, <2>6, MainConsiders
  <2>11. QED
    BY <2>7, <2>8, <2>9, <2>10
<1>3. CASE GridFinds
  <2>1. PICK layout \in Layouts : /\ ~layout.inProgress
                                  /\ Consider(Main, "grid", layout)
    BY <1>3 DEF GridFinds
  <2>2. pc[Main].at = "grid" /\ UNCHANGED <<roundVars, seedLeft>>
    BY <1>3 DEF GridFinds
  <2>3. QED
    BY <2>1, <2>2, MainConsiders
<1>4. CASE RoundEnds
  <2>1. PICK layout \in Layouts : /\ ~layout.inProgress
                                  /\ Consider(Main, "baseline", layout)
    BY <1>4 DEF RoundEnds
  <2>2. /\ pc[Main].at = "joining" /\ PoolJoined /\ ~helperError
        /\ UNCHANGED <<roundVars, seedLeft>>
    BY <1>4 DEF RoundEnds
  <2>3. pc'[Main].at = "baseline" /\ PoolJoined' = PoolJoined
    BY <2>1, <2>2, MainConsiders
  <2>4. PlaceInv'
    BY <2>1, <2>2, <2>3, MainConsiders
  <2>5. OwnerInv'
    BY <2>1, <2>2, <2>3, MainConsiders
  <2>6. ~best'.inProgress
    BY <2>1, <2>2, MainConsiders
  <2>7. FlagInv'
    BY <2>3, <2>6
  <2>8. EndInv'
    BY <2>1, <2>2, <2>3, MainConsiders
  <2>9. QED
    BY <2>4, <2>5, <2>7, <2>8
<1>5. CASE BaselineConsidered
  <2>1. Baseline \in Layouts /\ ~Baseline.inProgress
    BY ContinuousAssumption DEF ContinuousAssumption, Baseline, Layouts
  <2>2. /\ pc[Main].at = "baseline" /\ UNCHANGED <<roundVars, seedLeft>>
        /\ Consider(Main, "idle", Baseline)
    BY <1>5 DEF BaselineConsidered
  <2>3. pc'[Main].at = "idle" /\ PoolJoined' = PoolJoined
    BY <2>1, <2>2, MainConsiders
  <2>4. PlaceInv'
    BY <2>1, <2>2, <2>3, MainConsiders
  <2>5. OwnerInv'
    BY <2>1, <2>2, <2>3, MainConsiders
  <2>6. ~best'.inProgress
    BY <2>1, <2>2, MainConsiders
  <2>7. FlagInv'
    BY <2>3, <2>6
  <2>8. EndInv'
    BY <2>1, <2>2, <2>3, MainConsiders
  <2>9. QED
    BY <2>4, <2>5, <2>7, <2>8
<1>6. QED
  BY <1>1, <1>2, <1>3, <1>4, <1>5

\* The main thread goes on, and considers nothing.
LEMMA MainGoes ==
  ASSUME SessionTyped, Mailbox!IInv, lock # Main, NEW to, Goto(Main, to),
         to \notin {"start", "seeding"},
         to \in {"joining", "unwinding"} \/ PoolJoined,
         best.inProgress => to \in {"unwinding", "threw"},
         owner' # "open" => PoolJoined,
         UNCHANGED <<bestVars, lock, seedLeft>>
  PROVE  /\ pc'[Main].at = to
         /\ PlaceInv' /\ FlagInv'
<1>1. pc'[Main].at = to /\ PoolJoined' = PoolJoined
  BY MainMoves DEF Goto
<1>2. lock' # Main /\ best' = best
  BY DEF bestVars
<1>3. PlaceInv'
  BY <1>1, <1>2 DEF PlaceInv
<1>4. FlagInv'
  BY <1>1, <1>2 DEF FlagInv
<1>5. QED
  BY <1>1, <1>3, <1>4

LEMMA MainProceedsControl ==
  ASSUME SessionTyped, Mailbox!IInv, ControlInv, DataInv,
         \/ SeedBegins \/ RoundBegins \/ RoundSkipped \/ GridEnds
         \/ SearchThrows \/ RoundRethrows \/ BaselineSkipped \/ IdleEnds
         \/ Return \/ CloseRethrows \/ UnwindBegins \/ UnwindEnds
  PROVE  ControlInv'
<1> USE DEF ControlInv, OwnerInv, EndInv, stopVars, finalVars, bestVars,
            roundVars
<1>1. ASSUME NEW from, At(Main, from)
      PROVE  pc[Main].at = from /\ lock # Main
  BY <1>1, NobodyElse DEF At, DataInv, LockInv
<1>2. LockInv
  BY DEF DataInv
<1>3. owner \in Mailbox!OwnerStates
  BY DEF Mailbox!IInv, Mailbox!TypeOK
<1>4. CASE SeedBegins
  <2>1. PICK to \in {"seeding", "round"} : Goto(Main, to)
    BY <1>4 DEF SeedBegins
  <2>2. /\ pc[Main].at = "start" /\ lock' = lock /\ lock # Main
        /\ UNCHANGED <<owner, error, failed>>
        /\ UNCHANGED <<bestVars, roundVars, stopVars, finalVars, seedLeft>>
    BY <1>1, <1>4 DEF SeedBegins, publisherVars
  <2>3. pc'[Main].at = to /\ PoolJoined' /\ ~best.inProgress
    BY <2>1, <2>2, MainMoves DEF PlaceInv, FlagInv, Goto
  <2>4. PlaceInv' /\ FlagInv'
    BY <2>2, <2>3 DEF PlaceInv, FlagInv
  <2>5. OwnerInv' /\ EndInv'
    BY <2>1, <2>2, <2>3
  <2>6. QED
    BY <2>4, <2>5
<1>5. CASE RoundBegins
  <2>1. /\ pc[Main].at = "round" /\ lock' = lock /\ lock # Main
        /\ pc'[Main].at = "grid"
        /\ UNCHANGED <<owner, error, failed>>
        /\ UNCHANGED <<bestVars, roundVars, stopVars, finalVars, seedLeft>>
    BY <1>1, <1>5, NobodyElse DEF RoundBegins, publisherVars
  <2>2. owner = "open"
    BY <1>3, <2>1 DEF Mailbox!OwnerStates
  <2>3. PlaceInv' /\ FlagInv'
    BY <2>1, <2>2 DEF PlaceInv, FlagInv
  <2>4. OwnerInv' /\ EndInv'
    BY <2>1
  <2>5. QED
    BY <2>3, <2>4
<1>6. CASE RoundSkipped
  <2>1. /\ pc[Main].at = "round" /\ lock # Main /\ Goto(Main, "baseline")
        /\ UNCHANGED <<owner, error, failed, bestVars, roundVars, stopVars,
                       finalVars, lock, seedLeft>>
    BY <1>1, <1>6 DEF RoundSkipped, publisherVars
  <2>2. /\ PoolJoined \/ pc[Main].at \in {"grid", "joining", "unwinding"}
        /\ best.inProgress => pc[Main].at \in {"seeding", "unwinding"}
        /\ owner # "open" => PoolJoined
    BY <2>1 DEF PlaceInv, FlagInv
  <2>3. PlaceInv' /\ FlagInv' /\ pc'[Main].at = "baseline"
    BY <2>1, <2>2, MainGoes
  <2>4. OwnerInv' /\ EndInv'
    BY <2>1, <2>3
  <2>5. QED
    BY <2>3, <2>4
<1>7. CASE GridEnds \/ SearchThrows
  <2>1. PICK to \in {"joining", "unwinding"} :
          /\ Goto(Main, to)
          /\ pc[Main].at \in {"seeding", "grid"}
          /\ pc[Main].at = "seeding" => to = "unwinding"
          /\ lock # Main
          /\ UNCHANGED <<owner, error, failed, bestVars, helperError, stopVars,
                         finalVars, lock, seedLeft>>
    BY <1>1, <1>7 DEF GridEnds, SearchThrows, publisherVars
  <2>2. /\ PoolJoined \/ pc[Main].at \in {"grid", "joining", "unwinding"}
        /\ best.inProgress => pc[Main].at \in {"seeding", "unwinding"}
        /\ owner # "open" => PoolJoined
    BY <2>1 DEF PlaceInv, FlagInv
  <2>3. PlaceInv' /\ FlagInv' /\ pc'[Main].at = to
    BY <2>1, <2>2, MainGoes
  <2>4. OwnerInv' /\ EndInv'
    BY <2>1, <2>3
  <2>5. QED
    BY <2>3, <2>4
<1>8. CASE RoundRethrows
  <2>1. /\ pc[Main].at = "joining" /\ lock # Main /\ Goto(Main, "unwinding")
        /\ UNCHANGED <<owner, error, failed, bestVars, roundVars, stopVars,
                       finalVars, lock, seedLeft>>
    BY <1>1, <1>8 DEF RoundRethrows, publisherVars
  <2>2. /\ PoolJoined \/ pc[Main].at \in {"grid", "joining", "unwinding"}
        /\ best.inProgress => pc[Main].at \in {"seeding", "unwinding"}
        /\ owner # "open" => PoolJoined
    BY <2>1 DEF PlaceInv, FlagInv
  <2>3. PlaceInv' /\ FlagInv' /\ pc'[Main].at = "unwinding"
    BY <2>1, <2>2, MainGoes
  <2>4. OwnerInv' /\ EndInv'
    BY <2>1, <2>3
  <2>5. QED
    BY <2>3, <2>4
<1>9. CASE BaselineSkipped
  <2>1. /\ pc[Main].at = "baseline" /\ lock # Main /\ Goto(Main, "idle")
        /\ incumbent \/ stopRequested
        /\ UNCHANGED <<owner, error, failed, bestVars, roundVars, stopVars,
                       finalVars, lock, seedLeft>>
    BY <1>1, <1>9 DEF BaselineSkipped, publisherVars
  <2>2. /\ PoolJoined \/ pc[Main].at \in {"grid", "joining", "unwinding"}
        /\ best.inProgress => pc[Main].at \in {"seeding", "unwinding"}
        /\ owner # "open" => PoolJoined
    BY <2>1 DEF PlaceInv, FlagInv
  <2>3. PlaceInv' /\ FlagInv' /\ pc'[Main].at = "idle"
    BY <2>1, <2>2, MainGoes
  <2>4. OwnerInv' /\ EndInv'
    BY <2>1, <2>3
  <2>5. QED
    BY <2>3, <2>4
<1>10. CASE IdleEnds
  <2>1. /\ pc[Main].at = "idle" /\ lock # Main /\ Goto(Main, "closing")
        /\ Over /\ owner' = "joining" /\ UNCHANGED <<error, failed>>
        /\ UNCHANGED <<bestVars, roundVars, stopVars, finalVars, lock,
                       seedLeft>>
    BY <1>1, <1>10 DEF IdleEnds, Publisher!BeginClose
  <2>2. /\ PoolJoined \/ pc[Main].at \in {"grid", "joining", "unwinding"}
        /\ best.inProgress => pc[Main].at \in {"seeding", "unwinding"}
        /\ owner # "open" => PoolJoined
    BY <2>1 DEF PlaceInv, FlagInv
  <2>3. PlaceInv' /\ FlagInv' /\ pc'[Main].at = "closing"
    BY <2>1, <2>2, MainGoes
  <2>4. OwnerInv' /\ EndInv'
    BY <2>1, <2>3 DEF Over
  <2>5. QED
    BY <2>3, <2>4
<1>11. CASE Return \/ CloseRethrows
  <2>1. PICK to \in {"returned", "unwinding"} :
          /\ pc[Main].at = "closing" /\ lock # Main /\ Goto(Main, to)
          /\ UNCHANGED <<error, failed>>
          /\ owner' = IF error THEN "rethrown" ELSE "closed"
          /\ error <=> to = "unwinding"
          /\ to = "returned" => /\ cancelled' = stopRequested
                                /\ timeLimit' = (expired /\ ~stopRequested)
          /\ UNCHANGED <<bestVars, roundVars, stopVars, lock, seedLeft>>
    BY <1>1, <1>11 DEF Return, CloseRethrows, Publisher!FinishClose
  <2>2. /\ PoolJoined \/ pc[Main].at \in {"grid", "joining", "unwinding"}
        /\ best.inProgress => pc[Main].at \in {"seeding", "unwinding"}
        /\ owner # "open" => PoolJoined
    BY <2>1 DEF PlaceInv, FlagInv
  <2>3. PlaceInv' /\ FlagInv' /\ pc'[Main].at = to
    BY <2>1, <2>2, MainGoes
  <2>4. OwnerInv'
    BY <2>1, <2>3
  <2>5. CASE to = "returned"
    <3>1. /\ cancelled' = stopRequested
          /\ timeLimit' = (expired /\ ~stopRequested)
          /\ pc'[Main].at = "returned"
      BY <2>1, <2>3, <2>5
    <3>2. ~failed /\ incumbent' = incumbent /\ helperError' = helperError
      BY <2>1, <2>5
    <3>3. (stopRequested \/ expired) /\ (incumbent \/ stopRequested)
      BY <2>1, <3>2 DEF Over
    <3>4. (cancelled' \/ timeLimit') /\ (incumbent' \/ cancelled')
      BY <3>1, <3>2, <3>3, Zenon
    <3>5. ~helperError
      BY <2>1
    <3>6. EndInv'
      BY <3>1, <3>2, <3>4, <3>5
    <3>7. QED
      BY <2>3, <2>4, <3>6
  <2>6. CASE to = "unwinding"
    <3>1. EndInv'
      BY <2>3, <2>6
    <3>2. QED
      BY <2>3, <2>4, <3>1
  <2>7. QED
    BY <2>5, <2>6
<1>12. CASE UnwindBegins
  <2>1. /\ pc[Main].at = "unwinding" /\ lock # Main /\ PoolJoined
        /\ owner' = "destroying" /\ UNCHANGED <<error, failed>>
        /\ UNCHANGED <<bestVars, roundVars, stopVars, finalVars, pc, lock,
                       seedLeft>>
    BY <1>1, <1>12 DEF UnwindBegins, Publisher!BeginDestroy
  <2>2. PlaceInv' /\ FlagInv'
    BY <2>1 DEF PlaceInv, FlagInv, PoolJoined, At
  <2>3. OwnerInv' /\ EndInv'
    BY <2>1
  <2>4. QED
    BY <2>2, <2>3
<1>13. CASE UnwindEnds
  <2>1. /\ pc[Main].at = "unwinding" /\ lock # Main /\ Goto(Main, "threw")
        /\ owner = "destroying" /\ owner' = "destroyed"
        /\ UNCHANGED <<error, failed>>
        /\ UNCHANGED <<bestVars, roundVars, stopVars, finalVars, lock,
                       seedLeft>>
    BY <1>1, <1>13 DEF UnwindEnds, Publisher!FinishDestroy
  <2>2. /\ PoolJoined \/ pc[Main].at \in {"grid", "joining", "unwinding"}
        /\ best.inProgress => pc[Main].at \in {"seeding", "unwinding"}
        /\ owner # "open" => PoolJoined
    BY <2>1 DEF PlaceInv, FlagInv
  <2>3. PlaceInv' /\ FlagInv' /\ pc'[Main].at = "threw"
    BY <2>1, <2>2, MainGoes
  <2>4. OwnerInv' /\ EndInv'
    BY <2>1, <2>3
  <2>5. QED
    BY <2>3, <2>4
<1>14. QED
  BY <1>4, <1>5, <1>6, <1>7, <1>8, <1>9, <1>10, <1>11, <1>12, <1>13

\* A submission ends the critical section; a failed one ends the search.
LEMMA SubmitControl ==
  ASSUME SessionTyped, Mailbox!IInv, ControlInv, DataInv, NEW t \in Threads,
         Submit(t) \/ SubmitThrows(t)
  PROVE  ControlInv'
<1> USE DEF ControlInv, OwnerInv, EndInv
<1>1. lock = t /\ lock' = "nobody"
  BY SubmitData, SubmitThrowsData
<1>2. Main # "nobody"
  BY NobodyElse
<1>3. pc[t].holding # {}
  BY DEF Submit, SubmitThrows
<1>4. CASE Submit(t)
  <2>1. /\ UNCHANGED <<bestVars, roundVars, stopVars, finalVars, seedLeft>>
        /\ UNCHANGED <<owner, error, failed>>
        /\ pc' = [pc EXCEPT ![t].holding = {}]
    BY <1>4 DEF Submit, Publisher!SubmitAccepted
  <2>2. \A x \in Threads : pc'[x].at = pc[x].at
    BY <2>1, Typed
  <2>3. PoolJoined => PoolJoined'
    BY <2>1, Typed DEF PoolJoined, At, Threads
  <2>4. pc'[Main].at = pc[Main].at
    BY <2>2, NobodyElse
  <2>5. PlaceInv' /\ FlagInv'
    BY <1>1, <1>2, <2>1, <2>3, <2>4 DEF PlaceInv, FlagInv, bestVars
  <2>6. OwnerInv' /\ EndInv'
    BY <2>1, <2>4 DEF bestVars, roundVars, stopVars, finalVars, Over
  <2>7. QED
    BY <2>5, <2>6
<1>5. CASE SubmitThrows(t) /\ t = Main
  <2>1. /\ UNCHANGED <<bestVars, stopVars, finalVars, seedLeft, helperError>>
        /\ UNCHANGED <<owner, error, failed>>
        /\ Goto(Main, "unwinding")
    BY <1>5 DEF SubmitThrows, Publisher!SubmitThrows
  <2>2. pc'[Main].at = "unwinding" /\ PoolJoined' = PoolJoined
    BY <2>1, MainMoves DEF Goto
  <2>3. pc[Main].at \in {"seeding", "round", "grid", "baseline", "idle"}
    BY <1>1, <1>5 DEF PlaceInv
  <2>4. PlaceInv' /\ FlagInv'
    BY <1>1, <1>2, <2>1, <2>2 DEF PlaceInv, FlagInv, bestVars
  <2>5. OwnerInv' /\ EndInv'
    BY <2>1, <2>2, <2>3
  <2>6. QED
    BY <2>4, <2>5
<1>6. CASE SubmitThrows(t) /\ t # Main
  <2>1. /\ UNCHANGED <<bestVars, stopVars, finalVars, seedLeft>>
        /\ UNCHANGED <<owner, error, failed>>
        /\ Goto(t, "off")
    BY <1>6 DEF SubmitThrows, Publisher!SubmitThrows
  <2>2. pc'[Main] = pc[Main]
    BY <1>6, <2>1 DEF Goto
  <2>3. ~PoolJoined
    BY <1>3, <1>6 DEF PoolJoined, At, Threads
  <2>4. pc[Main].at \in {"grid", "joining", "unwinding"} /\ owner = "open"
    BY <2>3 DEF PlaceInv
  <2>5. PlaceInv' /\ FlagInv'
    BY <1>1, <1>2, <2>1, <2>2, <2>4 DEF PlaceInv, FlagInv, bestVars
  <2>6. OwnerInv' /\ EndInv'
    BY <2>1, <2>2, <2>4
  <2>7. QED
    BY <2>5, <2>6
<1>7. QED
  BY <1>4, <1>5, <1>6

\* A helper runs only while the main thread is in the round or unwinding.
LEMMA HelperControl ==
  ASSUME SessionTyped, Mailbox!IInv, ControlInv, DataInv, NEW h \in Helpers,
         HelperBegins(h) \/ HelperFinds(h) \/ HelperThrows(h)
           \/ HelperTrialEnds(h) \/ HelperEnds(h)
  PROVE  ControlInv'
<1> USE DEF ControlInv, OwnerInv, EndInv
<1>1. h # Main /\ h # "nobody" /\ h \in Threads
  BY ContinuousAssumption DEF ContinuousAssumption, Threads
<1>2. /\ pc[h].at \in {"looping", "trial"}
      /\ UNCHANGED <<owner, error, failed, stopVars, finalVars, seedLeft>>
  BY DEF HelperBegins, HelperFinds, HelperThrows, HelperTrialEnds, HelperEnds,
         Consider, publisherVars, At
<1>3. ~PoolJoined
  BY <1>2 DEF PoolJoined, At
<1>4. pc[Main].at \in {"grid", "joining", "unwinding"} /\ owner = "open"
  BY <1>3 DEF PlaceInv
<1>5. CASE HelperFinds(h) \/ HelperTrialEnds(h)
  <2>1. PICK next \in {"trial", "looping"}, layout \in Layouts :
          ~layout.inProgress /\ Consider(h, next, layout)
    BY <1>5 DEF HelperFinds, HelperTrialEnds
  <2>2. pc'[Main] = pc[Main] /\ lock' \in {h, "nobody"}
    BY <1>1, <2>1, Typed, NobodyElse DEF Consider, Accept, Reject, Goto
  <2>3. best'.inProgress => best.inProgress
    BY <2>1, Typed DEF Consider, Accept, Reject, Layouts
  <2>4. QED
    BY <1>1, <1>2, <1>4, <2>2, <2>3, NobodyElse DEF PlaceInv, FlagInv
<1>6. CASE HelperBegins(h) \/ HelperThrows(h) \/ HelperEnds(h)
  <2>1. /\ pc'[Main] = pc[Main] /\ lock' = lock
        /\ UNCHANGED bestVars
    BY <1>1, <1>6, Typed, NobodyElse
       DEF HelperBegins, HelperThrows, HelperEnds, Goto
  <2>2. PlaceInv' /\ FlagInv'
    BY <1>2, <1>4, <2>1 DEF PlaceInv, FlagInv, bestVars
  <2>3. QED
    BY <1>2, <1>4, <2>1, <2>2
<1>7. QED
  BY <1>5, <1>6

\* The reporter, the user and the clock move no searching thread.
LEMMA OutsideControl ==
  ASSUME SessionTyped, Mailbox!IInv, ControlInv,
         Reporter \/ UserStops \/ TimeExpires
  PROVE  ControlInv'
<1>1. /\ UNCHANGED <<pc, lock, owner, roundVars, finalVars, seedLeft>>
      /\ UNCHANGED <<incumbent, best>>
      /\ stopRequested => stopRequested'
      /\ expired => expired'
      /\ failed => failed'
      /\ failed' => error'
  BY DEF Reporter, Report, WriteBack, ReportThrows, PublisherStep,
         Publisher!ConsumeReturns, Publisher!ConsumeThrows,
         Publisher!WorkerWait, Publisher!WorkerTake, Publisher!WorkerReturn,
         Publisher!RecordFailure, UserStops, TimeExpires, publisherVars,
         bestVars, ControlInv, OwnerInv, stopVars
<1>2. PlaceInv' /\ FlagInv'
  BY <1>1 DEF ControlInv, PlaceInv, FlagInv, PoolJoined, At
<1>3. OwnerInv'
  BY <1>1 DEF ControlInv, OwnerInv
<1>4. EndInv'
  BY <1>1 DEF ControlInv, EndInv, Over, roundVars, finalVars
<1>5. QED
  BY <1>2, <1>3, <1>4 DEF ControlInv

LEMMA StillControl == ControlInv /\ UNCHANGED vars => ControlInv'
<1> SUFFICES ASSUME ControlInv, UNCHANGED vars PROVE ControlInv'
  OBVIOUS
<1> USE DEF vars, publisherVars, bestVars, roundVars, stopVars, finalVars
<1>1. PlaceInv'
  BY DEF ControlInv, PlaceInv, PoolJoined, At
<1>2. OwnerInv'
  BY DEF ControlInv, OwnerInv
<1>3. FlagInv' /\ EndInv'
  BY DEF ControlInv, FlagInv, EndInv, Over
<1>4. QED
  BY <1>1, <1>2, <1>3 DEF ControlInv

-----------------------------------------------------------------------------
(* Every step.                                                             *)

\* The steps that consider a layout.
Considering == \/ SeedSnapshot \/ SeedEnds \/ GridFinds \/ RoundEnds
               \/ BaselineConsidered
               \/ \E h \in Helpers : HelperFinds(h) \/ HelperTrialEnds(h)

\* The steps that leave the incumbent and the slot alone.
MovingAside == \/ SeedBegins \/ RoundBegins \/ RoundSkipped \/ GridEnds
               \/ SearchThrows \/ RoundRethrows \/ BaselineSkipped \/ IdleEnds
               \/ Return \/ CloseRethrows \/ UnwindBegins \/ UnwindEnds
               \/ \E h \in Helpers : HelperBegins(h) \/ HelperThrows(h)
                                     \/ HelperEnds(h)
               \/ Report \/ ReportThrows \/ PublisherStep
               \/ UserStops \/ TimeExpires

LEMMA Steps ==
  Next => \/ Considering \/ MovingAside \/ WriteBack
          \/ \E t \in Threads : Submit(t) \/ SubmitThrows(t)
BY DEF Next, MainProceeds, HelperProceeds, Reporter, Considering, MovingAside,
       Threads

LEMMA ConsideringIs ==
  ASSUME Considering
  PROVE  \E t \in Threads, next \in States, layout \in Layouts :
           /\ Consider(t, next, layout)
           /\ t = Main => next \in MainStates
           /\ t # Main => next \in HelperStates
<1> USE NobodyElse DEF States, MainStates, HelperStates
<1>1. Baseline \in Layouts
  BY ContinuousAssumption DEF ContinuousAssumption, Baseline, Layouts
<1>2. ASSUME NEW h \in Helpers PROVE h \in Threads /\ h # Main
  BY ContinuousAssumption DEF ContinuousAssumption, Threads
<1>3. CASE SeedSnapshot BY <1>3 DEF SeedSnapshot
<1>4. CASE SeedEnds BY <1>4 DEF SeedEnds
<1>5. CASE GridFinds BY <1>5 DEF GridFinds
<1>6. CASE RoundEnds BY <1>6 DEF RoundEnds
<1>7. CASE BaselineConsidered BY <1>1, <1>7 DEF BaselineConsidered
<1>8. ASSUME NEW h \in Helpers, HelperFinds(h) \/ HelperTrialEnds(h)
      PROVE  \E t \in Threads, next \in States, layout \in Layouts :
               /\ Consider(t, next, layout)
               /\ t = Main => next \in MainStates
               /\ t # Main => next \in HelperStates
  BY <1>2, <1>8 DEF HelperFinds, HelperTrialEnds
<1>9. QED
  BY <1>3, <1>4, <1>5, <1>6, <1>7, <1>8 DEF Considering

LEMMA GotoAside ==
  ASSUME SessionTyped, Mailbox!IInv, NEW t \in Threads, NEW from, NEW to,
         At(t, from), Goto(t, to)
  PROVE  \A x \in Threads : pc'[x].holding = pc[x].holding
<1>1. pc'[t].holding = {} /\ pc[t].holding = {}
  BY Typed DEF At, Goto
<1>2. \A x \in Threads \ {t} : pc'[x] = pc[x]
  BY Typed DEF Goto
<1>3. QED
  BY <1>1, <1>2

LEMMA MovingAsideIs ==
  ASSUME SessionTyped, Mailbox!IInv, PlaceInv, MovingAside
  PROVE  Aside
<1> USE NobodyElse DEF Aside, publisherVars
<1>1. CASE \/ SeedBegins \/ RoundSkipped \/ GridEnds \/ SearchThrows
           \/ RoundRethrows \/ BaselineSkipped
  <2>1. \E from, to : At(Main, from) /\ Goto(Main, to)
    BY <1>1 DEF SeedBegins, RoundSkipped, GridEnds, SearchThrows,
                RoundRethrows, BaselineSkipped
  <2>2. \A x \in Threads : pc'[x].holding = pc[x].holding
    BY <2>1, GotoAside
  <2>3. QED
    BY <1>1, <2>2 DEF SeedBegins, RoundSkipped, GridEnds, SearchThrows,
                      RoundRethrows, BaselineSkipped
<1>2. CASE RoundBegins
  <2>1. At(Main, "round") /\ PoolJoined
    BY <1>2 DEF RoundBegins, PlaceInv, At
  <2>2. \A x \in Threads : pc'[x].holding = pc[x].holding
    BY <1>2, <2>1 DEF RoundBegins, PoolJoined, At, Threads
  <2>3. QED
    BY <1>2, <2>2 DEF RoundBegins
<1>3. CASE IdleEnds \/ Return \/ CloseRethrows \/ UnwindEnds
  <2>1. \E from, to : At(Main, from) /\ Goto(Main, to)
    BY <1>3 DEF IdleEnds, Return, CloseRethrows, UnwindEnds
  <2>2. \A x \in Threads : pc'[x].holding = pc[x].holding
    BY <2>1, GotoAside
  <2>3. QED
    BY <1>3, <2>2 DEF IdleEnds, Return, CloseRethrows, UnwindEnds,
         Publisher!BeginClose, Publisher!FinishClose, Publisher!FinishDestroy
<1>4. CASE UnwindBegins
  BY <1>4 DEF UnwindBegins, Publisher!BeginDestroy
<1>5. ASSUME NEW h \in Helpers,
             HelperBegins(h) \/ HelperThrows(h) \/ HelperEnds(h)
      PROVE  Aside
  <2>1. h \in Threads
    BY DEF Threads
  <2>2. \E from, to : At(h, from) /\ Goto(h, to)
    BY <1>5 DEF HelperBegins, HelperThrows, HelperEnds
  <2>3. \A x \in Threads : pc'[x].holding = pc[x].holding
    BY <2>1, <2>2, GotoAside
  <2>4. QED
    BY <1>5, <2>3 DEF HelperBegins, HelperThrows, HelperEnds
<1>6. CASE Report \/ ReportThrows \/ PublisherStep \/ UserStops \/ TimeExpires
  BY <1>6 DEF Report, ReportThrows, PublisherStep, UserStops, TimeExpires,
              Publisher!ConsumeThrows, Publisher!WorkerWait,
              Publisher!WorkerTake, Publisher!WorkerReturn,
              Publisher!RecordFailure
<1>7. QED
  BY <1>1, <1>2, <1>3, <1>4, <1>5, <1>6 DEF MovingAside

LEMMA DataStep ==
  ASSUME SessionTyped, Mailbox!IInv, DataInv, PlaceInv, [Next]_vars
  PROVE  DataInv'
<1>1. CASE Considering
  BY <1>1, ConsideringIs, ConsiderData
<1>2. CASE MovingAside
  BY <1>2, MovingAsideIs, AsideData
<1>3. CASE WriteBack
  BY <1>3, WriteBackData
<1>4. ASSUME NEW t \in Threads, Submit(t) \/ SubmitThrows(t)
      PROVE  DataInv'
  BY <1>4, SubmitData, SubmitThrowsData
<1>5. CASE UNCHANGED vars
  <2>1. Aside
    BY <1>5 DEF vars, Aside, publisherVars
  <2>2. QED
    BY <2>1, AsideData
<1>6. QED
  BY <1>1, <1>2, <1>3, <1>4, <1>5, Steps

LEMMA ControlStep ==
  ASSUME SessionTyped, Mailbox!IInv, DataInv, ControlInv, [Next]_vars
  PROVE  ControlInv'
<1>1. CASE UNCHANGED vars
  BY <1>1, StillControl
<1>2. CASE \/ SeedSnapshot \/ SeedEnds \/ GridFinds \/ RoundEnds
           \/ BaselineConsidered
  BY <1>2, MainConsidersControl
<1>3. CASE \/ SeedBegins \/ RoundBegins \/ RoundSkipped \/ GridEnds
           \/ SearchThrows \/ RoundRethrows \/ BaselineSkipped \/ IdleEnds
           \/ Return \/ CloseRethrows \/ UnwindBegins \/ UnwindEnds
  BY <1>3, MainProceedsControl
<1>4. ASSUME NEW t \in Threads, Submit(t) \/ SubmitThrows(t)
      PROVE  ControlInv'
  BY <1>4, SubmitControl
<1>5. ASSUME NEW h \in Helpers,
             HelperBegins(h) \/ HelperFinds(h) \/ HelperThrows(h)
               \/ HelperTrialEnds(h) \/ HelperEnds(h)
      PROVE  ControlInv'
  BY <1>5, HelperControl
<1>6. CASE Reporter \/ UserStops \/ TimeExpires
  BY <1>6, OutsideControl
<1>7. QED
  BY <1>1, <1>2, <1>3, <1>4, <1>5, <1>6
     DEF Next, MainProceeds, HelperProceeds, Threads

LEMMA PlacesStep ==
  ASSUME SessionTyped, Mailbox!IInv, [Next]_vars
  PROVE  PlacesTyped'
<1> USE Typed, NobodyElse DEF PlacesTyped
<1>1. \A h \in Helpers : h \in Threads /\ h # Main
  BY ContinuousAssumption DEF ContinuousAssumption, Threads
<1>2. PlacesTyped
  BY DEF SessionTyped
<1>3. ASSUME NEW t \in Threads, NEW to \in States,
             NEW held \in SUBSET Layouts,
             t = Main => to \in MainStates, t # Main => to \in HelperStates,
             pc' = [pc EXCEPT ![t] = [at |-> to, holding |-> held]]
      PROVE  PlacesTyped'
  BY <1>1, <1>2, <1>3
<1>4. ASSUME NEW t \in Threads, NEW to \in States,
             t = Main => to \in MainStates, t # Main => to \in HelperStates,
             Goto(t, to)
      PROVE  PlacesTyped'
  <2>1. {} \in SUBSET Layouts
    OBVIOUS
  <2>2. QED
    BY <1>3, <1>4, <2>1 DEF Goto
<1>5. CASE Considering
  <2>1. PICK t \in Threads, next \in States, layout \in Layouts :
           /\ Consider(t, next, layout)
           /\ t = Main => next \in MainStates
           /\ t # Main => next \in HelperStates
    BY <1>5, ConsideringIs
  <2>2. CASE Accept(t, next, layout)
    <3>1. {layout} \in SUBSET Layouts
      OBVIOUS
    <3>2. QED
      BY <1>3, <2>1, <2>2, <3>1 DEF Accept
  <2>3. CASE Goto(t, next)
    BY <1>4, <2>1, <2>3
  <2>4. QED
    BY <2>1, <2>2, <2>3 DEF Consider
<1>6. ASSUME NEW t \in Threads, Submit(t) \/ SubmitThrows(t)
      PROVE  PlacesTyped'
  <2>1. CASE Submit(t)
    <3>1. /\ pc'[t] = [pc[t] EXCEPT !.holding = {}]
          /\ pc' = [pc EXCEPT ![t] = pc'[t]]
      BY <2>1 DEF Submit
    <3>2. pc'[t] \in [at : States, holding : SUBSET Layouts]
          /\ pc'[t].at = pc[t].at
      BY <3>1
    <3>3. QED
      BY <1>1, <1>2, <3>1, <3>2
  <2>2. CASE SubmitThrows(t)
    <3>1. IF t = Main THEN Goto(t, "unwinding") ELSE Goto(t, "off")
      BY <2>2 DEF SubmitThrows
    <3>2. QED
      BY <1>4, <3>1 DEF States, MainStates, HelperStates
  <2>3. QED
    BY <1>6, <2>1, <2>2
<1>7. CASE MovingAside
  <2>1. CASE RoundBegins
    BY <1>1, <2>1 DEF RoundBegins, States, MainStates, HelperStates
  <2>2. CASE UNCHANGED pc
    BY <1>2, <2>2
  <2>3. CASE \E to \in MainStates : Goto(Main, to)
    BY <1>4, <2>3 DEF States
  <2>4. ASSUME NEW h \in Helpers, NEW to \in HelperStates, Goto(h, to)
        PROVE  PlacesTyped'
    BY <1>1, <1>4, <2>4 DEF States
  <2>5. \/ RoundBegins \/ UNCHANGED pc \/ \E to \in MainStates : Goto(Main, to)
        \/ \E h \in Helpers, to \in HelperStates : Goto(h, to)
    BY <1>7 DEF MovingAside, SeedBegins, RoundSkipped, GridEnds, SearchThrows,
         RoundRethrows, BaselineSkipped, IdleEnds, Return, CloseRethrows,
         UnwindBegins, UnwindEnds, HelperBegins, HelperThrows, HelperEnds,
         Report, ReportThrows, PublisherStep, UserStops, TimeExpires,
         MainStates, HelperStates
  <2>6. QED
    BY <2>1, <2>2, <2>3, <2>4, <2>5
<1>8. CASE WriteBack \/ UNCHANGED vars
  <2>1. UNCHANGED pc
    BY <1>8 DEF WriteBack, vars
  <2>2. QED
    BY <1>2, <2>1
<1>9. QED
  BY <1>5, <1>6, <1>7, <1>8, Steps

LEMMA ValuesStep ==
  ASSUME SessionTyped, Mailbox!IInv, [Next]_vars
  PROVE  ValuesTyped'
<1> USE Typed, NobodyElse DEF ValuesTyped
<1>1. ValuesTyped
  BY DEF SessionTyped
<1>2. CASE Considering
  <2>1. PICK t \in Threads, next \in States, layout \in Layouts :
           Consider(t, next, layout)
    BY <1>2, ConsideringIs
  <2>2. /\ lock' \in Threads \cup {"nobody"} /\ incumbent' \in BOOLEAN
        /\ offcut' \in Nat /\ bestRevision' \in Nat
    <3>1. CASE Accept(t, next, layout)
      BY <1>1, <3>1 DEF Accept
    <3>2. CASE Reject(layout)
      BY <1>1, <3>2 DEF Reject
    <3>3. QED
      BY <2>1, <3>1, <3>2 DEF Consider
  <2>3. best' \in Layouts
    BY <2>1 DEF Consider, Accept, Reject, Layouts
  <2>4. /\ UNCHANGED <<stopVars, finalVars, submitted, reporter>>
    BY <2>1 DEF Consider
  <2>5. seedLeft' \in 0 .. Parts /\ UNCHANGED roundVars
    BY <1>1, <1>2 DEF Considering, SeedSnapshot, SeedEnds, GridFinds,
       RoundEnds, BaselineConsidered, HelperFinds, HelperTrialEnds, Layouts
  <2>6. QED
    BY <1>1, <2>2, <2>3, <2>4, <2>5 DEF stopVars, finalVars, roundVars
<1>3. ASSUME NEW t \in Threads, Submit(t) \/ SubmitThrows(t)
      PROVE  ValuesTyped'
  <2>1. /\ lock' = "nobody"
        /\ UNCHANGED <<bestVars, stopVars, finalVars, reporter, seedLeft>>
        /\ finished' \in BOOLEAN /\ helperError' \in BOOLEAN
    BY <1>1, <1>3 DEF Submit, SubmitThrows, roundVars
  <2>2. submitted' \in Seq(Layouts)
    <3>1. CASE Submit(t)
      <4>1. PICK layout \in pc[t].holding :
              submitted' = Append(submitted, layout)
        BY <3>1 DEF Submit
      <4>2. layout \in Layouts
        OBVIOUS
      <4>3. QED
        BY <4>1, <4>2
    <3>2. QED
      BY <1>3, <3>1 DEF SubmitThrows
  <2>3. QED
    BY <1>1, <2>1, <2>2 DEF bestVars, stopVars, finalVars
<1>4. CASE MovingAside
  <2>1. /\ UNCHANGED <<bestVars, lock, submitted, seedLeft>>
        /\ reporter' \in {"callback", "writeback"}
        /\ finished' \in BOOLEAN /\ helperError' \in BOOLEAN
        /\ stopRequested' \in BOOLEAN /\ expired' \in BOOLEAN
        /\ cancelled' \in BOOLEAN /\ timeLimit' \in BOOLEAN
    <3> USE <1>1 DEF roundVars, stopVars, finalVars
    <3>1. CASE \/ SeedBegins \/ RoundBegins \/ RoundSkipped \/ GridEnds
               \/ SearchThrows \/ RoundRethrows \/ BaselineSkipped
      BY <3>1 DEF SeedBegins, RoundBegins, RoundSkipped, GridEnds,
                  SearchThrows, RoundRethrows, BaselineSkipped
    <3>2. CASE IdleEnds \/ Return \/ CloseRethrows \/ UnwindBegins
               \/ UnwindEnds
      BY <3>2 DEF IdleEnds, Return, CloseRethrows, UnwindBegins, UnwindEnds
    <3>3. ASSUME NEW h \in Helpers,
                 HelperBegins(h) \/ HelperThrows(h) \/ HelperEnds(h)
          PROVE  /\ UNCHANGED <<bestVars, lock, submitted, seedLeft>>
                 /\ UNCHANGED <<stopVars, finalVars, reporter>>
                 /\ finished' \in BOOLEAN /\ helperError' \in BOOLEAN
      BY <3>3 DEF HelperBegins, HelperThrows, HelperEnds
    <3>4. CASE \/ Report \/ ReportThrows \/ PublisherStep \/ UserStops
               \/ TimeExpires
      BY <3>4 DEF Report, ReportThrows, PublisherStep, UserStops, TimeExpires
    <3>5. QED
      BY <1>4, <3>1, <3>2, <3>3, <3>4 DEF MovingAside
  <2>2. QED
    BY <1>1, <2>1 DEF bestVars
<1>5. CASE WriteBack
  BY <1>1, <1>5 DEF WriteBack, roundVars, stopVars, finalVars
<1>6. CASE UNCHANGED vars
  BY <1>1, <1>6 DEF vars, bestVars, roundVars, stopVars, finalVars
<1>7. QED
  BY <1>2, <1>3, <1>4, <1>5, <1>6, Steps

LEMMA InitIInv == Init => IInv
<1> SUFFICES ASSUME Init PROVE IInv
  OBVIOUS
<1> USE NobodyElse DEF Init
<1>1. Mailbox!IInv
  <2>1. Mailbox!Init
    BY DEF Publisher!Init, Mailbox!Init
  <2>2. QED
    BY <2>1, Mailbox!InitIInv, ContinuousAssumption DEF ContinuousAssumption
<1>2. \A t \in Threads :
        pc[t] = [at |-> IF t = Main THEN "start" ELSE "off", holding |-> {}]
  OBVIOUS
<1>3. PoolJoined
  BY <1>2, ContinuousAssumption
     DEF ContinuousAssumption, PoolJoined, At, Threads
<1>4. PlacesTyped
  BY <1>2, <1>3 DEF PlacesTyped, States, MainStates, HelperStates, PoolJoined,
                    At
<1>5. ValuesTyped
  <2>1. Parts \in Nat /\ 0 \in Wastes
    BY ContinuousAssumption DEF ContinuousAssumption
  <2>2. Parts \in 0 .. Parts /\ <<>> \in Seq(Layouts)
    BY <2>1
  <2>3. Baseline \in Layouts
    BY <2>1, <2>2 DEF Baseline, Layouts
  <2>4. QED
    BY <2>2, <2>3 DEF ValuesTyped
<1>6. LockInv /\ CountInv
  BY <1>2 DEF LockInv, CountInv, Held, Publisher!Init
<1>7. ChainInv /\ OffcutInv
  BY DEF ChainInv, SavedImprove, OffcutInv, OffcutOfBest, Publisher!Init
<1>8. PlaceInv /\ OwnerInv
  BY <1>2, <1>3 DEF PlaceInv, OwnerInv, Publisher!Init
<1>9. FlagInv /\ EndInv
  BY <1>2 DEF FlagInv, EndInv, Baseline
<1>10. QED
  BY <1>1, <1>4, <1>5, <1>6, <1>7, <1>8, <1>9
     DEF IInv, SessionTyped, DataInv, ControlInv

LEMMA StepIInv == IInv /\ [Next]_vars => IInv'
BY MailboxKept, PlacesStep, ValuesStep, DataStep, ControlStep
   DEF IInv, SessionTyped, ControlInv

-----------------------------------------------------------------------------

LEMMA TypeHolds == IInv => TypeOK
<1> SUFFICES ASSUME IInv PROVE TypeOK
  OBVIOUS
<1>1. Publisher!TypeOK
  BY DEF IInv, Mailbox!IInv, Mailbox!TypeOK, Publisher!TypeOK,
         Mailbox!WorkerStates, Mailbox!OwnerStates, Mailbox!Outcomes,
         Publisher!WorkerStates, Publisher!OwnerStates, Publisher!Outcomes
<1>2. \A t \in Threads : pc[t].holding \subseteq Layouts
  BY Typed DEF IInv
<1>3. QED
  BY <1>1, <1>2 DEF IInv, SessionTyped, PlacesTyped, ValuesTyped, TypeOK

LEMMA ReturnsHold == IInv => ReturnsHonestly
<1> SUFFICES ASSUME IInv PROVE ReturnsHonestly
  OBVIOUS
<1> USE DEF IInv, DataInv, ControlInv, Returned
<1>1. ASSUME Returned
      PROVE  /\ ~error /\ delivered = accepted /\ ~Held
             /\ ~helperError /\ (cancelled \/ timeLimit)
             /\ incumbent \/ cancelled
             /\ ~best.inProgress
  <2>1. owner = "closed"
    BY <1>1 DEF OwnerInv
  <2>2. ~error /\ worker = "done"
    BY <2>1 DEF Mailbox!IInv, Mailbox!OwnerInv
  <2>3. delivered = accepted
    BY <2>2 DEF Mailbox!IInv, Mailbox!WorkerInv
  <2>4. PoolJoined /\ lock # Main
    BY <1>1 DEF PlaceInv
  <2>5. ~Held
    BY <2>4, Typed DEF PoolJoined, At, LockInv, Held, Threads
  <2>6. /\ ~helperError /\ (cancelled \/ timeLimit)
        /\ incumbent \/ cancelled
    BY <1>1 DEF EndInv
  <2>7. ~best.inProgress
    BY <1>1 DEF FlagInv
  <2>8. QED
    BY <2>2, <2>3, <2>5, <2>6, <2>7
<1>2. Returned => bestRevision = accepted
  BY <1>1, Typed DEF CountInv
<1>3. FinalIsReported
  <2> SUFFICES ASSUME Returned, incumbent
               PROVE  /\ delivered = bestRevision
                      /\ Len(submitted) = bestRevision
                      /\ best.unplaced = submitted[bestRevision].unplaced
                      /\ best.waste = submitted[bestRevision].waste
                      /\ offcut = bestRevision
                      /\ ~best.inProgress
    BY DEF FinalIsReported
  <2>1. accepted > 0 /\ Len(submitted) = accepted
    BY <1>2 DEF CountInv
  <2>2. offcut = bestRevision
    BY <1>1, <1>2 DEF OffcutInv
  <2>3. QED
    BY <1>1, <1>2, <2>1, <2>2 DEF ChainInv
<1>4. ASSUME Returned, ~cancelled PROVE delivered > 0
  BY <1>1, <1>2, <1>4 DEF CountInv
<1>5. QED
  BY <1>1, <1>3, <1>4 DEF ReturnsHonestly

LEMMA InvAlways == Spec => []IInv
BY InitIInv, StepIInv, PTL DEF Spec

\* Every variable of a session keeps its type.
THEOREM TypeCorrect == Spec => []TypeOK
BY InvAlways, TypeHolds, PTL

\* The results that are saved improve on one another, whatever the searches
\* that compete for the incumbent find and in whatever order they report it,
\* and an offcut in the incumbent is its own (continuous_nesting.cpp:111).
THEOREM IncumbentSoundAlways == Spec => []IncumbentSound
<1>1. IInv => IncumbentSound
  BY TypeHolds DEF IInv, DataInv, ChainInv, OffcutInv, IncumbentSound
<1>2. QED
  BY <1>1, InvAlways, PTL

\* A session that returns hands out what it reported last, hides no failure,
\* and was ended by the user or by the time limit, after a result unless the
\* user ended it.
THEOREM ReturnsHonestlyAlways == Spec => []ReturnsHonestly
BY InvAlways, ReturnsHold, PTL

-----------------------------------------------------------------------------
(* The numbered results.                                                   *)

Running == {"clearing", "ready", "saving", "failed"}

\* The sessions that run hold the lock, and so at most one runs; no session
\* meets a result of its next number.
HolderInv ==
  \A s \in Sessions :
    at[s] # "clashed" /\ (at[s] \in Running <=> lockFile = s)

\* Once its directory is clear, a session is alone in it.
AloneInv ==
  /\ \A f \in files : at[f.by] \notin {"new", "clearing", "refused"}
  /\ \A s \in Sessions :
       /\ at[s] = "clearing" => \A f \in files : f.by \in cleared
       /\ at[s] \in {"ready", "saving", "failed"} => \A f \in files : f.by = s

\* What is not counted as saved is of the result that is being saved, or of
\* one that failed and could not be removed; the JSON of a result counts it.
NumberInv ==
  \A f \in files :
    /\ at[f.by] = "ready" => f.n <= saved[f.by]
    /\ at[f.by] \in {"failed", "ended"} => f.n <= saved[f.by] \/ f \in spared
    /\ at[f.by] = "saving" => f.n <= Number(f.by)
    /\ f.kind = "json" /\ ~f.tmp => f.n <= saved[f.by]

\* Has save() done this before step i?
Before(i, op, kind) == \E j \in Asked : j < i /\ Script[j] = Step(op, kind)

Sound(g) == g.whole \/ g.kind \in Lossy

\* The companions that save() has published are there, and what it has
\* finished is whole, but for what nobody notices.
SavingInv ==
  \A s \in Sessions : at[s] = "saving" =>
    /\ saved[s] < MaxSaved
    /\ \A kind \in Kinds : Before(step[s], "publish", kind) =>
         \E g \in files : /\ g.n = Number(s) /\ g.kind = kind /\ ~g.tmp
                          /\ g.by = s /\ Sound(g)
    /\ \A f \in files : f.n = Number(s) /\ f.tmp /\ Before(step[s], "finish", f.kind) =>
         Sound(f)

DirectoryInv ==
  /\ DirectoryTyped /\ MarkedComplete
  /\ HolderInv /\ AloneInv /\ NumberInv /\ SavingInv

\* The steps of save().
LEMMA ScriptSteps ==
  /\ Asked \subseteq 1 .. 9 /\ Len(Script) = 9
  /\ Script[1] = Step("create", "json") /\ Script[2] = Step("finish", "json")
  /\ Script[3] = Step("create", "svg") /\ Script[4] = Step("finish", "svg")
  /\ Script[5] = Step("publish", "svg") /\ Script[6] = Step("create", "dxf")
  /\ Script[7] = Step("finish", "dxf") /\ Script[8] = Step("publish", "dxf")
  /\ Script[9] = Step("publish", "json")
BY DEF Script, Asked

\* save() ends with the publication of the JSON, publishes every companion
\* before, finishes a file before it publishes it, and creates it but once.
LEMMA ScriptOrder ==
  /\ Len(Script) = 9 /\ 1 \in Asked /\ 9 \in Asked /\ Asked \subseteq 1 .. 9
  /\ \A i \in Asked : Script[i].kind \in Kinds
  /\ \A i \in Asked :
       (Script[i].op = "publish" /\ Script[i].kind = "json") <=> i = 9
  /\ \A kind \in Kinds \ {"json"} :
       \E i \in Asked : Script[i] = Step("publish", kind)
  /\ \A i \in Asked : Script[i].op = "publish" =>
       \E j \in Asked : j < i /\ Script[j] = Step("finish", Script[i].kind)
  /\ \A i, j \in Asked :
       Script[i].op = "create" /\ Script[j].op = "finish"
         /\ Script[i].kind = Script[j].kind => i < j
PROOF
<1> DEFINE svg == "svg" \in Kinds  dxf == "dxf" \in Kinds
<1>1. \A i \in 1 .. 9 : i \in Asked <=> Script[i].kind \in Kinds
  BY DEF Asked, Script
<1>2. /\ 1 \in Asked /\ 2 \in Asked /\ 9 \in Asked
      /\ 3 \in Asked <=> svg
      /\ 4 \in Asked <=> svg
      /\ 5 \in Asked <=> svg
      /\ 6 \in Asked <=> dxf
      /\ 7 \in Asked <=> dxf
      /\ 8 \in Asked <=> dxf
  BY <1>1, ScriptSteps, DirectoryAssumption DEF DirectoryAssumption, Step
<1>3. Kinds \subseteq {"json", "svg", "dxf"}
  BY DirectoryAssumption DEF DirectoryAssumption
<1>4. \A i \in Asked : Script[i].kind \in Kinds
  BY <1>1, ScriptSteps
<1>5. \A i \in Asked :
       (Script[i].op = "publish" /\ Script[i].kind = "json") <=> i = 9
  BY ScriptSteps DEF Step
<1>6. \A kind \in Kinds \ {"json"} :
       \E i \in Asked : Script[i] = Step("publish", kind)
  BY <1>2, <1>3, ScriptSteps
<1>7. \A i \in Asked : Script[i].op = "publish" =>
       \E j \in Asked : j < i /\ Script[j] = Step("finish", Script[i].kind)
  <2> SUFFICES ASSUME NEW i \in Asked, Script[i].op = "publish"
               PROVE  \E j \in Asked : j < i /\ Script[j] = Step("finish", Script[i].kind)
    OBVIOUS
  <2>1. i = 5 \/ i = 8 \/ i = 9
    BY ScriptSteps DEF Step
  <2>2. CASE i = 5 BY <2>2, <1>2, ScriptSteps DEF Step
  <2>3. CASE i = 8 BY <2>3, <1>2, ScriptSteps DEF Step
  <2>4. CASE i = 9 BY <2>4, <1>2, ScriptSteps DEF Step
  <2> QED BY <2>1, <2>2, <2>3, <2>4
<1>8. \A i, j \in Asked :
       Script[i].op = "create" /\ Script[j].op = "finish"
         /\ Script[i].kind = Script[j].kind => i < j
  <2> SUFFICES ASSUME NEW i \in Asked, NEW j \in Asked,
                      Script[i].op = "create", Script[j].op = "finish",
                      Script[i].kind = Script[j].kind
               PROVE  i < j
    OBVIOUS
  <2>1. i = 1 \/ i = 3 \/ i = 6
    BY ScriptSteps DEF Step
  <2>2. j = 2 \/ j = 4 \/ j = 7
    BY ScriptSteps DEF Step
  <2> QED BY <2>1, <2>2, ScriptSteps DEF Step
<1> QED BY <1>2, <1>4, <1>5, <1>6, <1>7, <1>8, ScriptSteps

\* save() goes on with the next step that was asked for.
LEMMA AfterNext ==
  ASSUME NEW i \in Asked, i # 9
  PROVE  /\ After(i) \in Asked /\ i < After(i)
         /\ \A k \in Asked : i < k => After(i) <= k
PROOF
<1> DEFINE Follows(j) == i < j /\ \A k \in Asked : i < k => j <= k
<1>1. \E j \in Asked : Follows(j)
  <2>1. /\ 9 \in Asked /\ Asked \subseteq 1 .. 9 BY ScriptOrder
  <2> QED BY <2>1
<1> QED BY <1>1 DEF After
\* What the type invariant says of one file.
LEMMA FileTyped ==
  ASSUME DirectoryTyped, NEW f \in files
  PROVE  /\ f.by \in Sessions /\ f.n \in 1 .. MaxSaved /\ f.n \in Nat
         /\ f.kind \in Kinds /\ f.tmp \in BOOLEAN /\ f.whole \in BOOLEAN
BY DirectoryAssumption DEF DirectoryTyped, File, DirectoryAssumption

\* What the type invariant says of one session.
LEMMA SavedTyped ==
  ASSUME DirectoryTyped, NEW s \in Sessions
  PROVE  /\ saved[s] \in Nat /\ saved[s] <= MaxSaved /\ Number(s) = saved[s] + 1
         /\ MaxSaved \in Nat
         /\ step[s] \in Asked /\ step[s] \in 1 .. 9 /\ Kind(s) \in Kinds
PROOF
<1>1. step[s] \in Asked
  BY DEF DirectoryTyped
<1>2. step[s] \in 1 .. 9 /\ Script[step[s]].kind \in Kinds
  BY <1>1, ScriptOrder
<1> QED
  BY <1>1, <1>2, DirectoryAssumption
  DEF DirectoryTyped, Number, DirectoryAssumption, Kind

\* A step of save() adds itself to what was done.
LEMMA BeforeNext ==
  ASSUME NEW i \in Asked, i # 9
  PROVE  \A op, kind : Before(After(i), op, kind) =>
           Before(i, op, kind) \/ (Script[i].op = op /\ Script[i].kind = kind)
PROOF
<1> SUFFICES ASSUME NEW op, NEW kind, Before(After(i), op, kind)
             PROVE  Before(i, op, kind)
                      \/ (Script[i].op = op /\ Script[i].kind = kind)
  OBVIOUS
<1>1. PICK j \in Asked : j < After(i) /\ Script[j] = Step(op, kind)
  BY DEF Before
<1>2. i \in 1 .. 9 /\ j \in 1 .. 9 /\ After(i) \in 1 .. 9
  BY ScriptOrder, AfterNext
<1>3. j <= i
  BY <1>1, <1>2, AfterNext
<1>4. CASE j = i BY <1>4, <1>1 DEF Step
<1>5. CASE j # i BY <1>1, <1>2, <1>3, <1>5 DEF Before
<1> QED BY <1>4, <1>5

\* Who saves goes on in the same state.
LEMMA SavingKept ==
  ASSUME SavingInv, UNCHANGED <<files, step, saved>>,
         \A t \in Sessions : at'[t] = "saving" => at[t] = "saving"
  PROVE  SavingInv'
BY DEF SavingInv, Before, Sound, Number

\* Every operation keeps the invariant: first those of the constructor, of
\* the destructor and of the operating system.
LEMMA AcquireStep ==
  ASSUME DirectoryInv, NEW s \in Sessions, Acquire(s)
  PROVE  DirectoryInv'
PROOF
<1> USE DEF DirectoryInv, Acquire, Proceeds
<1>1. DirectoryTyped'
  BY FileTyped DEF DirectoryTyped
<1>2. MarkedComplete'
  BY FileTyped DEF MarkedComplete
<1>3. HolderInv'
  BY DirectoryAssumption DEF DirectoryAssumption, HolderInv, Running, DirectoryTyped
<1>4. AloneInv'
  BY FileTyped DEF AloneInv, HolderInv, Running, DirectoryTyped
<1>5. NumberInv'
  BY FileTyped, SavedTyped DEF NumberInv, AloneInv, HolderInv, Running, DirectoryTyped, Number
<1>6. SavingInv'
  <2>1. \A t \in Sessions : at'[t] = "saving" => at[t] = "saving"
    BY DEF DirectoryTyped
  <2> QED BY <2>1, SavingKept
<1> QED BY <1>1, <1>2, <1>3, <1>4, <1>5, <1>6

LEMMA RefusedStep ==
  ASSUME DirectoryInv, NEW s \in Sessions, Refused(s)
  PROVE  DirectoryInv'
PROOF
<1> USE DEF DirectoryInv, Refused, Proceeds
<1>1. DirectoryTyped'
  BY DEF DirectoryTyped
<1>2. MarkedComplete'
  BY FileTyped DEF MarkedComplete
<1>3. HolderInv'
  BY DirectoryAssumption DEF DirectoryAssumption, HolderInv, Running, DirectoryTyped
<1>4. AloneInv'
  BY FileTyped DEF AloneInv, HolderInv, Running, DirectoryTyped
<1>5. NumberInv'
  BY FileTyped, SavedTyped DEF NumberInv, AloneInv, HolderInv, Running, DirectoryTyped, Number
<1>6. SavingInv'
  <2>1. \A t \in Sessions : at'[t] = "saving" => at[t] = "saving"
    BY DEF DirectoryTyped
  <2> QED BY <2>1, SavingKept
<1> QED BY <1>1, <1>2, <1>3, <1>4, <1>5, <1>6

LEMMA ClearOneStep ==
  ASSUME DirectoryInv, NEW s \in Sessions, ClearOne(s)
  PROVE  DirectoryInv'
PROOF
<1> USE DEF DirectoryInv, ClearOne
<1>1. DirectoryTyped'
  BY DEF DirectoryTyped
<1>2. MarkedComplete'
  BY FileTyped DEF MarkedComplete, AloneInv
<1>3. HolderInv'
  BY DirectoryAssumption DEF DirectoryAssumption, HolderInv, Running, DirectoryTyped
<1>4. AloneInv'
  BY FileTyped DEF AloneInv, HolderInv, Running, DirectoryTyped
<1>5. NumberInv'
  BY FileTyped, SavedTyped DEF NumberInv, AloneInv, HolderInv, Running, DirectoryTyped, Number
<1>6. SavingInv'
  BY FileTyped DEF SavingInv, AloneInv, HolderInv, Running, DirectoryTyped, Number, Before, Sound
<1> QED BY <1>1, <1>2, <1>3, <1>4, <1>5, <1>6

LEMMA ClearedStep ==
  ASSUME DirectoryInv, NEW s \in Sessions, Cleared(s)
  PROVE  DirectoryInv'
PROOF
<1> USE DEF DirectoryInv, Cleared, Proceeds
<1>1. DirectoryTyped'
  BY DEF DirectoryTyped
<1>2. MarkedComplete'
  BY FileTyped DEF MarkedComplete
<1>3. HolderInv'
  BY DirectoryAssumption DEF DirectoryAssumption, HolderInv, Running, DirectoryTyped
<1>4. AloneInv'
  BY FileTyped DEF AloneInv, HolderInv, Running, DirectoryTyped
<1>5. NumberInv'
  BY FileTyped, SavedTyped DEF NumberInv, AloneInv, HolderInv, Running, DirectoryTyped, Number
<1>6. SavingInv'
  BY FileTyped DEF SavingInv, AloneInv, HolderInv, Running, DirectoryTyped, Number, Before, Sound
<1> QED BY <1>1, <1>2, <1>3, <1>4, <1>5, <1>6

LEMMA ClearThrowsStep ==
  ASSUME DirectoryInv, NEW s \in Sessions, ClearThrows(s)
  PROVE  DirectoryInv'
PROOF
<1> USE DEF DirectoryInv, ClearThrows, Proceeds
<1>1. DirectoryTyped'
  BY DEF DirectoryTyped
<1>2. MarkedComplete'
  BY FileTyped DEF MarkedComplete
<1>3. HolderInv'
  BY DirectoryAssumption DEF DirectoryAssumption, HolderInv, Running, DirectoryTyped
<1>4. AloneInv'
  BY FileTyped DEF AloneInv, HolderInv, Running, DirectoryTyped
<1>5. NumberInv'
  BY FileTyped, SavedTyped DEF NumberInv, AloneInv, HolderInv, Running, DirectoryTyped, Number
<1>6. SavingInv'
  <2>1. \A t \in Sessions : at'[t] = "saving" => at[t] = "saving"
    BY DEF DirectoryTyped
  <2> QED BY <2>1, SavingKept
<1> QED BY <1>1, <1>2, <1>3, <1>4, <1>5, <1>6

LEMMA LeaveStep ==
  ASSUME DirectoryInv, NEW s \in Sessions, Leave(s)
  PROVE  DirectoryInv'
PROOF
<1> USE DEF DirectoryInv, Leave, Proceeds
<1>1. DirectoryTyped'
  BY DEF DirectoryTyped
<1>2. MarkedComplete'
  BY FileTyped DEF MarkedComplete
<1>3. HolderInv'
  BY DirectoryAssumption DEF DirectoryAssumption, HolderInv, Running, DirectoryTyped
<1>4. AloneInv'
  BY FileTyped DEF AloneInv, HolderInv, Running, DirectoryTyped
<1>5. NumberInv'
  BY FileTyped, SavedTyped DEF NumberInv, AloneInv, HolderInv, Running, DirectoryTyped, Number
<1>6. SavingInv'
  <2>1. \A t \in Sessions : at'[t] = "saving" => at[t] = "saving"
    BY DEF DirectoryTyped
  <2> QED BY <2>1, SavingKept
<1> QED BY <1>1, <1>2, <1>3, <1>4, <1>5, <1>6

LEMMA KilledStep ==
  ASSUME DirectoryInv, NEW s \in Sessions, Killed(s)
  PROVE  DirectoryInv'
PROOF
<1> USE DEF DirectoryInv, Killed
<1>1. DirectoryTyped'
  BY DEF DirectoryTyped
<1>2. MarkedComplete'
  BY FileTyped DEF MarkedComplete
<1>3. HolderInv'
  BY DirectoryAssumption DEF DirectoryAssumption, HolderInv, Running, DirectoryTyped
<1>4. AloneInv'
  BY FileTyped DEF AloneInv, HolderInv, Running, DirectoryTyped
<1>5. NumberInv'
  BY FileTyped, SavedTyped DEF NumberInv, AloneInv, HolderInv, Running, DirectoryTyped, Number
<1>6. SavingInv'
  <2>1. \A t \in Sessions : at'[t] = "saving" => at[t] = "saving"
    BY DEF DirectoryTyped
  <2> QED BY <2>1, SavingKept
<1> QED BY <1>1, <1>2, <1>3, <1>4, <1>5, <1>6

LEMMA SaveBeginsStep ==
  ASSUME DirectoryInv, NEW s \in Sessions, SaveBegins(s)
  PROVE  DirectoryInv'
PROOF
<1> USE DEF DirectoryInv, SaveBegins, Proceeds
<1>1. DirectoryTyped'
  BY ScriptOrder DEF DirectoryTyped
<1>2. MarkedComplete'
  BY FileTyped DEF MarkedComplete
<1>3. HolderInv'
  <2>1. ~Exists(Number(s))
    BY FileTyped, SavedTyped DEF Exists, AloneInv, NumberInv
  <2>2. at' = [at EXCEPT ![s] = "saving"]
    BY <2>1
  <2> QED BY <2>2 DEF HolderInv, Running, DirectoryTyped
<1>4. AloneInv'
  BY FileTyped DEF AloneInv, HolderInv, Running, DirectoryTyped
<1>5. NumberInv'
  BY FileTyped, SavedTyped DEF NumberInv, AloneInv, HolderInv, Running, DirectoryTyped, Number
<1>6. SavingInv'
  <2>1. \A t \in Sessions \ {s} : at'[t] = "saving" => FALSE
    BY DEF HolderInv, Running, DirectoryTyped
  <2>2. step'[s] = 1
    BY DEF DirectoryTyped
  <2>3. ASSUME NEW op, NEW kind PROVE ~Before(step'[s], op, kind)
    BY <2>2, ScriptOrder DEF Before
  <2> QED BY <2>1, <2>3 DEF SavingInv
<1> QED BY <1>1, <1>2, <1>3, <1>4, <1>5, <1>6

LEMMA SaveThrowsStep ==
  ASSUME DirectoryInv, NEW s \in Sessions, SaveThrows(s)
  PROVE  DirectoryInv'
PROOF
<1> USE DEF DirectoryInv, SaveThrows, Proceeds
<1>1. DirectoryTyped'
  BY DEF DirectoryTyped
<1>2. MarkedComplete'
  BY FileTyped, SavedTyped DEF MarkedComplete, AloneInv, NumberInv
<1>3. HolderInv'
  BY DirectoryAssumption DEF DirectoryAssumption, HolderInv, Running, DirectoryTyped
<1>4. AloneInv'
  BY FileTyped DEF AloneInv, HolderInv, Running, DirectoryTyped
<1>5. NumberInv'
  BY FileTyped, SavedTyped DEF NumberInv, AloneInv, HolderInv, Running, DirectoryTyped, Number
<1>6. SavingInv'
  BY FileTyped DEF SavingInv, AloneInv, HolderInv, Running, DirectoryTyped, Number, Before, Sound
<1> QED BY <1>1, <1>2, <1>3, <1>4, <1>5, <1>6

\* The steps of save(): each has only files of this result in its way.
LEMMA CreateStep ==
  ASSUME DirectoryInv, NEW s \in Sessions, Create(s)
  PROVE  DirectoryInv'
PROOF
<1> USE DEF DirectoryInv
<1> DEFINE f == [n |-> Number(s), kind |-> Kind(s), tmp |-> TRUE, by |-> s,
                 whole |-> FALSE]
<1>1. /\ at[s] = "saving" /\ Script[step[s]].op = "create"
      /\ files' = Others(f) \cup {f}
      /\ step' = [step EXCEPT ![s] = After(@)]
      /\ UNCHANGED <<lockFile, at, saved, cleared, spared>>
  BY DEF Create, Doing
<1>2. /\ step[s] \in Asked /\ step[s] # 9 /\ Kind(s) \in Kinds
      /\ Number(s) \in 1 .. MaxSaved /\ Number(s) = saved[s] + 1
  <2>1. /\ step[s] \in Asked /\ saved[s] \in Nat /\ MaxSaved \in Nat
        /\ Number(s) = saved[s] + 1 /\ Kind(s) \in Kinds
    BY SavedTyped
  <2>2. saved[s] < MaxSaved BY <1>1 DEF SavingInv
  <2>3. step[s] # 9 BY <1>1, ScriptOrder, <2>1
  <2> QED BY <2>1, <2>2, <2>3
<1>3. f.n = Number(s) /\ f.kind = Kind(s) /\ f.tmp /\ f.by = s /\ ~f.whole
      /\ f \in File
  BY <1>2 DEF File
<1> HIDE DEF f
<1>4. \A g \in files' : g = f \/ (g \in files /\ ~SamePath(f, g))
  BY <1>1 DEF Others
<1>5. \A g \in files : g.by = s
  BY <1>1 DEF AloneInv
<1>6. \A g \in files : ~g.tmp \/ g.n # Number(s) => g \in files'
  BY <1>1, <1>3 DEF Others, SamePath
<1>7. DirectoryTyped'
  BY <1>1, <1>2, <1>3, <1>4, AfterNext DEF DirectoryTyped
<1>8. MarkedComplete'
  BY <1>1, <1>3, <1>4, <1>6 DEF MarkedComplete
<1>9. HolderInv'
  BY <1>1 DEF HolderInv
<1>10. AloneInv'
  BY <1>1, <1>3, <1>4, <1>5 DEF AloneInv, HolderInv, Running
<1>11. NumberInv'
  BY <1>1, <1>2, <1>3, <1>4 DEF NumberInv, Number
<1>12. SavingInv'
  <2>0. \A t \in Sessions : at'[t] = "saving" => t = s
    BY <1>1 DEF HolderInv, Running
  <2>1. Number(s)' = Number(s) /\ saved[s] < MaxSaved
    BY <1>1 DEF Number, SavingInv
  <2>3. ASSUME NEW op \in {"finish", "publish"}, NEW kind, Before(step'[s], op, kind)
        PROVE  Before(step[s], op, kind)
    <3>1. step'[s] = After(step[s])
      BY <1>1 DEF DirectoryTyped
    <3> QED BY <3>1, <2>3, <1>1, <1>2, BeforeNext
  <2>4. ASSUME NEW kind \in Kinds, Before(step'[s], "publish", kind)
        PROVE  \E g \in files' : /\ g.n = Number(s) /\ g.kind = kind /\ ~g.tmp
                                 /\ g.by = s /\ Sound(g)
    BY <2>3, <2>4, <1>1, <1>6 DEF SavingInv
  <2>5. ~Before(step[s], "finish", Kind(s))
    <3> SUFFICES ASSUME NEW i \in Asked, i < step[s],
                        Script[i] = Step("finish", Kind(s))
                 PROVE  FALSE
      BY DEF Before
    <3>1. Script[i].op = "finish" /\ Script[i].kind = Script[step[s]].kind
      BY DEF Kind, Step
    <3>2. step[s] < i
      BY <3>1, <1>1, <1>2, ScriptOrder
    <3>3. i \in 1 .. 9 /\ step[s] \in 1 .. 9
      BY <1>2, ScriptOrder
    <3> QED BY <3>2, <3>3
  <2>6. ASSUME NEW g \in files', g.n = Number(s), g.tmp,
               Before(step'[s], "finish", g.kind)
        PROVE  Sound(g)
    BY <2>3, <2>5, <2>6, <1>1, <1>3, <1>4 DEF SavingInv
  <2> QED BY <2>0, <2>1, <2>4, <2>6, <1>1 DEF SavingInv, Sound
<1> QED BY <1>7, <1>8, <1>9, <1>10, <1>11, <1>12

LEMMA FinishStep ==
  ASSUME DirectoryInv, NEW s \in Sessions, Finish(s)
  PROVE  DirectoryInv'
PROOF
<1> USE DEF DirectoryInv
<1>1. /\ at[s] = "saving" /\ Script[step[s]].op = "finish"
      /\ step' = [step EXCEPT ![s] = After(@)]
      /\ UNCHANGED <<lockFile, at, saved, cleared, spared>>
  BY DEF Finish, Doing
<1>2. PICK f \in files, whole \in BOOLEAN :
        /\ f.n = Number(s) /\ f.kind = Kind(s) /\ f.tmp
        /\ files' = Others(f) \cup {[f EXCEPT !.whole = whole]}
        /\ whole \/ Kind(s) \in Lossy
  BY DEF Finish
<1> DEFINE g == [f EXCEPT !.whole = whole]
<1>3. /\ step[s] \in Asked /\ step[s] # 9
      /\ Number(s) \in 1 .. MaxSaved /\ Number(s) = saved[s] + 1
  <2>1. /\ step[s] \in Asked /\ saved[s] \in Nat /\ MaxSaved \in Nat
        /\ Number(s) = saved[s] + 1 /\ Kind(s) \in Kinds
    BY SavedTyped
  <2>2. saved[s] < MaxSaved BY <1>1 DEF SavingInv
  <2>3. step[s] # 9 BY <1>1, ScriptOrder, <2>1
  <2> QED BY <2>1, <2>2, <2>3
<1>4. f \in File /\ f.by = s
  BY <1>1 DEF AloneInv, DirectoryTyped
<1>5. g \in File /\ g.n = Number(s) /\ g.kind = Kind(s) /\ g.tmp /\ g.by = s
      /\ g.whole = whole
  BY <1>2, <1>4 DEF File
<1>6. Sound(g)
  BY <1>2, <1>5 DEF Sound
<1>7. files' = Others(f) \cup {g}
  BY <1>2
<1> HIDE DEF g
<1>8. \A h \in files' : h = g \/ h \in files
  BY <1>7 DEF Others
<1>9. \A h \in files : h.by = s
  BY <1>1 DEF AloneInv
<1>10. \A h \in files : ~h.tmp \/ h.n # Number(s) => h \in files'
  BY <1>2, <1>7 DEF Others, SamePath
<1>11. DirectoryTyped'
  BY <1>1, <1>3, <1>5, <1>8, AfterNext DEF DirectoryTyped
<1>12. MarkedComplete'
  BY <1>1, <1>5, <1>8, <1>10 DEF MarkedComplete
<1>13. HolderInv'
  BY <1>1 DEF HolderInv
<1>14. AloneInv'
  BY <1>1, <1>5, <1>8, <1>9 DEF AloneInv, HolderInv, Running
<1>15. NumberInv'
  BY <1>1, <1>3, <1>5, <1>8 DEF NumberInv, Number
<1>16. SavingInv'
  <2>0. \A t \in Sessions : at'[t] = "saving" => t = s
    BY <1>1 DEF HolderInv, Running
  <2>1. Number(s)' = Number(s) /\ saved[s] < MaxSaved
    BY <1>1 DEF Number, SavingInv
  <2>9. step'[s] = After(step[s])
    BY <1>1 DEF DirectoryTyped
  <2>3. ASSUME NEW kind, Before(step'[s], "publish", kind) PROVE Before(step[s], "publish", kind)
    BY <2>9, <2>3, <1>1, <1>3, BeforeNext
  <2>4. ASSUME NEW kind, Before(step'[s], "finish", kind)
        PROVE  Before(step[s], "finish", kind) \/ kind = Kind(s)
    BY <2>9, <2>4, <1>1, <1>3, BeforeNext DEF Kind
  <2>5. ASSUME NEW kind \in Kinds, Before(step'[s], "publish", kind)
        PROVE  \E h \in files' : /\ h.n = Number(s) /\ h.kind = kind /\ ~h.tmp
                                 /\ h.by = s /\ Sound(h)
    BY <2>3, <2>5, <1>1, <1>10 DEF SavingInv
  <2>6. ASSUME NEW h \in files', h.n = Number(s), h.tmp,
               Before(step'[s], "finish", h.kind)
        PROVE  Sound(h)
    <3>1. CASE h = g BY <3>1, <1>6
    <3>2. CASE h # g
      <4>1. h \in files /\ ~SamePath(f, h) BY <3>2, <1>7 DEF Others
      <4>2. h.kind # Kind(s)
        BY <4>1, <2>6, <1>2 DEF SamePath
      <4> QED BY <4>1, <4>2, <2>4, <2>6, <1>1 DEF SavingInv
    <3> QED BY <3>1, <3>2
  <2> QED BY <2>0, <2>1, <2>5, <2>6, <1>1 DEF SavingInv, Sound
<1> QED BY <1>11, <1>12, <1>13, <1>14, <1>15, <1>16

LEMMA PublishStep ==
  ASSUME DirectoryInv, NEW s \in Sessions, Publish(s)
  PROVE  DirectoryInv'
PROOF
<1> USE DEF DirectoryInv
<1>1. /\ at[s] = "saving" /\ Script[step[s]].op = "publish"
      /\ UNCHANGED <<lockFile, cleared, spared>>
  BY DEF Publish, Doing
<1>2. PICK f \in files :
        /\ f.n = Number(s) /\ f.kind = Kind(s) /\ f.tmp
        /\ files' = (Others([f EXCEPT !.tmp = FALSE]) \ {f})
                      \cup {[f EXCEPT !.tmp = FALSE]}
  BY DEF Publish
<1> DEFINE g == [f EXCEPT !.tmp = FALSE]
<1>3. /\ step[s] \in Asked /\ saved[s] < MaxSaved
      /\ Number(s) \in 1 .. MaxSaved /\ Number(s) = saved[s] + 1
  <2>1. step[s] \in Asked /\ saved[s] \in Nat /\ MaxSaved \in Nat
        /\ Number(s) = saved[s] + 1
    BY SavedTyped
  <2>2. saved[s] < MaxSaved BY <1>1 DEF SavingInv
  <2> QED BY <2>1, <2>2
<1>4. f \in File /\ f.by = s
  BY <1>1 DEF AloneInv, DirectoryTyped
<1>5. g \in File /\ g.n = Number(s) /\ g.kind = Kind(s) /\ ~g.tmp /\ g.by = s
      /\ g.whole = f.whole
  BY <1>2, <1>4 DEF File
<1>6. Sound(g)
  <2>1. Before(step[s], "finish", f.kind)
    BY <1>1, <1>2, <1>3, ScriptOrder DEF Before, Kind
  <2>2. Sound(f)
    BY <1>1, <1>2, <2>1 DEF SavingInv
  <2> QED BY <2>2, <1>2, <1>5 DEF Sound
<1>7. files' = (Others(g) \ {f}) \cup {g}
  BY <1>2
<1> HIDE DEF g
<1>8. \A h \in files' : h = g \/ h \in files
  BY <1>7 DEF Others
<1>9. \A h \in files : h.by = s
  BY <1>1 DEF AloneInv
<1>10. \A h \in files : ~h.tmp /\ (h.kind # Kind(s) \/ h.n # Number(s)) => h \in files'
  BY <1>2, <1>5, <1>7 DEF Others, SamePath
<1>11. g \in files'
  BY <1>7
<1>12. CASE step[s] = 9
  <2>1. /\ at' = [at EXCEPT ![s] = "ready"]
        /\ saved' = [saved EXCEPT ![s] = @ + 1] /\ step' = step
    BY <1>12, ScriptOrder DEF Publish
  <2>2. at'[s] = "ready" /\ saved'[s] = Number(s)
        /\ \A t \in Sessions \ {s} : at'[t] = at[t] /\ saved'[t] = saved[t]
    BY <2>1, <1>3 DEF DirectoryTyped
  <2>3. Kind(s) = "json"
    BY <1>1, <1>3, <1>12, ScriptOrder DEF Kind
  <2>4. ASSUME NEW kind \in Kinds
        PROVE  \E h \in files' : /\ h.n = Number(s) /\ h.kind = kind /\ ~h.tmp
                                 /\ h.by = s /\ Sound(h)
    <3>1. CASE kind = "json" BY <3>1, <2>3, <1>5, <1>6, <1>11
    <3>2. CASE kind # "json"
      <4>1. PICK i \in Asked : Script[i] = Step("publish", kind)
        BY <3>2, ScriptOrder
      <4>2. i # 9
        BY <4>1, <3>2, ScriptOrder DEF Step
      <4>3. Before(step[s], "publish", kind)
        BY <4>1, <4>2, <1>12, ScriptOrder DEF Before
      <4> QED BY <4>3, <3>2, <2>3, <1>1, <1>10 DEF SavingInv
    <3> QED BY <3>1, <3>2
  <2>5. DirectoryTyped'
    BY <1>1, <1>3, <1>5, <1>8, <2>1, <2>2 DEF DirectoryTyped
  <2>6. MarkedComplete'
    <3> SUFFICES ASSUME NEW h \in files', h.kind = "json", ~h.tmp,
                        h.by \notin cleared, NEW kind \in Kinds
                 PROVE  \E k \in files' :
                          k.n = h.n /\ k.kind = kind /\ ~k.tmp /\ k.by = h.by /\
                          (k.whole \/ kind \in Lossy)
      BY <1>1 DEF MarkedComplete
    <3>1. CASE h = g BY <3>1, <2>4, <1>5 DEF Sound
    <3>2. CASE h # g
      <4>1. h \in files /\ h.n # Number(s)
        BY <3>2, <1>3, <1>8, <1>9, SavedTyped DEF NumberInv
      <4> QED BY <4>1, <1>10 DEF MarkedComplete
    <3> QED BY <3>1, <3>2
  <2>7. HolderInv'
    BY <1>1, <2>1, <2>2 DEF HolderInv, Running
  <2>8. AloneInv'
    BY <1>1, <1>5, <1>8, <1>9, <2>2 DEF AloneInv, HolderInv, Running
  <2>9. NumberInv'
    BY <1>1, <1>3, <1>5, <1>8, <1>9, <2>2, FileTyped DEF NumberInv
  <2>10. SavingInv'
    BY <1>1, <2>2 DEF SavingInv, HolderInv, Running
  <2> QED BY <2>5, <2>6, <2>7, <2>8, <2>9, <2>10
<1>13. CASE step[s] # 9
  <2>1. step' = [step EXCEPT ![s] = After(@)] /\ at' = at /\ saved' = saved
    BY <1>13, ScriptOrder DEF Publish
  <2>2. Kind(s) # "json"
    BY <1>1, <1>3, <1>13, ScriptOrder DEF Kind
  <2>3. DirectoryTyped'
    BY <1>1, <1>3, <1>5, <1>8, <1>13, <2>1, AfterNext DEF DirectoryTyped
  <2>4. MarkedComplete'
    <3> SUFFICES ASSUME NEW h \in files', h.kind = "json", ~h.tmp,
                        h.by \notin cleared, NEW kind \in Kinds
                 PROVE  \E k \in files' :
                          k.n = h.n /\ k.kind = kind /\ ~k.tmp /\ k.by = h.by /\
                          (k.whole \/ kind \in Lossy)
      BY <1>1 DEF MarkedComplete
    <3>1. h \in files /\ h.n # Number(s)
      BY <2>2, <1>3, <1>5, <1>8, <1>9, SavedTyped DEF NumberInv
    <3> QED BY <3>1, <1>10 DEF MarkedComplete
  <2>5. HolderInv'
    BY <1>1, <2>1 DEF HolderInv
  <2>6. AloneInv'
    BY <1>1, <1>5, <1>8, <1>9, <2>1 DEF AloneInv, HolderInv, Running
  <2>7. NumberInv'
    BY <1>1, <1>3, <1>5, <1>8, <2>1, <2>2 DEF NumberInv, Number
  <2>8. SavingInv'
    <3>0. \A t \in Sessions : at'[t] = "saving" => t = s
      BY <1>1, <2>1 DEF HolderInv, Running
    <3>1. Number(s)' = Number(s) /\ saved'[s] < MaxSaved
      BY <1>3, <2>1 DEF Number
    <3>9. step'[s] = After(step[s])
      BY <2>1 DEF DirectoryTyped
    <3>3. ASSUME NEW kind, Before(step'[s], "finish", kind) PROVE Before(step[s], "finish", kind)
      BY <3>9, <3>3, <1>1, <1>3, <1>13, BeforeNext
    <3>4. ASSUME NEW kind, Before(step'[s], "publish", kind)
          PROVE  Before(step[s], "publish", kind) \/ kind = Kind(s)
      BY <3>9, <3>4, <1>1, <1>3, <1>13, BeforeNext DEF Kind
    <3>5. ASSUME NEW kind \in Kinds, Before(step'[s], "publish", kind)
          PROVE  \E h \in files' : /\ h.n = Number(s) /\ h.kind = kind /\ ~h.tmp
                                   /\ h.by = s /\ Sound(h)
      <4>1. CASE kind = Kind(s) BY <4>1, <1>5, <1>6, <1>11
      <4>2. CASE kind # Kind(s)
        BY <4>2, <3>4, <3>5, <1>1, <1>10 DEF SavingInv
      <4> QED BY <4>1, <4>2
    <3>6. ASSUME NEW h \in files', h.n = Number(s), h.tmp,
                 Before(step'[s], "finish", h.kind)
          PROVE  Sound(h)
      BY <3>3, <3>6, <1>1, <1>5, <1>8 DEF SavingInv
    <3> QED BY <3>0, <3>1, <3>5, <3>6 DEF SavingInv, Sound
  <2> QED BY <2>3, <2>4, <2>5, <2>6, <2>7, <2>8
<1> QED BY <1>12, <1>13

\* The directory is empty and nobody has started.
LEMMA DirectoryStart == DirectoryInit => DirectoryInv
PROOF
<1> SUFFICES ASSUME DirectoryInit PROVE DirectoryInv OBVIOUS
<1>1. 1 \in Asked BY ScriptOrder
<1>2. DirectoryTyped
  BY <1>1, DirectoryAssumption DEF DirectoryInit, DirectoryTyped, DirectoryAssumption
<1> QED BY <1>2, DirectoryAssumption DEF DirectoryInit, DirectoryInv, MarkedComplete,
     HolderInv, AloneInv, NumberInv, SavingInv, Running, DirectoryAssumption

\* The invariant is inductive.
LEMMA DirectoryStep == DirectoryInv /\ [DirectoryNext]_directory => DirectoryInv'
PROOF
<1> SUFFICES ASSUME DirectoryInv, [DirectoryNext]_directory PROVE DirectoryInv'
  OBVIOUS
<1>1. ASSUME NEW s \in Sessions,
             \/ Acquire(s) \/ Refused(s) \/ ClearOne(s) \/ Cleared(s)
             \/ ClearThrows(s) \/ SaveBegins(s) \/ Create(s) \/ Finish(s)
             \/ Publish(s) \/ SaveThrows(s) \/ Leave(s) \/ Killed(s)
      PROVE  DirectoryInv'
  BY <1>1, AcquireStep, RefusedStep, ClearOneStep, ClearedStep, ClearThrowsStep,
     SaveBeginsStep, CreateStep, FinishStep, PublishStep, SaveThrowsStep,
     LeaveStep, KilledStep
<1>2. CASE UNCHANGED directory
  BY <1>2 DEF DirectoryInv, directory, DirectoryTyped, MarkedComplete, HolderInv,
     AloneInv, NumberInv, SavingInv, Number, Before, Sound
<1> QED BY <1>1, <1>2 DEF DirectoryNext

\* Whoever starts, dies or fails, and whenever: a numbered JSON marks a complete
\* result, no session meets a result of its next number, and what a failed
\* save leaves is what could not be removed.
THEOREM DirectorySoundAlways == DirectorySpec => []DirectorySound
PROOF
<1>1. DirectoryInit => DirectoryInv BY DirectoryStart
<1>2. DirectoryInv /\ [DirectoryNext]_directory => DirectoryInv' BY DirectoryStep
<1>3. DirectoryInv => DirectorySound
  <2> SUFFICES ASSUME DirectoryInv PROVE DirectorySound OBVIOUS
  <2>1. NumbersFree BY DEF DirectoryInv, NumbersFree, HolderInv
  <2>2. NoOrphans BY FileTyped DEF DirectoryInv, NoOrphans, NumberInv
  <2> QED BY <2>1, <2>2 DEF DirectoryInv, DirectorySound
<1> QED BY <1>1, <1>2, <1>3, PTL DEF DirectorySpec

\* No operation of any session removes or replaces a result that a running
\* session has saved.
THEOREM HistoryKeptAlways == DirectorySpec => HistoryKept
PROOF
<1> DEFINE Kept == \A f \in files :
      ~f.tmp /\ f.n <= saved[f.by] /\ at[f.by] \in {"ready", "saving", "failed"}
        => f \in files'
<1>1. DirectoryInit => DirectoryInv BY DirectoryStart
<1>2. DirectoryInv /\ [DirectoryNext]_directory => DirectoryInv' BY DirectoryStep
<1>3. DirectoryInv /\ [DirectoryNext]_directory => [Kept]_directory
  <2> SUFFICES ASSUME DirectoryInv, NEW s \in Sessions, NEW f \in files,
                      ~f.tmp, f.n <= saved[f.by],
                      at[f.by] \in {"ready", "saving", "failed"},
                      f \notin files',
                      \/ Acquire(s) \/ Refused(s) \/ ClearOne(s) \/ Cleared(s)
                      \/ ClearThrows(s) \/ SaveBegins(s) \/ Create(s) \/ Finish(s)
                      \/ Publish(s) \/ SaveThrows(s) \/ Leave(s) \/ Killed(s)
               PROVE  FALSE
    BY DEF DirectoryNext
  <2>1. CASE files' = files
    BY <2>1
  <2>2. /\ f.by \in Sessions /\ f.n \in Nat /\ Number(s) = saved[s] + 1
        /\ saved[s] \in Nat /\ lockFile = f.by
    BY FileTyped, SavedTyped DEF DirectoryInv, HolderInv, Running
  <2>3. CASE ClearOne(s)
    BY <2>2, <2>3 DEF ClearOne, DirectoryInv, HolderInv, Running
  <2>4. ASSUME at[s] = "saving" PROVE f.n # Number(s)
    BY <2>2, <2>4 DEF DirectoryInv, HolderInv, Running
  <2>5. CASE Create(s)
    BY <2>5, <2>4 DEF Create, Doing, Others, SamePath
  <2>6. CASE Finish(s)
    <3>1. PICK g \in files : /\ g.tmp /\ Others(g) \subseteq files'
      BY <2>6 DEF Finish
    <3> QED BY <3>1 DEF Others, SamePath
  <2>7. CASE Publish(s)
    <3>1. PICK g \in files : /\ g.n = Number(s) /\ g.tmp
                             /\ Others([g EXCEPT !.tmp = FALSE]) \ {g} \subseteq files'
      BY <2>7 DEF Publish
    <3>2. [g EXCEPT !.tmp = FALSE].n = Number(s)
      BY <3>1 DEF DirectoryInv, DirectoryTyped, File
    <3> QED BY <3>1, <3>2, <2>4, <2>7 DEF Publish, Doing, Others, SamePath
  <2>8. CASE SaveThrows(s)
    BY <2>8, <2>4 DEF SaveThrows, Proceeds
  <2> QED
    BY <2>1, <2>3, <2>5, <2>6, <2>7, <2>8
    DEF Acquire, Refused, Cleared, ClearThrows, SaveBegins, Leave, Killed
<1> QED
  <2>1. DirectorySpec => [][Kept]_directory
    BY <1>1, <1>2, <1>3, PTL DEF DirectorySpec
  <2> QED BY <2>1 DEF HistoryKept

=============================================================================
