------------------------------- MODULE GpuBroker -------------------------------
(***************************************************************************)
(* RecursiveGpuBroker: the workers of a parallel recursive search share    *)
(* one GPU.  A worker takes a ticket, waits for its turn, and then makes   *)
(* the device filter candidates against its own bitmap.  The bitmap stays  *)
(* on the device, in the slot of the worker, and follows the search by     *)
(* toggles; it is uploaded again when the sheet has changed or its slot    *)
(* was evicted.  Any call of the device may fail: the worker then returns  *)
(* its lease and goes on without the GPU, or the search fails.             *)
(*                                                                         *)
(* Tickets are represented by the line of those who hold one: the ticket   *)
(* that is served is the first.  A bitmap is the set of masks committed on *)
(* it.  Toggles commute and cancel, so the pending updates of a worker     *)
(* are the masks it has toggled an odd number of times.  All sheets have   *)
(* the same size: a difference is only one more reason for a call to fail. *)
(***************************************************************************)
EXTENDS Naturals, FiniteSets, Sequences, FiniteSetsExt

CONSTANTS Users,       \* the workers, with numbers from 0
          Stocks,      \* the sheets
          Masks,       \* the masks, each of them a policy
          Capacity,    \* how many bitmaps the memory of the device holds
          MaxToggles,  \* bound on the toggles of all workers
          MaxFilters   \* bound on their batches

ASSUME BrokerAssumption ==
  /\ IsFiniteSet(Users) /\ 0 \in Users
  /\ Capacity \in Nat \ {0}
  /\ Stocks # {} /\ "none" \notin Stocks
  /\ Masks # {}
  /\ MaxToggles \in Nat /\ MaxFilters \in Nat

VARIABLES
  line,      \* the workers that hold a ticket, in order
  at,        \* where each worker is
  job,       \* what it wants the device for
  goal,      \* the sheet and the mask of its next batch
  occupancy, \* stock.occupied of each worker and sheet
  updates,   \* gpuUpdates of each worker and sheet
  toggles, filters,  \* how often the workers have toggled and filtered
  atlas,     \* atlasReady_
  uploaded,  \* readyPolicies_, and the masks for which maskReady is set
  sheet,     \* sheet_, "none" at first
  material,  \* the sheet whose material is on the device, or "none"
  slot,      \* occupancySlot
  buffer,    \* occupancy and occupancyReady
  saved      \* savedOccupancies

search == <<goal, occupancy, updates, toggles, filters>>
loaded == <<atlas, uploaded>>
surface == <<sheet, material>>
slots == <<slot, buffer, saved>>
vars == <<line, at, job, search, loaded, surface, slots>>

\* A bitmap on the device, which may still have to be uploaded, or none.
Bitmaps == [masks : SUBSET Masks, ready : BOOLEAN]
NoBitmap == [none |-> TRUE]

\* A worker with the lease of the device.
Leased == {"turn", "sheeted", "selected", "updated", "filtering"}

Stages == Leased \cup {"cpu", "asleep", "awake", "returning", "failing",
                      "notifying", "leaving", "gone"}

\* Every variable keeps its type.
TypeOK ==
  /\ line \in Seq(Users)
  /\ at \in [Users -> Stages]
  /\ job \in [Users -> {"prepare", "policy", "filter"}]
  /\ goal \in [Users -> [sheet : Stocks, mask : Masks]]
  /\ occupancy \in [Users -> [Stocks -> SUBSET Masks]]
  /\ updates \in [Users -> [Stocks -> SUBSET Masks]]
  /\ toggles \in 0 .. MaxToggles
  /\ filters \in 0 .. MaxFilters
  /\ atlas \in BOOLEAN
  /\ uploaded \subseteq Masks
  /\ sheet \in Stocks \cup {"none"} /\ material \in Stocks \cup {"none"}
  /\ slot \in Users
  /\ buffer \in Bitmaps \cup {NoBitmap}
  /\ saved \in [Users -> Bitmaps \cup {NoBitmap}]

Init ==
  /\ line = <<>>
  /\ at = [w \in Users |-> "cpu"]
  /\ job = [w \in Users |-> "prepare"]
  /\ goal \in [Users -> {CHOOSE g \in [sheet : Stocks, mask : Masks] : TRUE}]
  /\ occupancy = [w \in Users |-> [s \in Stocks |-> {}]]
  /\ updates = [w \in Users |-> [s \in Stocks |-> {}]]
  /\ toggles = 0 /\ filters = 0
  /\ atlas = FALSE
  /\ uploaded = {}
  /\ sheet = "none" /\ material = "none"
  /\ slot = 0
  /\ buffer = NoBitmap
  /\ saved = [w \in Users |-> NoBitmap]

Goto(w, place) == at' = [at EXCEPT ![w] = place]

-----------------------------------------------------------------------------
(* The worker's own search.                                                *)

\* toggle(): a mask is committed or taken back.
ToggleStock(w) ==
  /\ at[w] = "cpu" /\ job[w] = "policy"
  /\ toggles < MaxToggles
  /\ \E s \in Stocks, m \in uploaded :
       /\ occupancy' = [occupancy EXCEPT ![w][s] = SymDiff(@, {m})]
       /\ updates' = [updates EXCEPT ![w][s] = SymDiff(@, {m})]
  /\ toggles' = toggles + 1
  /\ UNCHANGED <<line, at, job, goal, filters, loaded, surface, slots>>

\* The next batch is on this sheet, with this mask.
ChooseGoal(w) ==
  /\ filters < MaxFilters
  /\ \E s \in Stocks, m \in Masks :
       goal' = [goal EXCEPT ![w] = [sheet |-> s, mask |-> m]]
  /\ filters' = filters + 1

-----------------------------------------------------------------------------
(* The lease.                                                              *)

\* A ticket is drawn, and the condition is tested before going to sleep.
DrawTicket(w) ==
  /\ at[w] = "cpu"
  /\ IF job[w] = "policy" THEN ChooseGoal(w) ELSE UNCHANGED <<goal, filters>>
  /\ line' = Append(line, w)
  /\ Goto(w, IF line = <<>> THEN "turn" ELSE "asleep")
  /\ UNCHANGED <<job, occupancy, updates, toggles, loaded, surface, slots>>

\* After a notification, or for no reason, it is tested again.
SpuriousWakeup(w) ==
  /\ at[w] = "asleep"
  /\ Goto(w, "awake")
  /\ UNCHANGED <<line, job, search, loaded, surface, slots>>

TestTicket(w) ==
  /\ at[w] = "awake"
  /\ Goto(w, IF Head(line) = w THEN "turn" ELSE "asleep")
  /\ UNCHANGED <<line, job, search, loaded, surface, slots>>

\* Mutant: an exception leaves the lease with the worker.
ReturnTicketOnSuccess(w) ==
  /\ at[w] \in {"returning", "failing"}
  /\ line' = IF at[w] = "returning" THEN Tail(line) ELSE line
  /\ Goto(w, IF at[w] = "returning" THEN "notifying" ELSE "leaving")
  /\ UNCHANGED <<job, search, loaded, surface, slots>>

\* ~Lease, after success or an exception: the next ticket is served ...
ReturnTicket(w) ==
  /\ at[w] \in {"returning", "failing"}
  /\ line' = Tail(line)
  /\ Goto(w, IF at[w] = "returning" THEN "notifying" ELSE "leaving")
  /\ UNCHANGED <<job, search, loaded, surface, slots>>

\* What a worker does after a lease that ended well.
NextJob(w) == IF job[w] = "policy" THEN "filter" ELSE "policy"

\* ... and then all that wait are notified.
NotifyAll(w) ==
  /\ at[w] \in {"notifying", "leaving"}
  /\ at' = [v \in Users |->
              IF v = w THEN IF at[w] = "notifying" THEN "cpu" ELSE "gone"
              ELSE IF at[v] = "asleep" THEN "awake" ELSE at[v]]
  /\ job' = [job EXCEPT ![w] = NextJob(w)]
  /\ UNCHANGED <<line, search, loaded, surface, slots>>

-----------------------------------------------------------------------------
(* With the lease: masks.                                                  *)

\* prepare(): the first worker allocates the atlas.
Prepare(w) ==
  /\ at[w] = "turn" /\ job[w] = "prepare"
  /\ atlas' = TRUE
  /\ Goto(w, "returning")
  /\ UNCHANGED <<line, job, search, uploaded, surface, slots>>

\* preparePolicy(): the first worker that needs a policy uploads its pixels.
PreparePolicy(w) ==
  /\ at[w] = "turn" /\ job[w] = "policy"
  /\ uploaded' = uploaded \cup {goal[w].mask}
  /\ Goto(w, "returning")
  /\ UNCHANGED <<line, job, search, atlas, surface, slots>>

\* The loader of either one throws: a full device, or the deadline.
PrepareFails(w) ==
  /\ at[w] = "turn"
  /\ \/ job[w] = "prepare" /\ ~atlas
     \/ job[w] = "policy" /\ goal[w].mask \notin uploaded
  /\ Goto(w, "failing")
  /\ UNCHANGED <<line, job, search, loaded, surface, slots>>

-----------------------------------------------------------------------------
(* With the lease: filter().                                               *)

\* Memory that is allocated but not written may hold anything.
Fresh == [masks : SUBSET Masks, ready : {FALSE}]

KeepSheet(w) ==
  /\ at[w] = "turn" /\ job[w] = "filter"
  /\ sheet = goal[w].sheet
  /\ Goto(w, "sheeted")
  /\ UNCHANGED <<line, job, search, loaded, surface, slots>>

\* GpuBitmap::setSheet
SetSheet(w) ==
  /\ at[w] = "turn" /\ job[w] = "filter"
  /\ sheet # goal[w].sheet
  /\ saved' = [v \in Users |-> NoBitmap]
  /\ slot' = 0
  /\ material' = goal[w].sheet
  /\ buffer' \in Fresh
  /\ sheet' = goal[w].sheet
  /\ Goto(w, "sheeted")
  /\ UNCHANGED <<line, job, search, loaded>>

\* It throws for want of memory for the material or for the bitmap.
SetSheetFails(w) ==
  /\ at[w] = "turn" /\ job[w] = "filter"
  /\ sheet # goal[w].sheet
  /\ saved' = [v \in Users |-> NoBitmap]
  /\ slot' = 0
  /\ \/ /\ material' = "none"
        /\ buffer' = IF buffer = NoBitmap THEN NoBitmap
                     ELSE [buffer EXCEPT !.ready = FALSE]
     \/ /\ material' = goal[w].sheet
        /\ buffer' = NoBitmap
  /\ Goto(w, "failing")
  /\ UNCHANGED <<line, job, search, loaded, sheet>>

\* selectOccupancySlot: the worker's bitmap is the current one.
KeepSlot(w) ==
  /\ at[w] = "sheeted"
  /\ buffer # NoBitmap
  /\ slot = w
  /\ Goto(w, "selected")
  /\ UNCHANGED <<line, job, search, loaded, surface, slots>>

Present(bitmaps) == {v \in Users : bitmaps[v] # NoBitmap}

\* Mutant: one bitmap too many is kept.
RoomForOneMore(w) ==
  LET others == [saved EXCEPT ![w] = NoBitmap]
  IN {kept \in [Users -> Bitmaps \cup {NoBitmap}] :
        /\ \A v \in Users : kept[v] \in {others[v], NoBitmap}
        /\ Cardinality(Present(kept)) =
             IF Cardinality(Present(others)) < Capacity - 1
             THEN Cardinality(Present(others)) ELSE Capacity - 1}

\* What is left of the saved bitmaps when w's is taken out and the current
\* one needs a place: any may be evicted.
Room(w) ==
  LET others == [saved EXCEPT ![w] = NoBitmap]
      spare == IF Capacity < 2 THEN 0 ELSE Capacity - 2
  IN {kept \in [Users -> Bitmaps \cup {NoBitmap}] :
        /\ \A v \in Users : kept[v] \in {others[v], NoBitmap}
        /\ Cardinality(Present(kept)) =
             IF Cardinality(Present(others)) < spare
             THEN Cardinality(Present(others)) ELSE spare}

SwitchSlot(w) ==
  /\ at[w] = "sheeted"
  /\ buffer # NoBitmap
  /\ slot # w
  /\ \E kept \in Room(w) :
       saved' = IF Capacity > 1 THEN [kept EXCEPT ![slot] = buffer] ELSE kept
  /\ slot' = w
  /\ IF saved[w] # NoBitmap
     THEN buffer' = saved[w] /\ Goto(w, "selected")
     ELSE \/ buffer' \in Fresh /\ Goto(w, "selected")
          \/ buffer' = NoBitmap /\ Goto(w, "failing")
  /\ UNCHANGED <<line, job, search, loaded, surface>>

\* The device was left without a bitmap by a call that failed.
SelectSlotFails(w) ==
  /\ at[w] = "sheeted"
  /\ buffer = NoBitmap
  /\ Goto(w, "failing")
  /\ UNCHANGED <<line, job, search, loaded, surface, slots>>

Forget(w) == updates' = [updates EXCEPT ![w] = [s \in Stocks |-> {}]]

\* setOccupancy, when the slot is new.
Upload(w) ==
  /\ at[w] = "selected"
  /\ ~buffer.ready
  /\ buffer' = [masks |-> occupancy[w][goal[w].sheet], ready |-> TRUE]
  /\ Forget(w)
  /\ Goto(w, "updated")
  /\ UNCHANGED <<line, job, goal, occupancy, toggles, filters, loaded, surface,
                 slot, saved>>

UploadFails(w) ==
  /\ at[w] = "selected"
  /\ ~buffer.ready
  /\ buffer' \in Fresh
  /\ Goto(w, "failing")
  /\ UNCHANGED <<line, job, search, loaded, surface, slot, saved>>

\* Mutant: the updates are kept for the next batch.
FollowAgain(w) ==
  /\ at[w] = "selected"
  /\ buffer.ready
  /\ buffer' = [buffer EXCEPT !.masks = SymDiff(@, updates[w][goal[w].sheet])]
  /\ Goto(w, "updated")
  /\ UNCHANGED <<line, job, search, loaded, surface, slot, saved>>

\* toggleMask for every update of this sheet; those of others are dropped.
Follow(w) ==
  /\ at[w] = "selected"
  /\ buffer.ready
  /\ updates[w][goal[w].sheet] \subseteq uploaded
  /\ buffer' = [buffer EXCEPT !.masks = SymDiff(@, updates[w][goal[w].sheet])]
  /\ Forget(w)
  /\ Goto(w, "updated")
  /\ UNCHANGED <<line, job, goal, occupancy, toggles, filters, loaded, surface,
                 slot, saved>>

\* It fails after some of them.
FollowFails(w) ==
  /\ at[w] = "selected"
  /\ buffer.ready
  /\ \E some \in SUBSET updates[w][goal[w].sheet] :
       buffer' = [buffer EXCEPT !.masks = SymDiff(@, some)]
  /\ Goto(w, "failing")
  /\ UNCHANGED <<line, job, search, loaded, surface, slot, saved>>

\* filter or filterGrid: refused, or started ...
Dispatch(w) ==
  /\ at[w] = "updated"
  /\ Goto(w, IF /\ material # "none" /\ buffer # NoBitmap /\ buffer.ready
                /\ goal[w].mask \in uploaded
             THEN "filtering" ELSE "failing")
  /\ UNCHANGED <<line, job, search, loaded, surface, slots>>

\* ... and its flags read.
ReadFlags(w) ==
  /\ at[w] = "filtering"
  /\ at' \in {[at EXCEPT ![w] = place] : place \in {"returning", "failing"}}
  /\ UNCHANGED <<line, job, search, loaded, surface, slots>>

-----------------------------------------------------------------------------

\* What a worker does once it has asked for the device.
Proceed(w) ==
  \/ TestTicket(w) \/ ReturnTicket(w) \/ NotifyAll(w)
  \/ Prepare(w) \/ PreparePolicy(w) \/ PrepareFails(w)
  \/ KeepSheet(w) \/ SetSheet(w) \/ SetSheetFails(w)
  \/ KeepSlot(w) \/ SwitchSlot(w) \/ SelectSlotFails(w)
  \/ Upload(w) \/ UploadFails(w) \/ Follow(w) \/ FollowFails(w)
  \/ Dispatch(w) \/ ReadFlags(w)

Next ==
  \E w \in Users :
    ToggleStock(w) \/ DrawTicket(w) \/ SpuriousWakeup(w) \/ Proceed(w)

Spec == Init /\ [][Next]_vars

-----------------------------------------------------------------------------
(* Properties.                                                             *)

\* A batch is filtered against the bitmap and the sheet of the worker that
\* asked for it, whatever other workers did meanwhile and whichever calls of
\* the device failed: a search with the GPU finds the layout that it finds
\* without (tests/regression.cpp:990).
FlagsTrue ==
  \A w \in Users : at[w] = "filtering" =>
    /\ material = goal[w].sheet
    /\ buffer = [masks |-> occupancy[w][goal[w].sheet], ready |-> TRUE]
    /\ \A v \in Users \ {w} : at[v] \notin Leased

\* The bitmaps on the device stay within its budget
\* ("bounded to 128 MiB (or 1/16 VRAM)", gpu_bitmap.cpp:293).
ResidencyBounded ==
  Cardinality(Present(saved)) + (IF buffer = NoBitmap THEN 0 ELSE 1) <= Capacity

\* The lease moves on, though the search of its holder fails: the worker
\* whose turn it is uses the device, is about to see that it may, or will be
\* told so by one that has just given it back.  No wakeup is lost, and a
\* worker that is gone holds nothing.
LeaseMovesOn ==
  line # <<>> =>
    \/ at[Head(line)] \in Leased \cup {"returning", "failing", "awake"}
    \/ /\ at[Head(line)] = "asleep"
       /\ \E v \in Users : at[v] \in {"notifying", "leaving"}

=============================================================================
