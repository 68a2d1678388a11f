--------------------------- MODULE ResultDirectory ---------------------------
(***************************************************************************)
(* cli::ResultDirectory: the numbered history results/resultN.*, shared by *)
(* every continuous session that is started in one working directory.  A   *)
(* session takes a file lock, clears the directory and saves its results   *)
(* 1, 2, 3 ...: companions are written to temporary files and renamed, and *)
(* the JSON, whose rename comes last, marks the result as complete.        *)
(*                                                                         *)
(* A file is its number, its kind, whether it is the .tmp file, the        *)
(* session that wrote it and whether it was written completely.  Every     *)
(* file operation is one action, so that a process can die between two.    *)
(***************************************************************************)
EXTENDS Naturals, Sequences

CONSTANTS Sessions,  \* the processes started in the directory, at any time
          Kinds,     \* "json" and the companions that were asked for
          Lossy,     \* the kinds whose lost writes nobody notices
          MaxSaved   \* bound on the results of a session

ASSUME DirectoryAssumption ==
  /\ "json" \in Kinds /\ Kinds \subseteq {"json", "svg", "dxf"}
  /\ Lossy \subseteq Kinds \ {"svg"}
  /\ MaxSaved \in Nat
  /\ "nobody" \notin Sessions

VARIABLES files,    \* the files below results/
          lockFile, \* the session that holds the lock, or "nobody"
          at,       \* where each session is
          step,     \* the step of save() that a saving session does next
          saved,    \* the number of results each session has saved
          cleared,  \* history: the sessions whose results are being removed
          spared    \* history: files that the error path could not remove

directory == <<files, lockFile, at, step, saved, cleared, spared>>

File == [n : 1 .. MaxSaved, kind : Kinds, tmp : BOOLEAN, by : Sessions,
         whole : BOOLEAN]

Step(op, kind) == [op |-> op, kind |-> kind]

\* Mutant: the marker is published as soon as it is written.
ScriptMarkerFirst ==
  <<Step("create", "json"), Step("finish", "json"), Step("publish", "json"),
    Step("create", "svg"), Step("finish", "svg"), Step("publish", "svg"),
    Step("create", "dxf"), Step("finish", "dxf"), Step("publish", "dxf")>>

\* What save() does, in its order; "finish" is the end of a write.
Script ==
  <<Step("create", "json"), Step("finish", "json"),
    Step("create", "svg"), Step("finish", "svg"), Step("publish", "svg"),
    Step("create", "dxf"), Step("finish", "dxf"), Step("publish", "dxf"),
    Step("publish", "json")>>

\* The steps for the files that were asked for, and the one that follows i.
Asked == {i \in DOMAIN Script : Script[i].kind \in Kinds}
After(i) == CHOOSE j \in Asked : i < j /\ \A k \in Asked : i < k => j <= k

\* Every variable keeps its type.
DirectoryTyped ==
  /\ files \subseteq File
  /\ lockFile \in Sessions \cup {"nobody"}
  /\ at \in [Sessions -> {"new", "clearing", "ready", "saving", "failed",
                          "clashed", "ended", "refused", "killed"}]
  /\ step \in [Sessions -> Asked]
  /\ saved \in [Sessions -> 0 .. MaxSaved]
  /\ cleared \subseteq Sessions
  /\ spared \subseteq File

DirectoryInit ==
  /\ files = {}
  /\ lockFile = "nobody"
  /\ at = [s \in Sessions |-> "new"]
  /\ step = [s \in Sessions |-> 1]
  /\ saved = [s \in Sessions |-> 0]
  /\ cleared = {}
  /\ spared = {}

Proceeds(s, from, to) == at[s] = from /\ at' = [at EXCEPT ![s] = to]

\* Two files cannot have the same path.
SamePath(f, g) == f.n = g.n /\ f.kind = g.kind /\ f.tmp = g.tmp
Others(f) == {g \in files : ~SamePath(f, g)}

-----------------------------------------------------------------------------
(* The constructor and the destructor.                                     *)

\* Mutant: the lock is shared.
AcquireShared(s) ==
  /\ Proceeds(s, "new", "clearing")
  /\ lockFile' = s
  /\ cleared' = cleared \cup {f.by : f \in files}
  /\ UNCHANGED <<files, step, saved, spared>>

\* The lock is taken without waiting, then the old results are doomed.
Acquire(s) ==
  /\ Proceeds(s, "new", "clearing")
  /\ lockFile = "nobody"
  /\ lockFile' = s
  /\ cleared' = cleared \cup {f.by : f \in files}
  /\ UNCHANGED <<files, step, saved, spared>>

Refused(s) ==
  /\ Proceeds(s, "new", "refused")
  /\ lockFile # "nobody"
  /\ UNCHANGED <<files, lockFile, step, saved, cleared, spared>>

\* remove_all deletes one file after the other, in no particular order.
ClearOne(s) ==
  /\ at[s] = "clearing"
  /\ \E f \in files : files' = files \ {f}
  /\ UNCHANGED <<lockFile, at, step, saved, cleared, spared>>

Cleared(s) ==
  /\ Proceeds(s, "clearing", "ready")
  /\ files = {}
  /\ UNCHANGED <<files, lockFile, step, saved, cleared, spared>>

\* A file that cannot be removed, a link or an unsafe path.
ClearThrows(s) ==
  /\ Proceeds(s, "clearing", "ended")
  /\ lockFile' = "nobody"
  /\ UNCHANGED <<files, step, saved, cleared, spared>>

Leave(s) ==
  /\ \E from \in {"ready", "failed", "clashed"} : Proceeds(s, from, "ended")
  /\ lockFile' = "nobody"
  /\ UNCHANGED <<files, step, saved, cleared, spared>>

-----------------------------------------------------------------------------
(* save()                                                                  *)

Number(s) == saved[s] + 1

Exists(n) == \E f \in files : f.n = n /\ ~f.tmp

\* "Result sequence already exists" is thrown before anything is written.
SaveBegins(s) ==
  /\ Proceeds(s, "ready", IF Exists(Number(s)) THEN "clashed" ELSE "saving")
  /\ saved[s] < MaxSaved
  /\ step' = [step EXCEPT ![s] = 1]
  /\ UNCHANGED <<files, lockFile, saved, cleared, spared>>

Doing(s, op) == at[s] = "saving" /\ Script[step[s]].op = op
Kind(s) == Script[step[s]].kind

Create(s) ==
  /\ Doing(s, "create")
  /\ LET f == [n |-> Number(s), kind |-> Kind(s), tmp |-> TRUE, by |-> s,
               whole |-> FALSE]
     IN files' = Others(f) \cup {f}
  /\ step' = [step EXCEPT ![s] = After(@)]
  /\ UNCHANGED <<lockFile, at, saved, cleared, spared>>

\* An export returns.  A write that was lost, by a full disk say, makes it
\* throw instead, but for the kinds whose stream is not checked at its end.
Finish(s) ==
  /\ Doing(s, "finish")
  /\ \E f \in files, whole \in IF Kind(s) \in Lossy THEN BOOLEAN ELSE {TRUE} :
       /\ f.n = Number(s) /\ f.kind = Kind(s) /\ f.tmp
       /\ files' = Others(f) \cup {[f EXCEPT !.whole = whole]}
  /\ step' = [step EXCEPT ![s] = After(@)]
  /\ UNCHANGED <<lockFile, at, saved, cleared, spared>>

\* A rename; the one of the JSON is the last step.
Publish(s) ==
  /\ Doing(s, "publish")
  /\ \E f \in files :
       /\ f.n = Number(s) /\ f.kind = Kind(s) /\ f.tmp
       /\ LET g == [f EXCEPT !.tmp = FALSE]
          IN files' = (Others(g) \ {f}) \cup {g}
  /\ IF step[s] = Len(Script)
     THEN /\ at' = [at EXCEPT ![s] = "ready"]
          /\ saved' = [saved EXCEPT ![s] = @ + 1]
          /\ UNCHANGED step
     ELSE /\ step' = [step EXCEPT ![s] = After(@)]
          /\ UNCHANGED <<at, saved>>
  /\ UNCHANGED <<lockFile, cleared, spared>>

\* A write or a rename fails: the files of this result are removed, and an
\* error of a removal is ignored.
SaveThrows(s) ==
  /\ Proceeds(s, "saving", "failed")
  /\ LET doomed == {f \in files : f.n = Number(s)}
     IN \E removed \in SUBSET doomed :
          /\ files' = files \ removed
          /\ spared' = spared \cup (doomed \ removed)
  /\ UNCHANGED <<lockFile, step, saved, cleared>>

-----------------------------------------------------------------------------

\* The operating system releases the lock of a killed process.
Killed(s) ==
  /\ at[s] \in {"clearing", "ready", "saving", "failed"}
  /\ at' = [at EXCEPT ![s] = "killed"]
  /\ lockFile' = "nobody"
  /\ UNCHANGED <<files, step, saved, cleared, spared>>

DirectoryNext ==
  \E s \in Sessions :
    \/ Acquire(s) \/ Refused(s) \/ ClearOne(s) \/ Cleared(s) \/ ClearThrows(s)
    \/ SaveBegins(s) \/ Create(s) \/ Finish(s) \/ Publish(s)
    \/ SaveThrows(s) \/ Leave(s) \/ Killed(s)

DirectorySpec == DirectoryInit /\ [][DirectoryNext]_directory

-----------------------------------------------------------------------------
(* Properties.                                                             *)

\* "A numbered JSON is published after its companions and marks a complete
\* snapshot" (README.md:453), at every moment and after every crash, but for
\* the results a later session is removing, and for the end of a file whose
\* stream nobody tests once it is flushed.
MarkedComplete ==
  \A f \in files : f.kind = "json" /\ ~f.tmp /\ f.by \notin cleared =>
    \A kind \in Kinds : \E g \in files :
      g.n = f.n /\ g.kind = kind /\ ~g.tmp /\ g.by = f.by /\
      (g.whole \/ kind \in Lossy)

\* No running process removes or replaces a numbered result of another one
\* (continuous_results.hpp:55), nor one that it saved itself.
HistoryKept ==
  [][\A f \in files :
       ~f.tmp /\ f.n <= saved[f.by] /\ at[f.by] \in {"ready", "saving", "failed"}
         => f \in files']_directory

\* A session never meets a result with its next number.
NumbersFree == \A s \in Sessions : at[s] # "clashed"

\* What a session leaves besides its marked results is what a removal failed
\* to remove: a failed save does not leave a companion behind.
NoOrphans ==
  \A f \in files : at[f.by] \in {"ready", "failed", "ended"} =>
    f.n <= saved[f.by] \/ f \in spared

\* A marked result is complete, and neither a failed save nor an earlier
\* session leaves anything in the way of the next ones.
DirectorySound == DirectoryTyped /\ MarkedComplete /\ NumbersFree /\ NoOrphans

=============================================================================
