---------------------------- MODULE LatestValue ----------------------------
(***************************************************************************)
(* What a latest-value mailbox promises to the threads that share it.      *)
(* Values are numbered in the order in which they were accepted.  The      *)
(* consumer reports them one at a time: it may skip a value for which a    *)
(* newer one exists, but it never goes back, it always catches up with the *)
(* newest value, and it ends only when it has reported the newest value,   *)
(* unless a report failed.                                                 *)
(***************************************************************************)
EXTENDS Naturals

CONSTANT MaxSubmit   \* bound on the number of accepted values

VARIABLES latest,    \* number of the newest accepted value, 0 before the first
          reported,  \* number of the last value that was reported
          phase      \* "open", "closing", "ended" or "failed"

vars == <<latest, reported, phase>>

Init ==
  /\ latest = 0
  /\ reported = 0
  /\ phase = "open"

Submit ==
  /\ phase = "open"
  /\ latest < MaxSubmit
  /\ latest' = latest + 1
  /\ UNCHANGED <<reported, phase>>

Report ==
  /\ phase \in {"open", "closing"}
  /\ \E v \in 1 .. latest : v > reported /\ reported' = v
  /\ UNCHANGED <<latest, phase>>

Close ==
  /\ phase = "open"
  /\ phase' = "closing"
  /\ UNCHANGED <<latest, reported>>

End ==
  /\ phase = "closing"
  /\ reported = latest
  /\ phase' = "ended"
  /\ UNCHANGED <<latest, reported>>

Fail ==
  /\ phase \in {"open", "closing"}
  /\ reported < latest
  /\ phase' = "failed"
  /\ UNCHANGED <<latest, reported>>

Next == Submit \/ Report \/ Close \/ End \/ Fail

SafeSpec == Init /\ [][Next]_vars

Spec == SafeSpec /\ WF_vars(Report) /\ WF_vars(End)

=============================================================================
