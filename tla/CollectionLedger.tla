--------------------------- MODULE CollectionLedger ---------------------------
(***************************************************************************)
(* What the collection service promises to those who read it: the status   *)
(* endpoint, which reads LastRun, LastSuccessfulRun and                    *)
(* CollectionInProgress (app/status.go), and history.  One run at a time   *)
(* is collected, shown and then made durable, or is given up on the way;   *)
(* goroutines, deadlines and clocks are left out.                          *)
(***************************************************************************)
EXTENDS Naturals

CONSTANT None   \* no run yet

VARIABLES
  phase,     \* how far the current run is
  latest,    \* the run LastRun shows
  success,   \* the run LastSuccessfulRun shows
  durable    \* the numbers of the runs in history

vars == <<phase, latest, success, durable>>

Entry == [id : Nat, ok : BOOLEAN]

Init ==
  /\ phase = "idle"
  /\ latest = None
  /\ success = None
  /\ durable = {}

\* A run begins, but never beside another.
Begin ==
  /\ phase = "idle"
  /\ phase' = "collecting"
  /\ UNCHANGED <<latest, success, durable>>

\* The run is over and shown; it is newer than the one shown before.
Publish ==
  /\ phase = "collecting"
  /\ phase' = "published"
  /\ latest' \in Entry
  /\ latest # None => latest.id < latest'.id
  /\ success' = IF latest'.ok THEN latest' ELSE success
  /\ UNCHANGED durable

\* The run shown becomes durable.
Commit ==
  /\ phase = "published"
  /\ phase' = "closing"
  /\ durable' = durable \cup {latest.id}
  /\ UNCHANGED <<latest, success>>

\* The run is given up: unpublished, or published and not made durable.
GiveUp ==
  /\ phase \in {"collecting", "published"}
  /\ phase' = "closing"
  /\ UNCHANGED <<latest, success, durable>>

End ==
  /\ phase = "closing"
  /\ phase' = "idle"
  /\ UNCHANGED <<latest, success, durable>>

Next == Begin \/ Publish \/ Commit \/ GiveUp \/ End

Spec == Init /\ [][Next]_vars
===============================================================================
