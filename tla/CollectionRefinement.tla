------------------------- MODULE CollectionRefinement -------------------------
(***************************************************************************)
(* The collection scheduler implements CollectionLedger.                   *)
(***************************************************************************)
EXTENDS CollectionScheduler

\* How far the run of the one caller between beginRun and endRun is, from the
\* places p of the callers.
PhaseOf(p) ==
  IF \E c \in Callers : p[c] \in {"stamping", "joining"} THEN "collecting"
  ELSE IF \E c \in Callers : p[c] = "recording" THEN "published"
  ELSE IF \E c \in Callers : p[c] = "ending" THEN "closing"
  ELSE "idle"

\* What a reader keeps of a completed run.
Entry(r) ==
  IF r = NoRun THEN NoRun ELSE [id |-> r.id, ok |-> r.status = "succeeded"]

Ledger == INSTANCE CollectionLedger WITH
  None <- NoRun, phase <- PhaseOf(pc), latest <- Entry(lastRun),
  success <- Entry(lastSuccess), durable <- recorded

\* Every step of the goroutines, whichever of them overlap and however their
\* contexts end, is to a reader of LastRun, LastSuccessfulRun,
\* CollectionInProgress and history a step of the ledger or none.
ImplementsLedger == Ledger!Spec
===============================================================================
