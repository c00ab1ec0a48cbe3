---------------------------- MODULE HistoryTables ----------------------------
(***************************************************************************)
(* What whoever reads the history database may rely on: the API, which     *)
(* queries it at any moment, and whoever opens the file after a crash.     *)
(* Tables change at once and in two ways only.  A run appears with all of  *)
(* its samples, or a whole batch of a cleanup goes, from all the tables    *)
(* together.  Transactions, locks, statements, failures, cancellation and  *)
(* restarts are left out.                                                  *)
(***************************************************************************)
EXTENDS Integers, FiniteSets

CONSTANTS
  Kind,       \* a function: the table of each resource
  Retention,  \* how long rows are kept
  BatchSize,  \* how many rows of a table go at once, at most
  Databases,  \* the tables there may be at first
  Never       \* not ended, not removed

VARIABLES
  now,
  cutoff,  \* of the cleanup: older rows have expired
  tables

vars == <<now, cutoff, tables>>

Init ==
  /\ now \in Nat
  /\ cutoff = now - Retention
  /\ tables \in Databases

Tick ==
  /\ now' = now + 1
  /\ UNCHANGED <<cutoff, tables>>

\* A cleanup starts.  It has one cutoff for all of its batches.
Begin ==
  /\ cutoff' = now - Retention
  /\ UNCHANGED <<now, tables>>

\* A run that has started appears, with a new number and all of its samples,
\* which are of the host or of resources that there are.  Nothing else changes.
Record ==
  /\ \E run \in tables'.runs :
       /\ run.at \in Nat /\ run.at <= now
       /\ run.id \in Nat /\ \A r \in tables.runs : r.id < run.id
       /\ run.with \cap DOMAIN Kind \subseteq {x.id : x \in tables.resources}
       /\ tables' = [tables EXCEPT
            !.runs = @ \cup {run},
            !.samples = @ \cup {[run |-> run.id, of |-> s] : s \in run.with}]
  /\ UNCHANGED <<now, cutoff>>

InUse(t, r) == \E x \in t.samples \cup t.events : x.of = r

Expired(rows) == {x \in rows : x.at # Never /\ x.at < cutoff}

\* What goes of rows is all that has expired, or a full batch of the oldest.
IsBatch(gone, rows) ==
  /\ gone \subseteq Expired(rows)
  /\ \/ gone = Expired(rows) /\ Cardinality(gone) <= BatchSize
     \/ Cardinality(gone) = BatchSize
  /\ \A x \in gone, y \in Expired(rows) \ gone : x.at <= y.at

OfKind(kind, resources) == {x \in resources : Kind[x.id] = kind}
Free(kind, t) == {x \in OfKind(kind, tables.resources) : ~InUse(t, x.id)}

\* A batch goes of every table, so no table is passed over while it has rows
\* that have expired.  The samples of a run go with it, and of the resources
\* of a kind those can go that nothing which stays refers to.
Retain ==
  /\ tables' = [table \in DOMAIN tables |-> tables'[table]]
  /\ \A table \in {"runs", "events", "incidents"} :
       /\ tables'[table] \subseteq tables[table]
       /\ IsBatch(tables[table] \ tables'[table], tables[table])
  /\ tables'.samples = {s \in tables.samples : \E r \in tables'.runs : r.id = s.run}
  /\ tables'.resources \subseteq tables.resources
  /\ \A kind \in {Kind[r] : r \in DOMAIN Kind} :
       IsBatch(OfKind(kind, tables.resources \ tables'.resources), Free(kind, tables'))
  /\ UNCHANGED <<now, cutoff>>

Next == Tick \/ Begin \/ Record \/ Retain

Spec == Init /\ [][Next]_vars
=============================================================================
