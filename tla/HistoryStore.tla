----------------------------- MODULE HistoryStore -----------------------------
(****************************************************************************)
(* The history database and its two writers: the recorder of collection     *)
(* runs (storage/history/repository.go, samples.go, called through          *)
(* app/collection_recorder.go) and the retention worker (storage/history/   *)
(* retention.go, driven by app/retention.go), with cancellation, failing    *)
(* statements, and the death and restart of the process.                    *)
(*                                                                          *)
(* SQLite is modelled from how storage/sqlite.go opens it: one writer at a  *)
(* time, who works on a copy nobody else sees until it commits, and foreign *)
(* keys enforced.  A transaction is deferred, so its first statement takes  *)
(* the write lock.  One action per statement and per commit.                *)
(*                                                                          *)
(* A row keeps its key and the time that retention compares, in whole ticks *)
(* as the columns keep whole seconds.  The values a row holds are left out. *)
(* Only runs and their host and core samples have a writer so far; rows of  *)
(* the other tables are those the database is found with.                   *)
(****************************************************************************)
EXTENDS Integers, FiniteSets, FiniteSetsExt

CONSTANTS
  Kind,         \* a function: the table of each filesystem, device, container
  Retention,    \* RetentionDuration, in ticks
  BatchSize,    \* DefaultRetentionBatchSize
  MaxBatches,   \* DefaultRetentionMaxBatches
  Databases,    \* databases the process may find when it first starts
  Never,        \* NULL: not ended, not removed
  MaxTime,      \* bound: the last tick of the clock
  MaxRuns,      \* bound: how many runs are recorded
  MaxFailures,  \* bound: how many statements fail on their own
  MaxRestarts   \* bound: how often the process is started again

Resources == DOMAIN Kind
Kinds == {"filesystems", "devices", "containers"}
Host == {"host", "core"}

Run == [id : Nat \ {0}, at : Int, with : SUBSET (Host \cup Resources)]
Sample == [run : Nat \ {0}, of : Host \cup Resources]
Resource == [id : Resources, at : Int \cup {Never}]
StateEvent == [id : Nat, of : Resources, at : Int]
Incident == [id : Nat, at : Int \cup {Never}]

\* The tables.  at is started_at of a run, observed_at of an event, ended_at
\* of an incident and removed_at or deleted_at of a resource; with is no
\* column, but remembers which samples a run was recorded with.
Database ==
  [runs : SUBSET Run, samples : SUBSET Sample, resources : SUBSET Resource,
   events : SUBSET StateEvent, incidents : SUBSET Incident]

SamplesOf(d, id) == {s.of : s \in {x \in d.samples : x.run = id}}

\* PRIMARY KEY of collection_runs
UniqueRuns(d) == \A r, s \in d.runs : r.id = s.id => r = s

\* The foreign keys: samples on runs, samples and events on resources.
References(d) ==
  /\ \A s \in d.samples : \E r \in d.runs : r.id = s.run
  /\ \A s \in d.samples : s.of \in Host \/ \E r \in d.resources : r.id = s.of
  /\ \A e \in d.events : \E r \in d.resources : r.id = e.of

Whole(d) == \A r \in d.runs : SamplesOf(d, r.id) = r.with

Finite(d) ==
  /\ IsFiniteSet(d.runs) /\ IsFiniteSet(d.resources)
  /\ IsFiniteSet(d.events) /\ IsFiniteSet(d.incidents)

ASSUME HistoryAssumption ==
  /\ Kind \in [Resources -> Kinds] /\ Host \cap Resources = {}
  /\ Retention \in Nat /\ BatchSize \in Nat \ {0} /\ MaxBatches \in Nat \ {0}
  /\ Never \notin Int
  /\ \A n \in {MaxTime, MaxRuns, MaxFailures, MaxRestarts} : n \in Nat
  /\ Databases \subseteq Database
  /\ \A d \in Databases :
       /\ UniqueRuns(d) /\ References(d) /\ Whole(d) /\ Finite(d)
       /\ d.runs = {} \/ \E r \in d.runs : \A s \in d.runs : s.id <= r.id

VARIABLES
  now,       \* the clock
  stopping,  \* whether the context of both writers is done
  db,        \* the committed database
  tx,        \* the copy of the writer; db without one
  writer,    \* who holds the write lock: none, recorder, worker
  rec,       \* RecordCollection: where it is, its run and the samples with it
  pc,        \* where the retention worker is
  cutoff,    \* the cutoff of its CleanupExpiredBatches, the last or the first
  batches,   \* how many batches that has committed
  more,      \* whether a statement of this batch reached the batch size
  outcome,   \* what the cleanup has logged
  used       \* what is used up of the bounds

dataVars == <<db, tx, writer>>
workerVars == <<pc, cutoff, batches, more, outcome>>
vars == <<now, stopping, db, tx, writer, rec, pc, cutoff, batches, more, outcome,
          used>>

-----------------------------------------------------------------------------
NoRecord == [pc |-> "idle", id |-> 0, at |-> 0, with |-> {}]

Init ==
  /\ now \in 0 .. MaxTime /\ stopping = FALSE
  /\ db \in Databases /\ tx = db /\ writer = "none"
  /\ rec = NoRecord
  /\ pc = "starting" /\ cutoff = now - Retention /\ batches = 0 /\ more = FALSE
  /\ outcome = "none"
  /\ used = [runs |-> 0, failures |-> 0, restarts |-> 0]

Lock(w) == writer = "none" /\ writer' = w
Commit == db' = tx /\ tx' = tx /\ writer' = "none"
Rollback(w) ==
  /\ tx' = IF writer = w THEN db ELSE tx
  /\ writer' = IF writer = w THEN "none" ELSE writer
  /\ UNCHANGED db

UseUp(field, most) ==
  /\ used[field] < most
  /\ used' = [used EXCEPT ![field] = @ + 1]

-----------------------------------------------------------------------------
(***************************************************************************)
(* RecordCollection.                                                       *)
(***************************************************************************)

\* INTEGER PRIMARY KEY without AUTOINCREMENT: one above the largest in use, so
\* the number of a deleted run can be given again.
NextId(runs) == IF runs = {} THEN 1 ELSE Max({r.id : r \in runs}) + 1

\* collectionRecorder.RecordCollection: no samples for a failed host result,
\* cores only with CPU evidence.
SampleChoices == {{}, {"host"}, {"host", "core"}}

\* A run has started, and is handed to the recorder when it is complete.
StartRun ==
  /\ rec.pc = "idle" /\ ~stopping
  /\ UseUp("runs", MaxRuns)
  /\ \E with \in SampleChoices :
       rec' = [pc |-> "begun", id |-> 0, at |-> now, with |-> with]
  /\ UNCHANGED <<now, stopping, dataVars, workerVars>>

\* Mutant: the statements run outside of the transaction.
InsertRunAutocommitted ==
  LET id == NextId(db.runs)
      row == [id |-> id, at |-> rec.at, with |-> rec.with]
  IN /\ rec.pc = "begun"
     /\ Lock("recorder")
     /\ db' = [db EXCEPT !.runs = @ \cup {row}]
     /\ tx' = db'
     /\ rec' = [rec EXCEPT !.pc = "inserting", !.id = id]
     /\ UNCHANGED <<now, stopping, workerVars, used>>

\* BeginTx and insertCollectionRun, whose insert takes the lock.
InsertRun ==
  LET id == NextId(db.runs)
      row == [id |-> id, at |-> rec.at, with |-> rec.with]
  IN /\ rec.pc = "begun"
     /\ Lock("recorder")
     /\ tx' = [db EXCEPT !.runs = @ \cup {row}]
     /\ rec' = [rec EXCEPT !.pc = "inserting", !.id = id]
     /\ UNCHANGED <<now, stopping, db, workerVars, used>>

\* insertCollectionSamples: the host sample, then the cores.
InsertSample ==
  /\ rec.pc = "inserting"
  /\ \E s \in rec.with \ SamplesOf(tx, rec.id) :
       /\ s = "core" => "host" \in SamplesOf(tx, rec.id)
       /\ tx' = [tx EXCEPT !.samples = @ \cup {[run |-> rec.id, of |-> s]}]
  /\ UNCHANGED <<now, stopping, db, writer, rec, workerVars, used>>

CommitRun ==
  /\ rec.pc = "inserting" /\ rec.with \subseteq SamplesOf(tx, rec.id)
  /\ ~stopping
  /\ Commit
  /\ rec' = NoRecord
  /\ UNCHANGED <<now, stopping, workerVars, used>>

\* validate, a statement or the commit fails, or the lock is not had within
\* busy_timeout; or the context is done.  The run is lost.
RecordFails ==
  /\ rec.pc # "idle"
  /\ \/ stopping /\ UNCHANGED used
     \/ UseUp("failures", MaxFailures)
  /\ Rollback("recorder")
  /\ rec' = NoRecord
  /\ UNCHANGED <<now, stopping, workerVars>>

-----------------------------------------------------------------------------
(***************************************************************************)
(* CleanupExpiredBatches.                                                  *)
(***************************************************************************)

Referenced(d, r) ==
  \/ \E s \in d.samples : s.of = r
  \/ \E e \in d.events : e.of = r

\* Mutant: a resource goes whatever refers to it.
RemovableReferenced(kind) ==
  {x \in tx.resources : Kind[x.id] = kind /\ x.at # Never /\ x.at < cutoff}

\* "observed_at_unix < ?", "ended_at_unix IS NOT NULL AND ended_at_unix < ?"
Old(rows) == {x \in rows : x.at # Never /\ x.at < cutoff}

\* Old resources of a table that no sample and, for containers, no event
\* refers to.
Removable(kind) ==
  {x \in Old(tx.resources) : Kind[x.id] = kind /\ ~Referenced(tx, x.id)}

\* ORDER BY time, id LIMIT BatchSize; the order of equally old rows is left
\* open.
IsBatch(batch, rows) ==
  /\ Cardinality(batch) = IF Cardinality(rows) < BatchSize
                          THEN Cardinality(rows) ELSE BatchSize
  /\ \A x \in batch, y \in rows \ batch : x.at <= y.at

\* A statement has deleted batch; the next one is at to.
Deleted(batch, from, to) ==
  /\ pc = from /\ pc' = to
  /\ more' = (more \/ Cardinality(batch) = BatchSize)
  /\ UNCHANGED <<now, stopping, db, rec, cutoff, batches, outcome, used>>

\* The cleanup returns an error, which runHistoryRetention logs unless its
\* context is done.
GiveUp ==
  /\ pc' = "waiting"
  /\ outcome' = IF stopping THEN "none" ELSE "failed"
  /\ UNCHANGED <<cutoff, batches, more>>

\* cleanup: the cutoff is fixed for all batches.
StartCleanup ==
  /\ pc = "starting" /\ pc' = "beginning"
  /\ cutoff' = now - Retention /\ batches' = 0 /\ more' = FALSE
  /\ outcome' = "none"
  /\ UNCHANGED <<now, stopping, dataVars, rec, used>>

\* Mutant: More looks at the runs alone.
DeleteEventsUncounted ==
  /\ Lock("worker")
  /\ pc = "beginning" /\ pc' = "incidents"
  /\ \E batch \in SUBSET Old(db.events) :
       /\ IsBatch(batch, Old(db.events))
       /\ tx' = [db EXCEPT !.events = @ \ batch]
  /\ UNCHANGED <<now, stopping, db, rec, cutoff, batches, more, outcome, used>>

\* BeginTx and the first statement, which takes the lock.
DeleteEvents ==
  /\ Lock("worker")
  /\ \E batch \in SUBSET Old(db.events) :
       /\ IsBatch(batch, Old(db.events))
       /\ tx' = [db EXCEPT !.events = @ \ batch]
       /\ Deleted(batch, "beginning", "incidents")

DeleteIncidents ==
  /\ \E batch \in SUBSET Old(tx.incidents) :
       /\ IsBatch(batch, Old(tx.incidents))
       /\ tx' = [tx EXCEPT !.incidents = @ \ batch]
       /\ Deleted(batch, "incidents", "runs")
  /\ UNCHANGED writer

\* Mutant: the samples of the deleted runs stay behind.
DeleteRunsAlone ==
  /\ \E batch \in SUBSET Old(tx.runs) :
       /\ IsBatch(batch, Old(tx.runs))
       /\ tx' = [tx EXCEPT !.runs = @ \ batch]
       /\ Deleted(batch, "runs", "filesystems")
  /\ UNCHANGED writer

\* Mutant: the rows go, and their resources later in a transaction of their
\* own.
DeleteRunsCommitting ==
  /\ pc = "runs" /\ pc' = "filesystems"
  /\ \E batch \in SUBSET Old(tx.runs) :
       /\ IsBatch(batch, Old(tx.runs))
       /\ tx' = [tx EXCEPT !.runs = @ \ batch,
                           !.samples = {s \in @ : \A r \in batch : s.run # r.id}]
       /\ more' = (more \/ Cardinality(batch) = BatchSize)
  /\ db' = tx'
  /\ UNCHANGED <<now, stopping, writer, rec, cutoff, batches, outcome, used>>

\* ON DELETE CASCADE takes the samples along.
DeleteRuns ==
  /\ \E batch \in SUBSET Old(tx.runs) :
       /\ IsBatch(batch, Old(tx.runs))
       /\ tx' = [tx EXCEPT !.runs = @ \ batch,
                           !.samples = {s \in @ : \A r \in batch : s.run # r.id}]
       /\ Deleted(batch, "runs", "filesystems")
  /\ UNCHANGED writer

AfterKind(kind) ==
  IF kind = "filesystems" THEN "devices"
  ELSE IF kind = "devices" THEN "containers" ELSE "committing"

\* ON DELETE RESTRICT: the statement fails if something refers to the batch.
DeleteResources(kind) ==
  /\ pc = kind
  /\ \E batch \in SUBSET Removable(kind) :
       /\ IsBatch(batch, Removable(kind))
       /\ IF \E x \in batch : Referenced(tx, x.id)
          THEN /\ Rollback("worker") /\ GiveUp
               /\ UNCHANGED <<now, stopping, rec, used>>
          ELSE /\ tx' = [tx EXCEPT !.resources = @ \ batch]
               /\ Deleted(batch, kind, AfterKind(kind))
               /\ UNCHANGED writer

\* Commit, and CleanupExpiredBatches goes on while there is more, at most
\* MaxBatches times.
CommitBatch ==
  /\ pc = "committing" /\ ~stopping
  /\ Commit
  /\ batches' = batches + 1
  /\ more' = FALSE
  /\ \/ ~more /\ pc' = "waiting" /\ outcome' = "completed"
     \/ /\ more /\ batches + 1 = MaxBatches
        /\ pc' = "waiting" /\ outcome' = "backlog"
     \/ /\ more /\ batches + 1 < MaxBatches
        /\ pc' = "beginning" /\ UNCHANGED outcome
  /\ UNCHANGED <<now, stopping, rec, cutoff, used>>

InCleanup == pc \notin {"starting", "waiting", "stopped"}

\* A statement or the commit fails; the batches committed before it stay.
CleanupFails ==
  /\ InCleanup
  /\ UseUp("failures", MaxFailures)
  /\ Rollback("worker") /\ GiveUp
  /\ UNCHANGED <<now, stopping, rec>>

\* The same because the context is done.
CleanupCancelled ==
  /\ InCleanup /\ stopping
  /\ Rollback("worker") /\ GiveUp
  /\ UNCHANGED <<now, stopping, rec, used>>

-----------------------------------------------------------------------------
(***************************************************************************)
(* runHistoryRetention and the environment.                                *)
(***************************************************************************)

TickerFires ==
  /\ pc = "waiting" /\ pc' = "starting"
  /\ UNCHANGED <<now, stopping, dataVars, rec, cutoff, batches, more, outcome, used>>

\* Mutant: the worker ranges over its ticker and never looks at the context.
StopWorkerNever == pc = "never" /\ UNCHANGED vars

StopWorker ==
  /\ pc = "waiting" /\ stopping /\ pc' = "stopped"
  /\ UNCHANGED <<now, stopping, dataVars, rec, cutoff, batches, more, outcome, used>>

Tick ==
  /\ now < MaxTime /\ now' = now + 1
  /\ UNCHANGED <<stopping, dataVars, rec, workerVars, used>>

Stop ==
  /\ ~stopping /\ stopping' = TRUE
  /\ UNCHANGED <<now, dataVars, rec, workerVars, used>>

\* The process ends, wherever it is, and is started again.
Restart ==
  /\ UseUp("restarts", MaxRestarts)
  /\ stopping' = FALSE
  /\ tx' = db /\ writer' = "none" /\ rec' = NoRecord
  /\ pc' = "starting" /\ cutoff' = now - Retention /\ batches' = 0 /\ more' = FALSE
  /\ outcome' = "none"
  /\ UNCHANGED <<now, db>>

Stopped ==
  /\ pc = "stopped" /\ rec.pc = "idle"
  /\ UNCHANGED vars

-----------------------------------------------------------------------------
RecorderStep == InsertRun \/ InsertSample \/ CommitRun \/ (stopping /\ RecordFails)

CleanupStep ==
  \/ StartCleanup \/ DeleteEvents \/ DeleteIncidents \/ DeleteRuns
  \/ \E kind \in Kinds : DeleteResources(kind)
  \/ CommitBatch \/ CleanupCancelled

Next ==
  \/ StartRun \/ InsertRun \/ InsertSample \/ CommitRun \/ RecordFails
  \/ CleanupStep \/ CleanupFails \/ TickerFires \/ StopWorker
  \/ Tick \/ Stop \/ Restart \/ Stopped

Spec == Init /\ [][Next]_vars

\* Both goroutines run, the ticker ticks, and of two ready cases select takes
\* the context's at some time.
FairSpec ==
  /\ Spec
  /\ WF_vars(RecorderStep) /\ WF_vars(CleanupStep)
  /\ WF_vars(TickerFires) /\ SF_vars(StopWorker)

-----------------------------------------------------------------------------
(***************************************************************************)
(* Properties.                                                             *)
(***************************************************************************)

WorkerPCs == {"starting", "beginning", "incidents", "runs", "filesystems", "devices",
              "containers", "committing", "waiting", "stopped"}

\* The types, the primary key of runs, and the write lock: who holds it is
\* inside of a transaction, and the copy differs from the database only then.
TypeOK ==
  /\ now \in Nat /\ stopping \in BOOLEAN
  /\ db \in Database /\ tx \in Database
  /\ UniqueRuns(db) /\ UniqueRuns(tx)
  /\ writer \in {"none", "recorder", "worker"}
  /\ rec \in [pc : {"idle", "begun", "inserting"}, id : Nat, at : Nat,
              with : SampleChoices]
  /\ pc \in WorkerPCs
  /\ cutoff \in Int /\ batches \in 0 .. MaxBatches /\ more \in BOOLEAN
  /\ outcome \in {"none", "completed", "backlog", "failed"}
  /\ used \in [runs : Nat, failures : Nat, restarts : Nat]
  /\ writer = "recorder" <=> rec.pc = "inserting"
  /\ writer = "worker" <=> InCleanup /\ pc # "beginning"
  /\ writer = "none" => tx = db

\* Whatever is committed obeys the foreign keys: no cleanup, in whichever
\* order it meets runs, samples, events and resources, leaves a row behind
\* that refers to a deleted one.
NoOrphans == References(db)

\* "Either every supplied row commits or none of them does": a run in history
\* has exactly the samples it was recorded with, also when its number was used
\* before by a run that retention has deleted, and after every crash.
RecordedWhole == Whole(db)

\* "Rows older than the cutoff are eligible; rows exactly on the cutoff
\* remain", as do active incidents and resources still present: what leaves
\* the database is older than the retention duration.
UnexpiredKept ==
  [][\A x \in (db.runs \ db'.runs) \cup (db.events \ db'.events)
              \cup (db.incidents \ db'.incidents)
              \cup (db.resources \ db'.resources) :
       x.at # Never /\ x.at < now - Retention]_vars

\* Nothing older than c could be deleted from d.
Clean(d, c) ==
  /\ \A x \in d.runs \cup d.events \cup d.incidents :
       x.at = Never \/ x.at >= c
  /\ \A x \in d.resources :
       x.at = Never \/ x.at >= c \/ Referenced(d, x.id)

\* "history.retention.completed" is logged only when nothing older than the
\* cutoff is left, in any table.
CompletedMeansClean ==
  [][pc # "waiting" /\ pc' = "waiting" /\ outcome' = "completed" =>
       Clean(db', cutoff)]_vars

\* "A remaining backlog is left for the next bounded run": in the end
\* everything expired goes, whatever failed on the way, unless the process is
\* stopped.
ExpiredGoes == []<>(stopping \/ Clean(db, now - Retention))

\* The worker ends when its context is done, also in the middle of a batch.
WorkerStops == stopping ~> (pc = "stopped" \/ ~stopping)
=============================================================================
