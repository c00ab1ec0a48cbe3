-------------------------- MODULE HistoryStore_proofs --------------------------
(****************************************************************************)
(* Proofs about HistoryStore, for every database, retention and batch size. *)
(****************************************************************************)
EXTENDS HistoryRefinement, FiniteSetTheorems, WellFoundedInduction, TLAPS

\* The numbers of the runs have an upper bound, so that one of them is the
\* largest.
Bounded(d) == \E b \in Nat : \A r \in d.runs : r.id <= b

\* What every committed database is.
Good(d) ==
  /\ d \in Database /\ UniqueRuns(d) /\ References(d) /\ Whole(d)
  /\ Finite(d) /\ Bounded(d)

\* The copy of the recorder between its first insert and its commit: the row
\* of its run is there, and lacks samples at most.
Pending(d, id, at, with) ==
  /\ d \in Database /\ UniqueRuns(d) /\ References(d)
  /\ Finite(d) /\ Bounded(d)
  /\ [id |-> id, at |-> at, with |-> with] \in d.runs
  /\ SamplesOf(d, id) \subseteq with
  /\ \A r \in d.runs : r.id # id => SamplesOf(d, r.id) = r.with

-----------------------------------------------------------------------------
(***************************************************************************)
(* The next number of a run is new.                                        *)
(***************************************************************************)

LEMMA MaxOfNaturals ==
  ASSUME NEW S, S \subseteq Nat, S # {}, NEW b \in Nat, \A n \in S : n <= b
  PROVE  Max(S) \in S /\ \A n \in S : n <= Max(S)
<1> DEFINE Bounds == {n \in Nat : \A m \in S : m <= n}
<1>1. PICK x \in Bounds : \A y \in Bounds : ~(<<y, x>> \in OpToRel(<, Nat))
  <2> Bounds # {} /\ Bounds \subseteq Nat
    OBVIOUS
  <2> QED
    BY NatLessThanWellFounded, WFMin
<1>2. x \in Nat /\ \A m \in S : m <= x
  OBVIOUS
<1>3. \A y \in Bounds : ~(y < x)
  BY <1>1, <1>2 DEF OpToRel
<1>4. x \in S
  <2> SUFFICES ASSUME x \notin S PROVE FALSE
    OBVIOUS
  <2>0. \A m \in S : m \in Nat /\ m <= x /\ m # x
    BY <1>2
  <2>1. PICK m \in S : TRUE
    OBVIOUS
  <2>2. m \in Nat /\ m <= x /\ m # x /\ x \in Nat
    BY <2>0, <1>2
  <2>3. x - 1 \in Nat /\ \A k \in S : k <= x - 1
    <3>1. x - 1 \in Nat
      BY <2>2
    <3>2. ASSUME NEW k \in S PROVE k <= x - 1
      <4>1. k \in Nat /\ k <= x /\ k # x /\ x \in Nat
        BY <2>0, <1>2
      <4> QED
        BY <4>1
    <3> QED
      BY <3>1, <3>2
  <2> QED
    BY <1>3, <2>3, <1>2
<1>5. \E z \in S : \A y \in S : z >= y
  BY <1>2, <1>4
<1> QED
  BY <1>5 DEF Max

LEMMA NextIdIsNew ==
  ASSUME NEW d \in Database, Bounded(d)
  PROVE  NextId(d.runs) \in Nat \ {0} /\ \A r \in d.runs : r.id < NextId(d.runs)
<1> DEFINE ids == {r.id : r \in d.runs}
<1>1. \A r \in d.runs : r.id \in Nat \ {0}
  BY DEF Database, Run
<1>2. CASE d.runs = {}
  BY <1>2 DEF NextId
<1>3. CASE d.runs # {}
  <2>1. ids \subseteq Nat /\ ids # {}
    BY <1>1, <1>3
  <2>2. PICK b \in Nat : \A n \in ids : n <= b
    BY DEF Bounded
  <2>3. Max(ids) \in ids /\ \A n \in ids : n <= Max(ids)
    BY <2>1, <2>2, MaxOfNaturals
  <2>4. NextId(d.runs) = Max(ids) + 1
    BY <1>3 DEF NextId
  <2>5. \A r \in d.runs : r.id <= Max(ids) /\ r.id \in Nat /\ Max(ids) \in Nat
    BY <2>1, <2>3
  <2> HIDE DEF ids
  <2> QED
    BY <2>1, <2>3, <2>4, <2>5, <1>3
<1> QED
  BY <1>2, <1>3

-----------------------------------------------------------------------------
(***************************************************************************)
(* What the statements do to a good database.                              *)
(***************************************************************************)

LEMMA InsertRunPends ==
  ASSUME NEW d, Good(d), NEW id, id = NextId(d.runs), NEW at \in Int,
         NEW with \in SUBSET Host
  PROVE  Pending([d EXCEPT !.runs = @ \cup {[id |-> id, at |-> at, with |-> with]}],
                 id, at, with)
<1> DEFINE row == [id |-> id, at |-> at, with |-> with]
           e == [d EXCEPT !.runs = @ \cup {row}]
<1>1. id \in Nat \ {0} /\ \A r \in d.runs : r.id < id
  BY NextIdIsNew DEF Good
<1>2. row \in Run /\ row.id = id
  BY <1>1 DEF Run
<1>3. e \in Database /\ e.runs = d.runs \cup {row} /\ e.samples = d.samples
        /\ e.resources = d.resources /\ e.events = d.events
  BY <1>2 DEF Good, Database
<1>4. \A r \in d.runs : r.id \in Nat \ {0} /\ r.id # id
  BY <1>1 DEF Good, Database, Run
<1>5. SamplesOf(e, id) = {}
  <2>1. \A x \in d.samples : x.run # id
    BY <1>4 DEF Good, References
  <2> QED
    BY <2>1, <1>3 DEF SamplesOf
<1>6. \A r \in d.runs : SamplesOf(e, r.id) = r.with
  BY <1>3 DEF SamplesOf, Good, Whole
<1>7. UniqueRuns(e)
  BY <1>2, <1>3, <1>4 DEF Good, UniqueRuns
<1>8. References(e)
  BY <1>3 DEF Good, References
<1>9. Bounded(e)
  BY <1>1, <1>2, <1>3, <1>4 DEF Bounded
<1>10. Finite(e)
  <2>1. IsFiniteSet(d.runs \cup {row})
    BY FS_AddElement DEF Good, Finite
  <2>2. e.incidents = d.incidents
    BY DEF Good, Database
  <2> QED
    BY <1>3, <2>1, <2>2 DEF Good, Finite
<1> HIDE DEF e, row
<1>11. row \in e.runs /\ \A r \in e.runs : r.id # id => r \in d.runs
  BY <1>2, <1>3
<1>12. Pending(e, id, at, with)
  BY <1>3, <1>5, <1>6, <1>7, <1>8, <1>9, <1>11, <1>10 DEF Pending, row
<1> QED
  BY <1>12 DEF e, row

LEMMA InsertSamplePends ==
  ASSUME NEW id, NEW at, NEW with \in SUBSET Host, NEW d,
         Pending(d, id, at, with), NEW s \in with
  PROVE  Pending([d EXCEPT !.samples = @ \cup {[run |-> id, of |-> s]}],
                 id, at, with)
<1> DEFINE row == [run |-> id, of |-> s]
           e == [d EXCEPT !.samples = @ \cup {row}]
<1>1. PICK r \in d.runs : r.id = id
  BY DEF Pending
<1>2. row \in Sample /\ row.run = id /\ row.of = s
  BY <1>1 DEF Pending, Database, Run, Sample
<1>3. e \in Database /\ e.runs = d.runs /\ e.samples = d.samples \cup {row}
        /\ e.resources = d.resources /\ e.events = d.events
        /\ e.incidents = d.incidents
  BY <1>2 DEF Pending, Database
<1> HIDE DEF e, row
<1>4. SamplesOf(e, id) = SamplesOf(d, id) \cup {s}
  BY <1>2, <1>3 DEF SamplesOf
<1>5. \A x \in d.runs : x.id # id => SamplesOf(e, x.id) = SamplesOf(d, x.id)
  BY <1>2, <1>3 DEF SamplesOf
<1>6. References(e)
  BY <1>1, <1>2, <1>3 DEF Pending, References
<1>7. UniqueRuns(e) /\ Bounded(e) /\ Finite(e)
  BY <1>3 DEF Pending, UniqueRuns, Bounded, Finite
<1>8. Pending(e, id, at, with)
  BY <1>3, <1>4, <1>5, <1>6, <1>7 DEF Pending
<1> QED
  BY <1>8 DEF e, row

LEMMA CompleteIsGood ==
  ASSUME NEW id, NEW at, NEW with, NEW d, Pending(d, id, at, with),
         with \subseteq SamplesOf(d, id)
  PROVE  Good(d)
<1>1. \A r \in d.runs : r.id = id => r.with = with
  BY DEF Pending, UniqueRuns
<1>2. SamplesOf(d, id) = with
  BY DEF Pending
<1>3. Whole(d)
  BY <1>1, <1>2 DEF Pending, Whole
<1> QED
  BY <1>3 DEF Pending, Good

LEMMA DeleteEventsKeeps ==
  ASSUME NEW d, Good(d), NEW batch
  PROVE  Good([d EXCEPT !.events = @ \ batch])
<1> DEFINE e == [d EXCEPT !.events = @ \ batch]
<1>1. e \in Database /\ e.runs = d.runs /\ e.samples = d.samples
        /\ e.resources = d.resources /\ e.events \subseteq d.events
        /\ e.incidents = d.incidents
  BY DEF Good, Database
<1> HIDE DEF e
<1>2. Finite(e)
  BY <1>1, FS_Subset DEF Good, Finite
<1>3. Good(e)
  BY <1>1, <1>2 DEF Good, UniqueRuns, References, Whole, SamplesOf, Bounded
<1> QED
  BY <1>3 DEF e

LEMMA DeleteIncidentsKeeps ==
  ASSUME NEW d, Good(d), NEW batch
  PROVE  Good([d EXCEPT !.incidents = @ \ batch])
<1> DEFINE e == [d EXCEPT !.incidents = @ \ batch]
<1>1. e \in Database /\ e.runs = d.runs /\ e.samples = d.samples
        /\ e.resources = d.resources /\ e.events = d.events
        /\ e.incidents \subseteq d.incidents
  BY DEF Good, Database
<1> HIDE DEF e
<1>2. Finite(e)
  BY <1>1, FS_Subset DEF Good, Finite
<1>3. Good(e)
  BY <1>1, <1>2 DEF Good, UniqueRuns, References, Whole, SamplesOf, Bounded
<1> QED
  BY <1>3 DEF e

LEMMA DeleteRunsKeeps ==
  ASSUME NEW d, Good(d), NEW batch, batch \subseteq d.runs
  PROVE  Good([d EXCEPT !.runs = @ \ batch,
                        !.samples = {s \in @ : \A r \in batch : s.run # r.id}])
<1> DEFINE e == [d EXCEPT !.runs = @ \ batch,
                          !.samples = {s \in @ : \A r \in batch : s.run # r.id}]
<1>1. e \in Database /\ e.runs = d.runs \ batch
        /\ e.samples = {s \in d.samples : \A r \in batch : s.run # r.id}
        /\ e.resources = d.resources /\ e.events = d.events
        /\ e.incidents = d.incidents
  BY DEF Good, Database
<1> HIDE DEF e
<1>2. UniqueRuns(e) /\ Bounded(e) /\ Finite(e)
  BY <1>1, FS_Subset DEF Good, UniqueRuns, Bounded, Finite
<1>3. References(e)
  BY <1>1 DEF Good, References
<1>4. ASSUME NEW r \in e.runs PROVE SamplesOf(e, r.id) = r.with
  <2>1. r \in d.runs /\ \A b \in batch : b.id # r.id
    BY <1>1 DEF Good, UniqueRuns
  <2>2. SamplesOf(e, r.id) = SamplesOf(d, r.id)
    BY <1>1, <2>1 DEF SamplesOf
  <2> QED
    BY <2>1, <2>2 DEF Good, Whole
<1>5. Good(e)
  BY <1>1, <1>2, <1>3, <1>4 DEF Good, Whole
<1> QED
  BY <1>5 DEF e

LEMMA DeleteResourcesKeeps ==
  ASSUME NEW d, Good(d), NEW batch, \A x \in batch : ~Referenced(d, x.id)
  PROVE  Good([d EXCEPT !.resources = @ \ batch])
<1> DEFINE e == [d EXCEPT !.resources = @ \ batch]
<1>1. e \in Database /\ e.runs = d.runs /\ e.samples = d.samples
        /\ e.resources = d.resources \ batch /\ e.events = d.events
        /\ e.incidents = d.incidents
  BY DEF Good, Database
<1> HIDE DEF e
<1>2. References(e)
  BY <1>1 DEF Good, References, Referenced
<1>3. Finite(e)
  BY <1>1, FS_Subset DEF Good, Finite
<1>4. Good(e)
  BY <1>1, <1>2, <1>3 DEF Good, UniqueRuns, Whole, SamplesOf, Bounded
<1> QED
  BY <1>4 DEF e

-----------------------------------------------------------------------------
(***************************************************************************)
(* The inductive invariant: the committed database is good, the worker's   *)
(* copy is good throughout, the recorder's lacks at most samples of its    *)
(* own run.                                                                *)
(***************************************************************************)

CopyInv ==
  /\ writer = "worker" => Good(tx)
  /\ writer = "recorder" => Pending(tx, rec.id, rec.at, rec.with)

IInv ==
  /\ TypeOK
  /\ Good(db)
  /\ CopyInv
  /\ InCleanup => cutoff <= now - Retention /\ batches < MaxBatches

LEMMA InitInv == Init => IInv
<1> SUFFICES ASSUME Init PROVE IInv
  OBVIOUS
<1> USE HistoryAssumption DEF Init
<1>1. Good(db)
  <2>1. db \in Database /\ UniqueRuns(db) /\ References(db) /\ Whole(db)
          /\ Finite(db) /\ (db.runs = {} \/ \E r \in db.runs : \A s \in db.runs : s.id <= r.id)
    OBVIOUS
  <2>2. \A r \in db.runs : r.id \in Nat
    BY <2>1 DEF Database, Run
  <2>3. Bounded(db)
    <3>1. CASE db.runs = {}
      BY <3>1 DEF Bounded
    <3>2. CASE db.runs # {}
      BY <2>1, <2>2, <3>2 DEF Bounded
    <3> QED
      BY <3>1, <3>2
  <2> QED
    BY <2>1, <2>3 DEF Good
<1>2. now \in Nat
  <2>1. MaxTime \in Nat
    OBVIOUS
  <2> QED
    BY <2>1
<1>3. TypeOK
  <2>1. stopping \in BOOLEAN /\ more \in BOOLEAN
    OBVIOUS
  <2>2. rec \in [pc : {"idle", "begun", "inserting"}, id : Nat, at : Nat,
                 with : SampleChoices]
    BY DEF NoRecord, SampleChoices
  <2>3. used \in [runs : Nat, failures : Nat, restarts : Nat] /\ batches \in 0 .. MaxBatches
    OBVIOUS
  <2>4. (writer = "recorder" <=> rec.pc = "inserting")
          /\ (writer = "worker" <=> InCleanup /\ pc # "beginning")
    BY DEF NoRecord, InCleanup
  <2> QED
    BY <1>1, <1>2, <2>1, <2>2, <2>3, <2>4 DEF TypeOK, Good, WorkerPCs
<1>4. CopyInv /\ ~InCleanup
  BY DEF CopyInv, InCleanup
<1> QED
  BY <1>1, <1>3, <1>4 DEF IInv

LEMMA RecordStepInv ==
  IInv /\ (StartRun \/ InsertRun \/ InsertSample \/ CommitRun \/ RecordFails)
    => IInv'
<1> SUFFICES ASSUME IInv,
                    StartRun \/ InsertRun \/ InsertSample \/ CommitRun \/ RecordFails
             PROVE  IInv'
  OBVIOUS
<1> USE DEF IInv, dataVars, workerVars
<1>0. \A w \in SampleChoices : w \in SUBSET Host
  BY DEF SampleChoices, Host
<1>1. CASE StartRun
  <2>1. TypeOK'
    BY <1>1 DEF StartRun, UseUp, TypeOK, InCleanup
  <2>2. writer # "recorder"
    BY <1>1 DEF StartRun, TypeOK
  <2> QED
    BY <1>1, <2>1, <2>2 DEF StartRun, CopyInv, InCleanup
<1>2. CASE InsertRun
  <2> DEFINE id == NextId(db.runs)
             row == [id |-> id, at |-> rec.at, with |-> rec.with]
  <2>1. tx' = [db EXCEPT !.runs = @ \cup {row}] /\ writer = "none"
          /\ writer' = "recorder" /\ rec' = [rec EXCEPT !.pc = "inserting", !.id = id]
          /\ rec.pc = "begun"
    BY <1>2 DEF InsertRun, Lock
  <2>2. rec'.id = id /\ rec'.at = rec.at /\ rec'.with = rec.with
          /\ rec'.pc = "inserting" /\ rec.with \in SUBSET Host /\ rec.at \in Int
    BY <2>1, <1>0 DEF TypeOK
  <2>3. Pending(tx', id, rec.at, rec.with)
    BY <2>1, <2>2, InsertRunPends
  <2>4. id \in Nat
    BY NextIdIsNew DEF Good
  <2>5. TypeOK'
    <3>1. tx' \in Database /\ UniqueRuns(tx')
      BY <2>3 DEF Pending
    <3>2. UNCHANGED <<now, stopping, db, pc, cutoff, batches, more, outcome, used>>
      BY <1>2 DEF InsertRun
    <3>3. rec' \in [pc : {"idle", "begun", "inserting"}, id : Nat, at : Nat,
                    with : SampleChoices]
      BY <2>1, <2>4 DEF TypeOK
    <3> HIDE DEF id, row
    <3> QED
      BY <2>1, <2>2, <3>1, <3>2, <3>3 DEF TypeOK, InCleanup
  <2> HIDE DEF id, row
  <2>6. CopyInv'
    BY <2>1, <2>2, <2>3, <1>2 DEF CopyInv, InsertRun
  <2> QED
    BY <1>2, <2>5, <2>6 DEF InsertRun, InCleanup
<1>3. CASE InsertSample
  <2>1. PICK s \in rec.with \ SamplesOf(tx, rec.id) :
          tx' = [tx EXCEPT !.samples = @ \cup {[run |-> rec.id, of |-> s]}]
    BY <1>3 DEF InsertSample
  <2>2. writer = "recorder" /\ rec.with \in SUBSET Host
    BY <1>3, <1>0 DEF InsertSample, TypeOK
  <2>3. Pending(tx', rec.id, rec.at, rec.with)
    BY <2>1, <2>2, InsertSamplePends DEF CopyInv
  <2>4. TypeOK'
    BY <1>3, <2>2, <2>3 DEF InsertSample, TypeOK, Pending, InCleanup
  <2> QED
    BY <1>3, <2>2, <2>3, <2>4 DEF InsertSample, CopyInv, InCleanup
<1>4. CASE CommitRun
  <2>1. writer = "recorder" /\ db' = tx /\ tx' = tx /\ writer' = "none"
    BY <1>4 DEF CommitRun, TypeOK, Commit
  <2>2. Good(tx)
    BY <1>4, <2>1, CompleteIsGood DEF CommitRun, CopyInv
  <2>3. TypeOK'
    BY <1>4, <2>1, <2>2
       DEF CommitRun, TypeOK, Good, NoRecord, SampleChoices, InCleanup
  <2> QED
    BY <1>4, <2>1, <2>2, <2>3 DEF CommitRun, CopyInv, InCleanup
<1>5. CASE RecordFails
  <2>1. tx' = (IF writer = "recorder" THEN db ELSE tx) /\ db' = db
          /\ writer' = (IF writer = "recorder" THEN "none" ELSE writer)
          /\ rec' = NoRecord
          /\ UNCHANGED <<now, stopping, pc, cutoff, batches, more, outcome>>
    BY <1>5 DEF RecordFails, Rollback
  <2>2. used' \in [runs : Nat, failures : Nat, restarts : Nat]
    BY <1>5 DEF RecordFails, UseUp, TypeOK
  <2>3. TypeOK'
    BY <2>1, <2>2 DEF TypeOK, NoRecord, SampleChoices, InCleanup
  <2> QED
    BY <2>1, <2>3 DEF CopyInv, InCleanup
<1> QED
  BY <1>1, <1>2, <1>3, <1>4, <1>5

\* What the four kinds of deletion have in common.
LEMMA DeletionInv ==
  ASSUME IInv, NEW batch, NEW from, NEW to,
         Deleted(batch, from, to),
         <<from, to>> \in {<<"beginning", "incidents">>, <<"incidents", "runs">>,
            <<"runs", "filesystems">>, <<"filesystems", "devices">>,
            <<"devices", "containers">>, <<"containers", "committing">>},
         writer' = "worker",
         writer = (IF from = "beginning" THEN "none" ELSE "worker"),
         Good(tx')
  PROVE  IInv'
<1> USE DEF IInv, Deleted
<1>1. pc = from /\ pc' = to /\ InCleanup /\ InCleanup' /\ to # "beginning"
        /\ to \in WorkerPCs
  BY DEF InCleanup, WorkerPCs
<1>2. more' \in BOOLEAN
  BY DEF TypeOK
<1>3. rec.pc # "inserting"
  BY <1>1 DEF TypeOK
<1>4. TypeOK'
  <2>1. tx' \in Database /\ UniqueRuns(tx')
    BY DEF Good
  <2>2. UNCHANGED <<now, stopping, db, rec, cutoff, batches, outcome, used>>
    OBVIOUS
  <2> HIDE DEF Deleted
  <2> QED
    BY <1>1, <1>2, <1>3, <2>1, <2>2 DEF TypeOK
<1>5. CopyInv'
  BY DEF CopyInv
<1> QED
  BY <1>1, <1>4, <1>5

LEMMA CleanupStepInv == IInv /\ (CleanupStep \/ CleanupFails) => IInv'
<1> SUFFICES ASSUME IInv, CleanupStep \/ CleanupFails PROVE IInv'
  OBVIOUS
<1> USE DEF IInv, dataVars, workerVars
<1>1. CASE StartCleanup
  <2>1. now - Retention \in Int
    BY HistoryAssumption DEF TypeOK
  <2>2. more' \in BOOLEAN
    BY <1>1 DEF StartCleanup
  <2>3. batches' \in 0 .. MaxBatches /\ batches' < MaxBatches
    BY <1>1, HistoryAssumption DEF StartCleanup
  <2>4. TypeOK'
    BY <1>1, <2>1, <2>2, <2>3 DEF StartCleanup, TypeOK, InCleanup, WorkerPCs
  <2>5. writer # "worker"
    BY <1>1 DEF StartCleanup, TypeOK, InCleanup
  <2> QED
    BY <1>1, <2>1, <2>3, <2>4, <2>5, HistoryAssumption DEF StartCleanup, CopyInv, TypeOK
<1>2. CASE DeleteEvents
  <2>1. PICK batch \in SUBSET Old(db.events) :
          /\ tx' = [db EXCEPT !.events = @ \ batch]
          /\ Deleted(batch, "beginning", "incidents")
    BY <1>2 DEF DeleteEvents
  <2>2. Good(tx')
    BY <2>1, DeleteEventsKeeps
  <2> QED
    BY <1>2, <2>1, <2>2, DeletionInv DEF DeleteEvents, Lock
<1>3. CASE DeleteIncidents
  <2>1. PICK batch \in SUBSET Old(tx.incidents) :
          /\ tx' = [tx EXCEPT !.incidents = @ \ batch]
          /\ Deleted(batch, "incidents", "runs")
    BY <1>3 DEF DeleteIncidents
  <2>2. writer = "worker" /\ writer' = writer
    BY <1>3, <2>1 DEF DeleteIncidents, Deleted, TypeOK, InCleanup
  <2>3. Good(tx')
    BY <2>1, <2>2, DeleteIncidentsKeeps DEF CopyInv
  <2> QED
    BY <2>1, <2>2, <2>3, DeletionInv
<1>4. CASE DeleteRuns
  <2>1. PICK batch \in SUBSET Old(tx.runs) :
          /\ tx' = [tx EXCEPT !.runs = @ \ batch,
                       !.samples = {s \in @ : \A r \in batch : s.run # r.id}]
          /\ Deleted(batch, "runs", "filesystems")
    BY <1>4 DEF DeleteRuns
  <2>2. writer = "worker" /\ writer' = writer
    BY <1>4, <2>1 DEF DeleteRuns, Deleted, TypeOK, InCleanup
  <2>3. Good(tx')
    BY <2>1, <2>2, DeleteRunsKeeps DEF CopyInv, Old
  <2> QED
    BY <2>1, <2>2, <2>3, DeletionInv
<1>5. ASSUME NEW kind \in Kinds, DeleteResources(kind) PROVE IInv'
  <2>1. PICK batch \in SUBSET Removable(kind) :
          IF \E x \in batch : Referenced(tx, x.id)
          THEN /\ Rollback("worker") /\ GiveUp
               /\ UNCHANGED <<now, stopping, rec, used>>
          ELSE /\ tx' = [tx EXCEPT !.resources = @ \ batch]
               /\ Deleted(batch, kind, AfterKind(kind))
               /\ UNCHANGED writer
    BY <1>5 DEF DeleteResources
  <2>2. \A x \in batch : ~Referenced(tx, x.id)
    BY DEF Removable
  <2>3. tx' = [tx EXCEPT !.resources = @ \ batch] /\ writer' = writer
          /\ Deleted(batch, kind, AfterKind(kind)) /\ pc = kind
    BY <2>1, <2>2, <1>5 DEF DeleteResources
  <2>4. writer = "worker"
    BY <2>3 DEF TypeOK, InCleanup, Kinds
  <2>5. Good(tx')
    BY <2>2, <2>3, <2>4, DeleteResourcesKeeps DEF CopyInv
  <2>6. <<kind, AfterKind(kind)>> \in {<<"filesystems", "devices">>,
            <<"devices", "containers">>, <<"containers", "committing">>}
    BY DEF Kinds, AfterKind
  <2> HIDE DEF IInv
  <2>7. kind # "beginning"
    BY DEF Kinds
  <2> QED
    BY <2>3, <2>4, <2>5, <2>6, DeletionInv
<1>6. CASE CommitBatch
  <2>1. writer = "worker" /\ db' = tx /\ tx' = tx /\ writer' = "none"
          /\ rec' = rec /\ now' = now /\ cutoff' = cutoff
    BY <1>6 DEF CommitBatch, Commit, TypeOK, InCleanup
  <2>2. Good(tx)
    BY <2>1 DEF CopyInv
  <2>3. pc' \in {"waiting", "beginning"} /\ InCleanup
          /\ outcome' \in {"none", "completed", "backlog", "failed"}
    BY <1>6 DEF CommitBatch, TypeOK, InCleanup
  <2>4. more' \in BOOLEAN /\ batches' \in 0 .. MaxBatches
    <3>1. more' = FALSE
      BY <1>6 DEF CommitBatch
    <3>2. batches' \in 0 .. MaxBatches
      BY <1>6, <2>3, HistoryAssumption DEF CommitBatch, TypeOK
    <3> QED
      BY <3>1, <3>2
  <2>5. TypeOK'
    BY <1>6, <2>1, <2>2, <2>3, <2>4
       DEF CommitBatch, TypeOK, Good, WorkerPCs, InCleanup
  <2>6. InCleanup' => batches' < MaxBatches
    BY <1>6, HistoryAssumption DEF CommitBatch, InCleanup, TypeOK
  <2> QED
    BY <2>1, <2>2, <2>3, <2>5, <2>6 DEF CopyInv
<1>7. ASSUME Rollback("worker"), GiveUp,
             UNCHANGED <<now, stopping, rec>>, InCleanup,
             used' \in [runs : Nat, failures : Nat, restarts : Nat]
      PROVE  IInv'
  <2>1. tx' = (IF writer = "worker" THEN db ELSE tx) /\ db' = db
          /\ writer' = (IF writer = "worker" THEN "none" ELSE writer)
          /\ UNCHANGED <<now, stopping, rec, cutoff, batches, more>>
          /\ pc' = "waiting" /\ ~InCleanup'
          /\ outcome' \in {"none", "completed", "backlog", "failed"}
    BY <1>7 DEF Rollback, GiveUp, TypeOK, InCleanup
  <2>2. TypeOK'
    BY <1>7, <2>1 DEF TypeOK, WorkerPCs
  <2> QED
    BY <2>1, <2>2 DEF CopyInv
<1>8. CASE CleanupFails
  <2>1. used' \in [runs : Nat, failures : Nat, restarts : Nat]
    BY <1>8 DEF CleanupFails, UseUp, TypeOK
  <2> QED
    BY <1>8, <1>7, <2>1 DEF CleanupFails
<1>9. CASE CleanupCancelled
  BY <1>9, <1>7 DEF CleanupCancelled, TypeOK
<1> QED
  BY <1>1, <1>2, <1>3, <1>4, <1>5, <1>6, <1>8, <1>9 DEF CleanupStep

LEMMA StepInv == IInv /\ [Next]_vars => IInv'
<1> SUFFICES ASSUME IInv, [Next]_vars PROVE IInv'
  OBVIOUS
<1> USE DEF dataVars, workerVars
<1>1. CASE StartRun \/ InsertRun \/ InsertSample \/ CommitRun \/ RecordFails
  BY <1>1, RecordStepInv
<1>2. CASE CleanupStep \/ CleanupFails
  BY <1>2, CleanupStepInv
<1>3. CASE TickerFires
  BY <1>3 DEF TickerFires, IInv, TypeOK, CopyInv, InCleanup, WorkerPCs
<1>4. CASE StopWorker
  BY <1>4 DEF StopWorker, IInv, TypeOK, CopyInv, InCleanup, WorkerPCs
<1>5. CASE Tick
  <2>1. now' \in Nat /\ now <= now'
    BY <1>5 DEF Tick, IInv, TypeOK
  <2>2. TypeOK' /\ CopyInv'
    BY <1>5, <2>1 DEF Tick, IInv, TypeOK, CopyInv, InCleanup
  <2> QED
    BY <1>5, <2>1, <2>2, HistoryAssumption DEF Tick, IInv, TypeOK, InCleanup
<1>6. CASE Stop
  <2>1. stopping' \in BOOLEAN
    BY <1>6 DEF Stop
  <2> QED
    BY <1>6, <2>1 DEF Stop, IInv, TypeOK, CopyInv, InCleanup
<1>7. CASE Restart
  <2>0. stopping' \in BOOLEAN /\ more' \in BOOLEAN
    BY <1>7 DEF Restart
  <2>1. batches' \in 0 .. MaxBatches
    BY <1>7, HistoryAssumption DEF Restart
  <2>2. used' \in [runs : Nat, failures : Nat, restarts : Nat]
    BY <1>7 DEF Restart, UseUp, IInv, TypeOK
  <2>3. TypeOK'
    BY <1>7, <2>0, <2>1, <2>2
       DEF Restart, IInv, TypeOK, NoRecord, SampleChoices, InCleanup, WorkerPCs
  <2> QED
    BY <1>7, <2>3 DEF Restart, IInv, CopyInv, InCleanup
<1>8. CASE UNCHANGED vars \/ Stopped
  BY <1>8 DEF vars, Stopped, IInv, TypeOK, CopyInv, InCleanup
<1> QED
  BY <1>1, <1>2, <1>3, <1>4, <1>5, <1>6, <1>7, <1>8 DEF Next

-----------------------------------------------------------------------------
(***************************************************************************)
(* A batch that was not full has left nothing for its statement to delete. *)
(***************************************************************************)

\* What the statements before pc have emptied while none of them was full.
Swept ==
  /\ Old(tx.events) = {}
  /\ pc # "incidents" => Old(tx.incidents) = {}
  /\ pc \notin {"incidents", "runs"} => Old(tx.runs) = {}
  /\ pc \in {"devices", "containers", "committing"} => Removable("filesystems") = {}
  /\ pc \in {"containers", "committing"} => Removable("devices") = {}
  /\ pc = "committing" => Removable("containers") = {}

SweptInv == writer = "worker" /\ ~more => Swept

LEMMA ShortBatchIsAll ==
  ASSUME NEW table, IsFiniteSet(table), NEW rows \in SUBSET table,
         NEW batch \in SUBSET rows, IsBatch(batch, rows),
         Cardinality(batch) # BatchSize
  PROVE  batch = rows
<1>1. IsFiniteSet(rows)
  BY FS_Subset
<1>2. Cardinality(batch) = Cardinality(rows)
  BY DEF IsBatch
<1> QED
  BY <1>1, <1>2, FS_Subset

LEMMA SweptStep == IInv /\ SweptInv /\ [Next]_vars => SweptInv'
<1> SUFFICES ASSUME IInv, SweptInv, [Next]_vars PROVE SweptInv'
  OBVIOUS
<1> USE DEF SweptInv, dataVars, workerVars
<1>0. more \in BOOLEAN
  BY DEF IInv, TypeOK
<1>1. CASE DeleteEvents
  <2>1. PICK batch \in SUBSET Old(db.events) :
          /\ IsBatch(batch, Old(db.events))
          /\ tx' = [db EXCEPT !.events = @ \ batch]
          /\ Deleted(batch, "beginning", "incidents")
    BY <1>1 DEF DeleteEvents
  <2> SUFFICES ASSUME Cardinality(batch) # BatchSize PROVE Swept'
    BY <2>1 DEF Deleted
  <2>2. batch = Old(db.events)
    BY <2>1, ShortBatchIsAll DEF IInv, Good, Finite, Old
  <2>3. tx'.events = db.events \ batch /\ cutoff' = cutoff /\ pc' = "incidents"
    BY <2>1 DEF Deleted, IInv, Good, Database
  <2> QED
    BY <2>2, <2>3 DEF Swept, Old
<1>2. CASE DeleteIncidents
  <2>1. PICK batch \in SUBSET Old(tx.incidents) :
          /\ IsBatch(batch, Old(tx.incidents))
          /\ tx' = [tx EXCEPT !.incidents = @ \ batch]
          /\ Deleted(batch, "incidents", "runs")
    BY <1>2 DEF DeleteIncidents
  <2>2. writer = "worker"
    BY <2>1 DEF Deleted, IInv, TypeOK, InCleanup
  <2> SUFFICES ASSUME Cardinality(batch) # BatchSize, ~more PROVE Swept'
    BY <2>1, <1>0 DEF Deleted
  <2>3. batch = Old(tx.incidents)
    BY <2>1, <2>2, ShortBatchIsAll DEF IInv, CopyInv, Good, Finite, Old
  <2>4. tx'.incidents = tx.incidents \ batch /\ tx'.events = tx.events
          /\ cutoff' = cutoff /\ pc' = "runs"
    BY <2>1, <2>2 DEF Deleted, IInv, CopyInv, Good, Database
  <2> QED
    BY <2>2, <2>3, <2>4 DEF Swept, Old
<1>3. CASE DeleteRuns
  <2>1. PICK batch \in SUBSET Old(tx.runs) :
          /\ IsBatch(batch, Old(tx.runs))
          /\ tx' = [tx EXCEPT !.runs = @ \ batch,
                       !.samples = {s \in @ : \A r \in batch : s.run # r.id}]
          /\ Deleted(batch, "runs", "filesystems")
    BY <1>3 DEF DeleteRuns
  <2>2. writer = "worker" /\ pc = "runs"
    BY <2>1 DEF Deleted, IInv, TypeOK, InCleanup
  <2> SUFFICES ASSUME Cardinality(batch) # BatchSize, ~more PROVE Swept'
    BY <2>1, <1>0 DEF Deleted
  <2>3. batch = Old(tx.runs)
    BY <2>1, <2>2, ShortBatchIsAll DEF IInv, CopyInv, Good, Finite, Old
  <2>4. tx'.runs = tx.runs \ batch /\ tx'.events = tx.events
          /\ tx'.incidents = tx.incidents /\ cutoff' = cutoff /\ pc' = "filesystems"
    BY <2>1, <2>2 DEF Deleted, IInv, CopyInv, Good, Database
  <2> QED
    BY <2>2, <2>3, <2>4 DEF Swept, Old
<1>4. ASSUME NEW kind \in Kinds, DeleteResources(kind) PROVE SweptInv'
  <2>1. PICK batch \in SUBSET Removable(kind) :
          /\ IsBatch(batch, Removable(kind))
          /\ IF \E x \in batch : Referenced(tx, x.id)
             THEN /\ Rollback("worker") /\ GiveUp
                  /\ UNCHANGED <<now, stopping, rec, used>>
             ELSE /\ tx' = [tx EXCEPT !.resources = @ \ batch]
                  /\ Deleted(batch, kind, AfterKind(kind))
                  /\ UNCHANGED writer
    BY <1>4 DEF DeleteResources
  <2>2. \A x \in batch : ~Referenced(tx, x.id)
    BY DEF Removable
  <2>3. tx' = [tx EXCEPT !.resources = @ \ batch]
          /\ Deleted(batch, kind, AfterKind(kind)) /\ pc = kind
    BY <2>1, <2>2, <1>4 DEF DeleteResources
  <2>4. writer = "worker"
    BY <2>3 DEF IInv, TypeOK, InCleanup, Kinds
  <2> SUFFICES ASSUME Cardinality(batch) # BatchSize, ~more PROVE Swept'
    BY <2>3, <1>0 DEF Deleted
  <2>5. batch = Removable(kind)
    BY <2>1, <2>4, ShortBatchIsAll DEF IInv, CopyInv, Good, Finite, Removable, Old
  <2>6. tx'.resources = tx.resources \ batch /\ tx'.runs = tx.runs
          /\ tx'.events = tx.events /\ tx'.samples = tx.samples
          /\ tx'.incidents = tx.incidents /\ cutoff' = cutoff /\ pc' = AfterKind(kind)
    BY <2>3, <2>4 DEF Deleted, IInv, CopyInv, Good, Database
  <2>7. \A k \in Kinds : Removable(k)' = Removable(k) \ batch
    BY <2>6 DEF Removable, Old, Referenced
  <2>8. Old(tx.events)' = Old(tx.events) /\ Old(tx.incidents)' = Old(tx.incidents)
          /\ Old(tx.runs)' = Old(tx.runs)
    BY <2>6 DEF Old
  <2>9. Swept
    BY <2>4
  <2> QED
    BY <2>3, <2>5, <2>6, <2>7, <2>8, <2>9 DEF Swept, AfterKind, Kinds
<1>5. CASE writer' # "worker"
  BY <1>5
<1>6. CASE UNCHANGED <<tx, writer, pc, cutoff, more>>
  BY <1>6 DEF Swept, Old, Removable
<1>7. CASE InsertRun \/ InsertSample \/ CommitRun \/ CommitBatch \/ Restart
  <2>1. writer' # "worker"
    BY <1>7 DEF InsertRun, InsertSample, CommitRun, CommitBatch, Restart, Lock, Commit,
                IInv, TypeOK
  <2> QED
    BY <2>1
<1>8. CASE RecordFails
  BY <1>8, <1>5, <1>6 DEF RecordFails, Rollback
<1>9. CASE CleanupFails \/ CleanupCancelled
  BY <1>9, <1>5 DEF CleanupFails, CleanupCancelled, Rollback
<1>10. CASE StartCleanup \/ TickerFires \/ StopWorker
  <2>1. writer' # "worker"
    BY <1>10 DEF StartCleanup, TickerFires, StopWorker, IInv, TypeOK, InCleanup
  <2> QED
    BY <2>1
<1>11. CASE StartRun \/ Tick \/ Stop \/ Stopped \/ UNCHANGED vars
  BY <1>11, <1>6 DEF StartRun, Tick, Stop, Stopped, vars
<1> QED
  BY <1>1, <1>2, <1>3, <1>4, <1>7, <1>8, <1>9, <1>10, <1>11 DEF Next, CleanupStep

LEMMA SweptIsClean ==
  ASSUME IInv, SweptInv, writer = "worker", ~more, pc = "committing"
  PROVE  Clean(tx, cutoff)
<1>1. Swept
  BY DEF SweptInv
<1>2. tx \in Database /\ cutoff \in Int
  BY DEF IInv, TypeOK
<1>3. ASSUME NEW x \in tx.runs \cup tx.events \cup tx.incidents
      PROVE  x.at = Never \/ x.at >= cutoff
  <2>1. x.at = Never \/ x.at \in Int
    BY <1>2 DEF Database, Run, StateEvent, Incident
  <2>2. x.at = Never \/ ~(x.at < cutoff)
    BY <1>1 DEF Swept, Old
  <2> QED
    BY <2>1, <2>2, <1>2
<1>4. ASSUME NEW x \in tx.resources
      PROVE  x.at = Never \/ x.at >= cutoff \/ Referenced(tx, x.id)
  <2>1. (x.at = Never \/ x.at \in Int) /\ x.id \in Resources
    BY <1>2 DEF Database, Resource
  <2>2. Kind[x.id] \in Kinds
    BY <2>1, HistoryAssumption
  <2>3. x \notin Removable(Kind[x.id])
    BY <1>1, <2>2 DEF Swept, Kinds
  <2> QED
    BY <2>1, <2>3, <1>2 DEF Removable, Old
<1> QED
  BY <1>3, <1>4 DEF Clean

-----------------------------------------------------------------------------
(***************************************************************************)
(* The theorems.                                                           *)
(***************************************************************************)

LEMMA Invariance == Spec => [](IInv /\ SweptInv)
<1>1. Init => IInv /\ SweptInv
  BY InitInv DEF Init, SweptInv
<1>2. IInv /\ SweptInv /\ [Next]_vars => (IInv /\ SweptInv)'
  BY StepInv, SweptStep
<1> QED
  BY <1>1, <1>2, PTL DEF Spec

\* Only a commit changes what readers see, only a tick the clock, and a cutoff
\* is fixed by the clock.
LEMMA WhoCommits ==
  ASSUME [Next]_vars
  PROVE  \/ CommitRun
         \/ CommitBatch
         \/ Tick
         \/ /\ db' = db /\ now' = now
            /\ cutoff' \in {cutoff, now - Retention}
<1> USE DEF dataVars, workerVars
<1>1. CASE StartRun \/ InsertRun \/ InsertSample \/ RecordFails
  BY <1>1 DEF StartRun, InsertRun, InsertSample, RecordFails, Rollback
<1>2. CASE StartCleanup \/ DeleteEvents \/ DeleteIncidents \/ DeleteRuns
  BY <1>2 DEF StartCleanup, DeleteEvents, DeleteIncidents, DeleteRuns, Deleted
<1>3. ASSUME NEW kind \in Kinds, DeleteResources(kind)
      PROVE  UNCHANGED <<db, now, cutoff>>
  BY <1>3 DEF DeleteResources, Deleted, Rollback, GiveUp
<1>4. CASE CleanupFails \/ CleanupCancelled
  BY <1>4 DEF CleanupFails, CleanupCancelled, Rollback, GiveUp
<1>5. CASE TickerFires \/ StopWorker \/ Stop \/ Restart \/ Stopped \/ UNCHANGED vars
  BY <1>5 DEF TickerFires, StopWorker, Stop, Restart, Stopped, vars
<1> QED
  BY <1>1, <1>2, <1>3, <1>4, <1>5 DEF Next, CleanupStep

\* Type correctness, with the primary key of runs and the discipline of the
\* write lock, for every database, retention and batch size.
THEOREM HistoryTypeCorrect == Spec => []TypeOK
<1>1. IInv => TypeOK
  BY DEF IInv
<1> QED
  BY <1>1, Invariance, PTL

\* The foreign keys hold in every committed database.
THEOREM HistoryHasNoOrphans == Spec => []NoOrphans
<1>1. IInv => NoOrphans
  BY DEF IInv, Good, NoOrphans
<1> QED
  BY <1>1, Invariance, PTL

\* Runs are in history with all of their samples or not at all.
THEOREM RunsAreWhole == Spec => []RecordedWhole
<1>1. IInv => RecordedWhole
  BY DEF IInv, Good, RecordedWhole
<1> QED
  BY <1>1, Invariance, PTL

\* A cleanup that reports completion has left nothing it could have deleted,
\* for every batch size and limit of batches.
THEOREM CompletedIsClean == Spec => CompletedMeansClean
<1>1. IInv /\ SweptInv /\ [Next]_vars =>
        [pc # "waiting" /\ pc' = "waiting" /\ outcome' = "completed" =>
           Clean(db', cutoff)]_vars
  <2> SUFFICES ASSUME IInv, SweptInv, [Next]_vars,
                      pc # "waiting", pc' = "waiting", outcome' = "completed"
               PROVE  Clean(db', cutoff)
    OBVIOUS
  <2> USE DEF dataVars, workerVars
  <2>1. CASE CommitBatch
    <3>1. db' = tx /\ writer = "worker" /\ pc = "committing"
      BY <2>1 DEF CommitBatch, Commit, IInv, TypeOK, InCleanup
    <3>2. ~more
      BY <2>1 DEF CommitBatch
    <3> QED
      BY <3>1, <3>2, SweptIsClean
  <2>2. CASE StartRun \/ InsertRun \/ InsertSample \/ CommitRun \/ RecordFails
    BY <2>2 DEF StartRun, InsertRun, InsertSample, CommitRun, RecordFails
  <2>3. CASE StartCleanup \/ DeleteEvents \/ DeleteIncidents \/ DeleteRuns
    BY <2>3 DEF StartCleanup, DeleteEvents, DeleteIncidents, DeleteRuns, Deleted
  <2>4. ASSUME NEW kind \in Kinds, DeleteResources(kind) PROVE FALSE
    BY <2>4 DEF DeleteResources, Deleted, GiveUp, AfterKind
  <2>5. CASE CleanupFails \/ CleanupCancelled
    BY <2>5 DEF CleanupFails, CleanupCancelled, GiveUp
  <2>6. CASE TickerFires \/ StopWorker \/ Tick \/ Stop \/ Restart \/ Stopped
                \/ UNCHANGED vars
    BY <2>6 DEF TickerFires, StopWorker, Tick, Stop, Restart, Stopped, vars
  <2> QED
    BY <2>1, <2>2, <2>3, <2>4, <2>5, <2>6 DEF Next, CleanupStep
<1> QED
  BY <1>1, Invariance, PTL DEF Spec, CompletedMeansClean

-----------------------------------------------------------------------------
(***************************************************************************)
(* The store implements HistoryTables.  While it holds the write lock, the *)
(* recorder's copy is the database and its own run so far, and the         *)
(* worker's is the database without a batch of each table that its         *)
(* statements have been at.                                                *)
(***************************************************************************)

Adds(d, e, id, at, with) ==
  /\ \A r \in d.runs : r.id < id
  /\ e.runs = d.runs \cup {[id |-> id, at |-> at, with |-> with]}
  /\ e.samples = d.samples \cup {[run |-> id, of |-> s] : s \in SamplesOf(e, id)}
  /\ e.resources = d.resources /\ e.events = d.events /\ e.incidents = d.incidents

RecorderInv ==
  /\ rec.pc # "idle" => rec.at <= now
  /\ writer = "recorder" => Adds(db, tx, rec.id, rec.at, rec.with)

Aged(rows, c) == {x \in rows : x.at # Never /\ x.at < c}

\* Tables!IsBatch, for the cutoff c.
Taken(gone, rows, c) ==
  /\ gone \subseteq Aged(rows, c)
  /\ \/ gone = Aged(rows, c) /\ Cardinality(gone) <= BatchSize
     \/ Cardinality(gone) = BatchSize
  /\ \A x \in gone, y \in Aged(rows, c) \ gone : x.at <= y.at

GoneOf(kind, d, e) == {x \in d.resources \ e.resources : Kind[x.id] = kind}
FreeOf(kind, d, e) == {x \in d.resources : Kind[x.id] = kind /\ ~Referenced(e, x.id)}

\* The places before the statement for a table of resources has run.
Before(kind) ==
  {"incidents", "runs", "filesystems", kind}
    \cup IF kind = "containers" THEN {"devices"} ELSE {}

\* What e is, at the place at of the cleanup, to the database d: the tables
\* before at have lost their batch, the others nothing.
Takes(d, e, c, at) ==
  /\ e.events \subseteq d.events /\ Taken(d.events \ e.events, d.events, c)
  /\ e.incidents \subseteq d.incidents
  /\ IF at = "incidents" THEN e.incidents = d.incidents
     ELSE Taken(d.incidents \ e.incidents, d.incidents, c)
  /\ e.runs \subseteq d.runs
  /\ IF at \in {"incidents", "runs"} THEN e.runs = d.runs
     ELSE Taken(d.runs \ e.runs, d.runs, c)
  /\ e.samples = {s \in d.samples : \E r \in e.runs : r.id = s.run}
  /\ e.resources \subseteq d.resources
  /\ \A kind \in Kinds :
       IF at \in Before(kind) THEN GoneOf(kind, d, e) = {}
       ELSE Taken(GoneOf(kind, d, e), FreeOf(kind, d, e), c)

WorkerInv == writer = "worker" => Takes(db, tx, cutoff, pc)

\* A statement takes a batch: it leaves rows of its kind only when it is full.
LEMMA BatchIsTaken ==
  ASSUME NEW rows, IsFiniteSet(rows),
         NEW batch \in SUBSET Old(rows), IsBatch(batch, Old(rows))
  PROVE  Taken(batch, rows, cutoff)
<1>1. Old(rows) = Aged(rows, cutoff) /\ Old(rows) \in SUBSET rows
  BY DEF Old, Aged
<1>2. Cardinality(Old(rows)) \in Nat /\ BatchSize \in Nat
  BY <1>1, FS_Subset, FS_CardinalityType, HistoryAssumption
<1>3. Cardinality(batch) <= BatchSize
  BY <1>2 DEF IsBatch
<1>4. Cardinality(batch) # BatchSize => batch = Old(rows)
  BY <1>1, ShortBatchIsAll
<1>5. \A x \in batch, y \in Old(rows) \ batch : x.at <= y.at
  BY DEF IsBatch
<1> QED
  BY <1>1, <1>3, <1>4, <1>5 DEF Taken

LEMMA RecorderInvStep == IInv /\ RecorderInv /\ [Next]_vars => RecorderInv'
<1> SUFFICES ASSUME IInv, RecorderInv, [Next]_vars PROVE RecorderInv'
  OBVIOUS
<1> USE DEF dataVars, workerVars
<1>0. /\ TypeOK /\ Good(db) /\ now \in Nat /\ rec.at \in Nat
      /\ rec.pc \in {"idle", "begun", "inserting"}
  BY DEF IInv, TypeOK
<1>1. CASE StartRun
  BY <1>0, <1>1 DEF StartRun, RecorderInv, TypeOK
<1>2. CASE InsertRun
  <2> DEFINE id == NextId(db.runs)
             row == [id |-> id, at |-> rec.at, with |-> rec.with]
  <2>1. /\ tx' = [db EXCEPT !.runs = @ \cup {row}] /\ db' = db /\ now' = now
        /\ rec' = [rec EXCEPT !.pc = "inserting", !.id = id] /\ rec.pc = "begun"
    BY <1>2 DEF InsertRun
  <2>2. rec'.id = id /\ rec'.at = rec.at /\ rec'.with = rec.with
    BY <1>0, <2>1 DEF TypeOK
  <2>3. id \in Nat \ {0} /\ \A r \in db.runs : r.id < id /\ r.id \in Nat
    BY <1>0, NextIdIsNew DEF Good, Database, Run
  <2>4. /\ tx'.runs = db.runs \cup {row} /\ tx'.samples = db.samples
        /\ tx'.resources = db.resources /\ tx'.events = db.events
        /\ tx'.incidents = db.incidents
    BY <1>0, <2>1 DEF TypeOK, Database
  <2> HIDE DEF id
  <2>5. \A x \in db.samples : x.run # id
    BY <1>0, <2>3 DEF Good, References
  <2>6. SamplesOf(tx', id) = {}
    BY <2>4, <2>5 DEF SamplesOf
  <2>7. Adds(db, tx', id, rec.at, rec.with)
    BY <2>3, <2>4, <2>6 DEF Adds
  <2> QED
    BY <1>0, <2>1, <2>2, <2>7 DEF RecorderInv
<1>3. CASE InsertSample
  <2>1. PICK s \in rec.with \ SamplesOf(tx, rec.id) :
          tx' = [tx EXCEPT !.samples = @ \cup {[run |-> rec.id, of |-> s]}]
    BY <1>3 DEF InsertSample
  <2>2. writer = "recorder" /\ UNCHANGED <<now, db, rec, writer>>
    BY <1>0, <1>3 DEF InsertSample, TypeOK
  <2>3. /\ tx'.runs = tx.runs
        /\ tx'.samples = tx.samples \cup {[run |-> rec.id, of |-> s]}
        /\ tx'.resources = tx.resources /\ tx'.events = tx.events
        /\ tx'.incidents = tx.incidents
    BY <1>0, <2>1 DEF TypeOK, Database
  <2>4. SamplesOf(tx', rec.id) = SamplesOf(tx, rec.id) \cup {s}
    <3> DEFINE row == [run |-> rec.id, of |-> s]
    <3>1. row.run = rec.id /\ row.of = s /\ tx'.samples = tx.samples \cup {row}
      BY <2>3
    <3> HIDE DEF row
    <3> QED
      BY <3>1 DEF SamplesOf
  <2>5. Adds(db, tx, rec.id, rec.at, rec.with)
    BY <2>2 DEF RecorderInv
  <2>6. Adds(db, tx', rec.id, rec.at, rec.with)
    BY <2>3, <2>4, <2>5 DEF Adds
  <2> QED
    BY <2>2, <2>6 DEF RecorderInv
<1>4. CASE CommitRun \/ RecordFails \/ Restart
  <2>1. rec'.pc = "idle" /\ writer' # "recorder"
    BY <1>0, <1>4 DEF CommitRun, RecordFails, Restart, Commit, Rollback, NoRecord, TypeOK
  <2> QED
    BY <2>1 DEF RecorderInv
<1>5. CASE Tick
  <2>1. now <= now' /\ now' \in Nat /\ UNCHANGED <<db, tx, writer, rec>>
    BY <1>0, <1>5 DEF Tick
  <2> QED
    BY <1>0, <2>1 DEF RecorderInv
<1>6. ASSUME UNCHANGED <<now, rec>>,
             writer' = "recorder" => writer = "recorder" /\ UNCHANGED <<db, tx>>
      PROVE  RecorderInv'
  BY <1>6 DEF RecorderInv
<1>7. CASE StartCleanup \/ TickerFires \/ StopWorker \/ Stop \/ Stopped \/ UNCHANGED vars
  BY <1>6, <1>7 DEF StartCleanup, TickerFires, StopWorker, Stop, Stopped, vars
<1>8. CASE DeleteEvents \/ DeleteIncidents \/ DeleteRuns
  <2>1. writer' = "worker" /\ UNCHANGED <<now, rec>>
    BY <1>0, <1>8 DEF DeleteEvents, DeleteIncidents, DeleteRuns, Deleted, Lock, TypeOK,
                      InCleanup
  <2> QED
    BY <1>6, <2>1
<1>9. ASSUME NEW kind \in Kinds, DeleteResources(kind) PROVE RecorderInv'
  <2>1. writer = "worker"
    BY <1>0, <1>9 DEF DeleteResources, Kinds, TypeOK, InCleanup
  <2>2. writer' # "recorder" /\ UNCHANGED <<now, rec>>
    BY <1>9, <2>1 DEF DeleteResources, Deleted, Rollback
  <2> QED
    BY <1>6, <2>2
<1>10. CASE CommitBatch \/ CleanupFails \/ CleanupCancelled
  BY <1>6, <1>10 DEF CommitBatch, CleanupFails, CleanupCancelled, Commit, Rollback
<1> QED
  BY <1>1, <1>2, <1>3, <1>4, <1>5, <1>7, <1>8, <1>9, <1>10 DEF Next, CleanupStep

LEMMA EventsTaken ==
  ASSUME IInv, DeleteEvents
  PROVE  WorkerInv'
<1> USE DEF dataVars, workerVars
<1>1. PICK batch \in SUBSET Old(db.events) :
        /\ IsBatch(batch, Old(db.events))
        /\ tx' = [db EXCEPT !.events = @ \ batch]
        /\ Deleted(batch, "beginning", "incidents")
  BY DEF DeleteEvents
<1>2. db \in Database /\ cutoff \in Int /\ Good(db)
  BY DEF IInv, TypeOK
<1>3. /\ tx'.events = db.events \ batch /\ tx'.incidents = db.incidents
      /\ tx'.runs = db.runs /\ tx'.samples = db.samples
      /\ tx'.resources = db.resources
      /\ UNCHANGED <<db, cutoff>> /\ pc' = "incidents"
  BY <1>1, <1>2 DEF Database, Deleted
<1>4. batch \subseteq db.events
  BY DEF Old
<1>5. Taken(batch, db.events, cutoff)
  BY <1>1, <1>2, BatchIsTaken DEF Good, Finite
<1>6. db.samples = {s \in db.samples : \E r \in db.runs : r.id = s.run}
  BY <1>2 DEF Good, References
<1>7. ASSUME NEW kind \in Kinds
      PROVE  "incidents" \in Before(kind) /\ GoneOf(kind, db, tx') = {}
  BY <1>3 DEF GoneOf, Before
<1>8. db.events \ tx'.events = batch
  BY <1>3, <1>4
<1>9. Takes(db, tx', cutoff, "incidents")
  BY <1>3, <1>5, <1>6, <1>7, <1>8 DEF Takes
<1> QED
  BY <1>3, <1>9 DEF WorkerInv

LEMMA IncidentsTaken ==
  ASSUME IInv, WorkerInv, DeleteIncidents
  PROVE  WorkerInv'
<1> USE DEF dataVars, workerVars
<1>1. PICK batch \in SUBSET Old(tx.incidents) :
        /\ IsBatch(batch, Old(tx.incidents))
        /\ tx' = [tx EXCEPT !.incidents = @ \ batch]
        /\ Deleted(batch, "incidents", "runs")
  BY DEF DeleteIncidents
<1>2. writer = "worker" /\ pc = "incidents"
  BY <1>1 DEF Deleted, IInv, TypeOK, InCleanup
<1>3. Takes(db, tx, cutoff, "incidents") /\ Good(tx) /\ cutoff \in Int /\ tx \in Database
  BY <1>2 DEF WorkerInv, IInv, CopyInv, TypeOK
<1>4. /\ tx'.incidents = tx.incidents \ batch /\ tx'.events = tx.events
      /\ tx'.runs = tx.runs /\ tx'.samples = tx.samples
      /\ tx'.resources = tx.resources
      /\ UNCHANGED <<db, cutoff>> /\ pc' = "runs"
  BY <1>1, <1>3 DEF Database, Deleted
<1>5. Taken(batch, tx.incidents, cutoff)
  BY <1>1, <1>3, BatchIsTaken DEF Good, Finite
<1>6. tx.incidents = db.incidents /\ batch \subseteq tx.incidents
  BY <1>3 DEF Takes, Old
<1>7. db.incidents \ tx'.incidents = batch
  BY <1>4, <1>6
<1>8. ASSUME NEW kind \in Kinds
      PROVE  "runs" \in Before(kind) /\ GoneOf(kind, db, tx') = {}
  <2>1. GoneOf(kind, db, tx) = {}
    BY <1>3 DEF Takes, Before
  <2> QED
    BY <1>4, <2>1 DEF GoneOf, Before
<1>9. Takes(db, tx', cutoff, "runs")
  BY <1>3, <1>4, <1>5, <1>6, <1>7, <1>8 DEF Takes
<1> QED
  BY <1>4, <1>9 DEF WorkerInv

LEMMA RunsTaken ==
  ASSUME IInv, WorkerInv, DeleteRuns
  PROVE  WorkerInv'
<1> USE DEF dataVars, workerVars
<1>1. PICK batch \in SUBSET Old(tx.runs) :
        /\ IsBatch(batch, Old(tx.runs))
        /\ tx' = [tx EXCEPT !.runs = @ \ batch,
                     !.samples = {s \in @ : \A r \in batch : s.run # r.id}]
        /\ Deleted(batch, "runs", "filesystems")
  BY DEF DeleteRuns
<1>2. writer = "worker" /\ pc = "runs"
  BY <1>1 DEF Deleted, IInv, TypeOK, InCleanup
<1>3. Takes(db, tx, cutoff, "runs") /\ Good(tx) /\ cutoff \in Int /\ tx \in Database
  BY <1>2 DEF WorkerInv, IInv, CopyInv, TypeOK
<1>4. /\ tx'.incidents = tx.incidents /\ tx'.events = tx.events
      /\ tx'.runs = tx.runs \ batch
      /\ tx'.samples = {s \in tx.samples : \A r \in batch : s.run # r.id}
      /\ tx'.resources = tx.resources
      /\ UNCHANGED <<db, cutoff>> /\ pc' = "filesystems"
  BY <1>1, <1>3 DEF Database, Deleted
<1>5. Taken(batch, tx.runs, cutoff)
  BY <1>1, <1>3, BatchIsTaken DEF Good, Finite
<1>6. tx.runs = db.runs /\ batch \subseteq tx.runs
  BY <1>3 DEF Takes, Old
<1>7. db.runs \ tx'.runs = batch
  BY <1>4, <1>6
<1>8. tx'.samples = {s \in db.samples : \E r \in tx'.runs : r.id = s.run}
  <2>1. tx.samples = {s \in db.samples : \E r \in tx.runs : r.id = s.run}
    BY <1>3 DEF Takes
  <2>2. \A r, q \in tx.runs : r.id = q.id => r = q
    BY <1>3 DEF Good, UniqueRuns
  <2> QED
    BY <1>4, <1>6, <2>1, <2>2
<1>9. ASSUME NEW kind \in Kinds
      PROVE  "filesystems" \in Before(kind) /\ GoneOf(kind, db, tx') = {}
  <2>1. GoneOf(kind, db, tx) = {}
    BY <1>3 DEF Takes, Before
  <2> QED
    BY <1>4, <2>1 DEF GoneOf, Before
<1>10. Takes(db, tx', cutoff, "filesystems")
  BY <1>3, <1>4, <1>5, <1>6, <1>7, <1>8, <1>9 DEF Takes
<1> QED
  BY <1>4, <1>10 DEF WorkerInv

LEMMA ResourcesTaken ==
  ASSUME IInv, WorkerInv, NEW kind \in Kinds, DeleteResources(kind)
  PROVE  WorkerInv'
<1> USE DEF dataVars, workerVars
<1>1. PICK batch \in SUBSET Removable(kind) :
        /\ IsBatch(batch, Removable(kind))
        /\ IF \E x \in batch : Referenced(tx, x.id)
           THEN /\ Rollback("worker") /\ GiveUp
                /\ UNCHANGED <<now, stopping, rec, used>>
           ELSE /\ tx' = [tx EXCEPT !.resources = @ \ batch]
                /\ Deleted(batch, kind, AfterKind(kind))
                /\ UNCHANGED writer
  BY DEF DeleteResources
<1>2. \A x \in batch : ~Referenced(tx, x.id)
  BY DEF Removable
<1>3. /\ tx' = [tx EXCEPT !.resources = @ \ batch]
      /\ Deleted(batch, kind, AfterKind(kind)) /\ pc = kind
  BY <1>1, <1>2 DEF DeleteResources
<1>4. writer = "worker"
  BY <1>3 DEF IInv, TypeOK, InCleanup, Kinds
<1>5. Takes(db, tx, cutoff, kind) /\ Good(tx) /\ cutoff \in Int /\ tx \in Database
      /\ db \in Database
  BY <1>3, <1>4 DEF WorkerInv, IInv, CopyInv, TypeOK
<1>6. /\ tx'.incidents = tx.incidents /\ tx'.events = tx.events
      /\ tx'.runs = tx.runs /\ tx'.samples = tx.samples
      /\ tx'.resources = tx.resources \ batch
      /\ UNCHANGED <<db, cutoff>> /\ pc' = AfterKind(kind)
  BY <1>3, <1>5 DEF Database, Deleted
<1>7. \A k \in Kinds : FreeOf(k, db, tx') = FreeOf(k, db, tx)
  BY <1>6 DEF FreeOf, Referenced
<1>8. GoneOf(kind, db, tx) = {}
  BY <1>5 DEF Takes, Before
<1>9. Removable(kind) = Old(FreeOf(kind, db, tx))
  <2>1. tx.resources \subseteq db.resources
    BY <1>5 DEF Takes
  <2>2. \A x \in db.resources : Kind[x.id] = kind => x \in tx.resources
    BY <1>8 DEF GoneOf
  <2> QED
    BY <2>1, <2>2 DEF Removable, Old, FreeOf
<1>10. Taken(batch, FreeOf(kind, db, tx), cutoff)
  <2>1. IsFiniteSet(FreeOf(kind, db, tx))
    BY FS_Subset DEF IInv, Good, Finite, FreeOf
  <2> QED
    BY <1>1, <1>9, <2>1, BatchIsTaken
<1>11. GoneOf(kind, db, tx') = batch
  <2>1. batch \subseteq FreeOf(kind, db, tx)
    BY <1>10 DEF Taken, Aged
  <2>2. \A x \in batch : x \in db.resources /\ Kind[x.id] = kind
    BY <2>1 DEF FreeOf
  <2> QED
    BY <1>6, <1>8, <2>2 DEF GoneOf
<1>12. ASSUME NEW k \in Kinds, k # kind PROVE GoneOf(k, db, tx') = GoneOf(k, db, tx)
  <2>1. \A x \in batch : Kind[x.id] = kind
    BY DEF Removable
  <2> QED
    BY <1>6, <1>12, <2>1 DEF GoneOf
<1>13. ASSUME NEW k \in Kinds, k # kind
       PROVE  AfterKind(kind) \in Before(k) <=> kind \in Before(k)
  BY <1>13 DEF Before, AfterKind, Kinds
<1>14. /\ AfterKind(kind) \notin {"incidents", "runs"} \cup Before(kind)
       /\ kind \notin {"incidents", "runs"}
  BY DEF AfterKind, Before, Kinds
<1>15. ASSUME NEW k \in Kinds
       PROVE  IF AfterKind(kind) \in Before(k) THEN GoneOf(k, db, tx') = {}
              ELSE Taken(GoneOf(k, db, tx'), FreeOf(k, db, tx'), cutoff)
  <2>1. CASE k = kind
    BY <1>7, <1>10, <1>11, <1>14, <2>1
  <2>2. CASE k # kind
    <3>1. IF kind \in Before(k) THEN GoneOf(k, db, tx) = {}
          ELSE Taken(GoneOf(k, db, tx), FreeOf(k, db, tx), cutoff)
      BY <1>5 DEF Takes
    <3> QED
      BY <1>7, <1>12, <1>13, <2>2, <3>1
  <2> QED
    BY <2>1, <2>2
<1>16. Takes(db, tx', cutoff, AfterKind(kind))
  BY <1>5, <1>6, <1>14, <1>15 DEF Takes
<1> QED
  BY <1>6, <1>16 DEF WorkerInv

LEMMA WorkerInvStep == IInv /\ WorkerInv /\ [Next]_vars => WorkerInv'
<1> SUFFICES ASSUME IInv, WorkerInv, [Next]_vars PROVE WorkerInv'
  OBVIOUS
<1> USE DEF dataVars, workerVars
<1>1. CASE DeleteEvents \/ DeleteIncidents \/ DeleteRuns
  BY <1>1, EventsTaken, IncidentsTaken, RunsTaken
<1>2. ASSUME NEW kind \in Kinds, DeleteResources(kind) PROVE WorkerInv'
  BY <1>2, ResourcesTaken
<1>3. CASE writer' # "worker"
  BY <1>3 DEF WorkerInv
<1>4. CASE UNCHANGED <<db, tx, writer, cutoff, pc>>
  BY <1>4 DEF WorkerInv
<1>5. CASE InsertRun \/ InsertSample \/ CommitRun \/ CommitBatch \/ Restart
  <2>1. writer' # "worker"
    BY <1>5 DEF InsertRun, InsertSample, CommitRun, CommitBatch, Restart, Lock, Commit,
                IInv, TypeOK
  <2> QED
    BY <1>3, <2>1
<1>6. CASE RecordFails
  BY <1>6, <1>3, <1>4 DEF RecordFails, Rollback
<1>7. CASE CleanupFails \/ CleanupCancelled
  BY <1>7, <1>3 DEF CleanupFails, CleanupCancelled, Rollback
<1>8. CASE StartCleanup \/ TickerFires \/ StopWorker
  <2>1. writer' # "worker"
    BY <1>8 DEF StartCleanup, TickerFires, StopWorker, IInv, TypeOK, InCleanup
  <2> QED
    BY <1>3, <2>1
<1>9. CASE StartRun \/ Tick \/ Stop \/ Stopped \/ UNCHANGED vars
  BY <1>9, <1>4 DEF StartRun, Tick, Stop, Stopped, vars
<1> QED
  BY <1>1, <1>2, <1>5, <1>6, <1>7, <1>8, <1>9 DEF Next, CleanupStep

LEMMA CommitRecords ==
  ASSUME IInv, RecorderInv, CommitRun
  PROVE  Tables!Record
<1> DEFINE run == [id |-> rec.id, at |-> rec.at, with |-> rec.with]
<1>1. /\ writer = "recorder" /\ db' = tx /\ UNCHANGED <<now, cutoff>>
      /\ rec.pc # "idle" /\ rec.with \subseteq SamplesOf(tx, rec.id)
  BY DEF CommitRun, Commit, IInv, TypeOK, workerVars
<1>2. /\ Adds(db, tx, rec.id, rec.at, rec.with) /\ rec.at <= now
      /\ Pending(tx, rec.id, rec.at, rec.with)
      /\ db \in Database /\ tx \in Database
  BY <1>1 DEF RecorderInv, IInv, CopyInv, TypeOK
<1>3. SamplesOf(tx, rec.id) = rec.with
  BY <1>1, <1>2 DEF Pending
<1>4. run.id = rec.id /\ run.at = rec.at /\ run.with = rec.with
  OBVIOUS
<1>5. /\ tx.runs = db.runs \cup {run}
      /\ tx.samples = db.samples \cup {[run |-> run.id, of |-> s] : s \in run.with}
      /\ tx.resources = db.resources /\ tx.events = db.events
      /\ tx.incidents = db.incidents
      /\ \A r \in db.runs : r.id < run.id
  BY <1>2, <1>3 DEF Adds
<1> HIDE DEF run
<1>6. db' = [db EXCEPT
        !.runs = @ \cup {run},
        !.samples = @ \cup {[run |-> run.id, of |-> s] : s \in run.with}]
  <2> DEFINE added == {[run |-> run.id, of |-> s] : s \in run.with}
  <2>1. tx.samples = db.samples \cup added
    BY <1>5
  <2> HIDE DEF added
  <2>2. tx = [db EXCEPT !.runs = @ \cup {run}, !.samples = @ \cup added]
    BY <1>2, <1>5, <2>1 DEF Database
  <2> QED
    BY <1>1, <2>2 DEF added
<1>7. /\ run \in db'.runs /\ run.at <= now /\ run.id \in Nat
      /\ run.at \in Nat /\ run.with \cap Resources = {}
  BY <1>1, <1>2, <1>4, <1>5, HistoryAssumption DEF IInv, TypeOK, SampleChoices, Host
<1>8. run.with \cap DOMAIN Kind \subseteq {x.id : x \in db.resources}
  BY <1>7 DEF Resources
<1> QED
  BY <1>1, <1>5, <1>6, <1>7, <1>8 DEF Tables!Record

LEMMA CommitRetains ==
  ASSUME IInv, WorkerInv, CommitBatch
  PROVE  Tables!Retain
<1>1. /\ writer = "worker" /\ db' = tx /\ pc = "committing"
      /\ UNCHANGED <<now, cutoff>>
  BY DEF CommitBatch, Commit, IInv, TypeOK, InCleanup
<1>2. /\ Takes(db, tx, cutoff, pc) /\ db \in Database /\ tx \in Database
  BY <1>1 DEF WorkerInv, IInv, TypeOK
<1>3. ASSUME NEW gone, NEW rows, Taken(gone, rows, cutoff)
      PROVE  Tables!IsBatch(gone, rows)
  <2>1. Tables!Cardinality(gone) = Cardinality(gone)
    BY DEF Cardinality, Tables!Cardinality
  <2>2. Tables!Expired(rows) = Aged(rows, cutoff)
    BY DEF Tables!Expired, Aged
  <2> QED
    BY <1>3, <2>1, <2>2 DEF Taken, Tables!IsBatch
<1>4. /\ Tables!IsBatch(db.runs \ tx.runs, db.runs)
      /\ Tables!IsBatch(db.events \ tx.events, db.events)
      /\ Tables!IsBatch(db.incidents \ tx.incidents, db.incidents)
  BY <1>1, <1>2, <1>3 DEF Takes
<1>5. \A table \in {"runs", "events", "incidents"} :
        /\ db'[table] \subseteq db[table]
        /\ Tables!IsBatch(db[table] \ db'[table], db[table])
  BY <1>1, <1>2, <1>4 DEF Takes
<1>6. ASSUME NEW kind \in {Kind[r] : r \in DOMAIN Kind}
      PROVE  Tables!IsBatch(Tables!OfKind(kind, db.resources \ db'.resources),
                           Tables!Free(kind, db'))
  <2>1. kind \in Kinds
    BY HistoryAssumption DEF Resources
  <2>2. Taken(GoneOf(kind, db, tx), FreeOf(kind, db, tx), cutoff)
    <3>1. "committing" \notin Before(kind)
      BY <2>1 DEF Before, Kinds
    <3> QED
      BY <1>1, <1>2, <2>1, <3>1 DEF Takes
  <2>3. Tables!IsBatch(GoneOf(kind, db, tx), FreeOf(kind, db, tx))
    BY <1>3, <2>2
  <2>4. Tables!OfKind(kind, db.resources \ tx.resources) = GoneOf(kind, db, tx)
    BY DEF Tables!OfKind, GoneOf
  <2>5. \A r : Tables!InUse(tx, r) <=> Referenced(tx, r)
    BY DEF Tables!InUse, Referenced
  <2>6. Tables!Free(kind, tx) = FreeOf(kind, db, tx)
    BY <2>5 DEF Tables!Free, Tables!OfKind, FreeOf
  <2> QED
    BY <1>1, <2>3, <2>4, <2>6
<1>7. /\ db'.samples = {s \in db.samples : \E r \in db'.runs : r.id = s.run}
      /\ db'.resources \subseteq db.resources
  BY <1>1, <1>2 DEF Takes
<1>8. db' = [table \in DOMAIN db |-> db'[table]]
  BY <1>1, <1>2 DEF Database
<1> QED
  BY <1>1, <1>5, <1>6, <1>7, <1>8 DEF Tables!Retain

\* For every found database, retention and batch size, and however recorder and
\* worker interleave, fail, are cancelled and restarted: what is committed
\* changes as HistoryTables says, by whole runs and by whole batches, of all
\* the tables together.
THEOREM StoreImplementsTables == Spec => ImplementsTables
<1>1. Init => Tables!Init /\ RecorderInv /\ WorkerInv
  <2>1. Init => now \in Nat /\ cutoff = now - Retention /\ db \in Databases
    BY HistoryAssumption DEF Init
  <2>2. Init => RecorderInv /\ WorkerInv
    BY DEF Init, NoRecord, RecorderInv, WorkerInv
  <2> QED
    BY <2>1, <2>2 DEF Tables!Init
<1>2. IInv /\ RecorderInv /\ WorkerInv /\ [Next]_vars => [Tables!Next]_Tables!vars
  <2> SUFFICES ASSUME IInv, RecorderInv, WorkerInv, [Next]_vars
               PROVE  [Tables!Next]_Tables!vars
    OBVIOUS
  <2>1. CASE CommitRun
    BY <2>1, CommitRecords DEF Tables!Next
  <2>2. CASE CommitBatch
    BY <2>2, CommitRetains DEF Tables!Next
  <2>3. CASE Tick
    BY <2>3 DEF Tick, dataVars, workerVars, Tables!Tick, Tables!Next
  <2>4. CASE /\ db' = db /\ now' = now
             /\ cutoff' \in {cutoff, now - Retention}
    BY <2>4 DEF Tables!vars, Tables!Begin, Tables!Next
  <2> QED
    BY <2>1, <2>2, <2>3, <2>4, WhoCommits
<1>3. IInv /\ RecorderInv /\ WorkerInv /\ [Next]_vars => (RecorderInv /\ WorkerInv)'
  BY RecorderInvStep, WorkerInvStep
<1> QED
  BY <1>1, <1>2, <1>3, Invariance, PTL DEF Spec, ImplementsTables, Tables!Spec

-----------------------------------------------------------------------------
(***************************************************************************)
(* What follows from HistoryTables alone, so that a reader of the database *)
(* needs no more than that module.                                         *)
(***************************************************************************)

\* Numbers name runs, runs have their samples, samples are of runs, and what is
\* referred to is there.
Sound(d) ==
  /\ UniqueRuns(d) /\ Whole(d)
  /\ \A s \in d.samples : \E r \in d.runs : r.id = s.run
  /\ \A r \in Resources : Referenced(d, r) => \E x \in d.resources : x.id = r

TablesInv ==
  /\ now \in Nat /\ cutoff \in Int /\ cutoff <= now - Retention
  /\ DOMAIN db = {"runs", "samples", "resources", "events", "incidents"}
  /\ db.resources \subseteq Resource
  /\ \A r \in db.runs : r.id \in Nat
  /\ \A x \in db.runs \cup db.events \cup db.incidents :
       x.at = Never \/ x.at \in Int
  /\ Sound(db)

LEMMA TablesInit == Tables!Init => TablesInv
<1> SUFFICES ASSUME Tables!Init PROVE TablesInv
  OBVIOUS
<1>1. db \in Database /\ UniqueRuns(db) /\ References(db) /\ Whole(db)
  BY HistoryAssumption DEF Tables!Init
<1>2. \A r \in Resources : Referenced(db, r) => \E x \in db.resources : x.id = r
  BY <1>1, HistoryAssumption DEF Referenced, References
<1>3. \A x \in db.runs \cup db.events \cup db.incidents :
        x.at = Never \/ x.at \in Int
  BY <1>1 DEF Database, Run, StateEvent, Incident
<1>4. now \in Nat /\ cutoff \in Int /\ cutoff <= now - Retention
  BY HistoryAssumption DEF Tables!Init
<1> QED
  BY <1>1, <1>2, <1>3, <1>4 DEF TablesInv, Sound, Database, Run, References

\* A new run has a number that no sample has, so it has its own samples only.
LEMMA RecordKeeps ==
  ASSUME TablesInv, Tables!Record
  PROVE  TablesInv'
<1> USE DEF TablesInv
<1>1. PICK run \in db'.runs :
        /\ run.at \in Nat
        /\ run.id \in Nat /\ \A r \in db.runs : r.id < run.id
        /\ run.with \cap DOMAIN Kind \subseteq {x.id : x \in db.resources}
        /\ db' = [db EXCEPT
             !.runs = @ \cup {run},
             !.samples = @ \cup {[run |-> run.id, of |-> s] : s \in run.with}]
  BY DEF Tables!Record
<1> DEFINE added == {[run |-> run.id, of |-> s] : s \in run.with}
<1>2. \A x \in added : x.run = run.id /\ x.of \in run.with
  OBVIOUS
<1>3. \A s \in run.with : \E x \in added : x.run = run.id /\ x.of = s
  <2> TAKE s \in run.with
  <2> WITNESS [run |-> run.id, of |-> s] \in added
  <2> QED OBVIOUS
<1>4. db' = [db EXCEPT !.runs = @ \cup {run}, !.samples = @ \cup added]
  BY <1>1
<1> HIDE DEF added
<1>5. /\ DOMAIN db' = DOMAIN db
      /\ db'.runs = db.runs \cup {run} /\ db'.samples = db.samples \cup added
      /\ db'.resources = db.resources /\ db'.events = db.events
      /\ db'.incidents = db.incidents
  BY <1>4
<1>6. \A r \in db.runs : r.id \in Nat /\ r.id # run.id
  BY <1>1
<1>7. \A s \in db.samples : s.run # run.id
  BY <1>6 DEF Sound
<1>8. UniqueRuns(db')
  BY <1>5, <1>6 DEF Sound, UniqueRuns
<1>9. Whole(db')
  <2>1. SamplesOf(db', run.id) = run.with
    BY <1>2, <1>3, <1>5, <1>7 DEF SamplesOf
  <2>2. ASSUME NEW r \in db.runs PROVE SamplesOf(db', r.id) = SamplesOf(db, r.id)
    BY <1>2, <1>5, <1>6 DEF SamplesOf
  <2> QED
    BY <1>5, <2>1, <2>2 DEF Sound, Whole
<1>10. \A s \in db'.samples : \E r \in db'.runs : r.id = s.run
  BY <1>2, <1>5 DEF Sound
<1>11. ASSUME NEW r \in Resources, Referenced(db', r)
       PROVE  \E x \in db'.resources : x.id = r
  <2>1. CASE Referenced(db, r)
    BY <1>5, <2>1 DEF Sound
  <2>2. CASE \E x \in added : x.of = r
    BY <1>1, <1>2, <1>5, <2>2 DEF Resources
  <2> QED
    BY <1>5, <1>11, <2>1, <2>2 DEF Referenced
<1>12. UNCHANGED <<now, cutoff>>
  BY DEF Tables!Record
<1>13. ASSUME NEW x \in db'.runs \cup db'.events \cup db'.incidents
       PROVE  x.at = Never \/ x.at \in Int
  BY <1>1, <1>5, <1>13
<1>14. Sound(db') /\ \A r \in db'.runs : r.id \in Nat
  BY <1>1, <1>5, <1>8, <1>10, <1>9, <1>11 DEF Sound
<1> QED
  BY <1>5, <1>12, <1>13, <1>14

\* The clock does not fall behind the cutoff.
LEMMA ExpiredByNow ==
  ASSUME TablesInv, NEW t \in Int, t < cutoff
  PROVE  t < now - Retention
BY HistoryAssumption DEF TablesInv

\* What retention takes of the resources is of one of the kinds, has expired,
\* and nothing that stays refers to it.
LEMMA RetainedResources ==
  ASSUME TablesInv, Tables!Retain, NEW x \in db.resources \ db'.resources
  PROVE  x.at # Never /\ x.at < now - Retention /\ ~Referenced(db', x.id)
<1> DEFINE kind == Kind[x.id]
<1>1. x.id \in DOMAIN Kind
  BY DEF TablesInv, Resource, Resources
<1>2. kind \in {Kind[r] : r \in DOMAIN Kind}
  BY <1>1
<1>3. Tables!IsBatch(Tables!OfKind(kind, db.resources \ db'.resources),
                    Tables!Free(kind, db'))
  BY <1>2 DEF Tables!Retain
<1>4. x \in Tables!OfKind(kind, db.resources \ db'.resources)
  BY DEF Tables!OfKind
<1> HIDE DEF kind
<1>5. x \in Tables!Expired(Tables!Free(kind, db'))
  BY <1>3, <1>4 DEF Tables!IsBatch
<1>6. x.at # Never /\ x.at < cutoff /\ x \in Tables!Free(kind, db')
  BY <1>5 DEF Tables!Expired
<1>7. x.at < now - Retention
  BY <1>6, ExpiredByNow DEF TablesInv, Resource
<1> QED
  BY <1>6, <1>7 DEF Tables!Free, Tables!InUse, Referenced

\* A run that goes takes its samples, and no resource goes that is in use.
LEMMA RetainKeeps ==
  ASSUME TablesInv, Tables!Retain
  PROVE  TablesInv'
<1> USE DEF TablesInv
<1>1. /\ db' = [table \in DOMAIN db |-> db'[table]]
      /\ db'.samples = {s \in db.samples : \E r \in db'.runs : r.id = s.run}
      /\ db'.resources \subseteq db.resources
      /\ \A table \in {"runs", "events", "incidents"} : db'[table] \subseteq db[table]
  BY DEF Tables!Retain
<1>2. DOMAIN db' = DOMAIN db /\ UNCHANGED <<now, cutoff>>
  BY <1>1 DEF Tables!Retain
<1>3. /\ db'.runs \subseteq db.runs /\ db'.events \subseteq db.events
      /\ db'.incidents \subseteq db.incidents
  BY <1>1
<1>4. UniqueRuns(db') /\ \A s \in db'.samples : \E r \in db'.runs : r.id = s.run
  BY <1>1, <1>3 DEF Sound, UniqueRuns
<1>5. Whole(db')
  <2>1. ASSUME NEW r \in db'.runs PROVE SamplesOf(db', r.id) = SamplesOf(db, r.id)
    BY <1>1 DEF SamplesOf
  <2> QED
    BY <1>3, <2>1 DEF Sound, Whole
<1>6. ASSUME NEW r \in Resources, Referenced(db', r)
      PROVE  \E x \in db'.resources : x.id = r
  <2>1. Referenced(db, r)
    BY <1>1, <1>3, <1>6 DEF Referenced
  <2>2. PICK x \in db.resources : x.id = r
    BY <2>1 DEF Sound
  <2> QED
    BY <1>6, <2>2, RetainedResources
<1> QED
  BY <1>1, <1>2, <1>3, <1>4, <1>5, <1>6 DEF Sound

LEMMA TablesInvariant == Tables!Spec => []TablesInv
<1>1. TablesInv /\ [Tables!Next]_Tables!vars => TablesInv'
  <2> SUFFICES ASSUME TablesInv, [Tables!Next]_Tables!vars PROVE TablesInv'
    OBVIOUS
  <2>1. CASE Tables!Tick
    BY <2>1, HistoryAssumption DEF Tables!Tick, TablesInv
  <2>3. CASE Tables!Begin
    BY <2>3, HistoryAssumption DEF Tables!Begin, TablesInv
  <2>2. CASE UNCHANGED Tables!vars
    BY <2>2 DEF Tables!vars, TablesInv
  <2> QED
    BY <2>1, <2>2, <2>3, RecordKeeps, RetainKeeps DEF Tables!Next
<1> QED
  BY <1>1, TablesInit, PTL DEF Tables!Spec

\* Whoever reads tables that change as HistoryTables says finds every run with
\* exactly its samples, and everything that a row refers to.
THEOREM TablesAreSound == Tables!Spec => []Sound(db)
<1>1. TablesInv => Sound(db)
  BY DEF TablesInv
<1> QED
  BY <1>1, TablesInvariant, PTL

\* What leaves tables that change as HistoryTables says has expired.
THEOREM TablesKeepUnexpired == Tables!Spec => UnexpiredKept
<1> DEFINE Gone == (db.runs \ db'.runs) \cup (db.events \ db'.events)
                    \cup (db.incidents \ db'.incidents)
                    \cup (db.resources \ db'.resources)
<1>1. TablesInv /\ [Tables!Next]_Tables!vars =>
        [\A x \in Gone : x.at # Never /\ x.at < now - Retention]_vars
  <2> SUFFICES ASSUME TablesInv, [Tables!Next]_Tables!vars, NEW x \in Gone
               PROVE  x.at # Never /\ x.at < now - Retention
    OBVIOUS
  <2>1. CASE Tables!Record
    <3>1. /\ db'.resources = db.resources /\ db'.events = db.events
          /\ db'.incidents = db.incidents /\ db.runs \subseteq db'.runs
      BY <2>1 DEF Tables!Record, TablesInv
    <3> QED
      BY <3>1
  <2>2. CASE Tables!Retain
    <3>1. ASSUME NEW table \in {"runs", "events", "incidents"},
                 x \in db[table] \ db'[table]
          PROVE  x.at # Never /\ x.at < now - Retention
      <4>1. x \in Tables!Expired(db[table])
        BY <2>2, <3>1 DEF Tables!Retain, Tables!IsBatch
      <4>2. x \in db[table] /\ x.at # Never /\ x.at < cutoff
        BY <4>1 DEF Tables!Expired
      <4> QED
        BY <4>2, ExpiredByNow DEF TablesInv
    <3>2. CASE x \in db.resources \ db'.resources
      BY <2>2, <3>2, RetainedResources
    <3> QED
      BY <3>1, <3>2
  <2>3. CASE Tables!Tick \/ Tables!Begin \/ UNCHANGED Tables!vars
    BY <2>3 DEF Tables!Tick, Tables!Begin, Tables!vars
  <2> QED
    BY <2>1, <2>2, <2>3 DEF Tables!Next
<1> QED
  BY <1>1, TablesInvariant, PTL DEF Tables!Spec, UnexpiredKept

\* Retention takes nothing that is not older than the retention duration.
THEOREM NothingUnexpiredGoes == Spec => UnexpiredKept
BY StoreImplementsTables, TablesKeepUnexpired, PTL DEF ImplementsTables
=============================================================================
