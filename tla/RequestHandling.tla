-------------------------- MODULE RequestHandling --------------------------
(*****************************************************************************)
(* The handlers of api/server.go while app.Run starts, serves and shuts      *)
(* down: what a request reads of the rest of the program, in which order     *)
(* (app/status.go), what it answers, and what is logged of it.               *)
(*                                                                           *)
(* The module composes RuntimeLifecycle with the handlers and with what they *)
(* read: the configuration status of the settings manager, the maintenance   *)
(* switch (app/maintenance.go), and the evidence of the scheduler, which     *)
(* changes as CollectionLedger says: a run is in progress while the worker   *)
(* is at work, and is shown when it is over, before the worker rests.        *)
(*                                                                           *)
(* A handler is a goroutine; each read that another goroutine may come       *)
(* before or after is one action.  Bodies, headers, request numbers, sizes   *)
(* and CollectionInProgress, which nothing else in an answer depends on, are *)
(* left out.                                                                 *)
(*****************************************************************************)
EXTENDS RuntimeLifecycle

CONSTANTS
  Outcomes,        \* what a completed run may have come to
  None,            \* nil
  MaxRuns,         \* bound: how many runs are completed
  MaxTurns         \* bound: how often settings, maintenance or the file change

Statuses == {"succeeded", "partial", "failed", "not_attempted"}

\* What scheduler.CompletedRun shows of a run.
Runs == [id : 1 .. MaxRuns, status : Statuses \ {"not_attempted"}, docker : Statuses]

\* The status of a run and that of its Docker provider.
ASSUME OutcomesAssumption ==
  /\ Outcomes \subseteq [status : Statuses \ {"not_attempted"}, docker : Statuses]
  /\ MaxRuns \in Nat /\ MaxTurns \in Nat
  /\ None \notin Runs

Routes == {"live", "ready", "status", "series", "other"}

VARIABLES
  configuration,  \* State of config.Status
  maintenance,    \* MaintenanceState.active
  turns,          \* how often settings, maintenance or the file changed
  lastRun,        \* what LastRun returns
  lastSuccess,    \* what LastSuccessfulRun returns
  usable,         \* statements on the history database succeed
  route,          \* of each request: what it asks for
  place,          \* of each request: where its handler is
  view,           \* of each request: what its handler has read
  sent,           \* of each request: the status of its answer, 0 for none yet
  logged,         \* of each request: the event that was logged
  left,           \* the requests whose context is done
  seen,           \* of each request: what maintenance was while it was handled
  came            \* of each request: the last run's number and usable when it came

world == <<configuration, maintenance, turns, lastRun, lastSuccess, usable>>
handlers == <<route, place, view, sent, logged, left, seen, came>>
apiVars == <<vars, world, handlers>>

\* What a handler has read so far.
NothingRead ==
  [configuration |-> None, last |-> None, success |-> None,
   maintenance |-> None, series |-> None]

ApiInit ==
  /\ Init
  /\ configuration = "valid"
  /\ maintenance = FALSE /\ turns = 0
  /\ lastRun = None /\ lastSuccess = None
  /\ usable = TRUE
  /\ route = [r \in Requests |-> "live"]
  /\ place = [r \in Requests |-> "none"]
  /\ view = [r \in Requests |-> NothingRead]
  /\ sent = [r \in Requests |-> 0]
  /\ logged = [r \in Requests |-> None]
  /\ left = {}
  /\ seen = [r \in Requests |-> {}]
  /\ came = [r \in Requests |-> [run |-> 0, usable |-> TRUE]]

-----------------------------------------------------------------------------
(***************************************************************************)
(* What goes on around the handlers.                                       *)
(***************************************************************************)

InHandler(r) == place[r] \notin {"none", "done"}

\* Once settings were loaded a reload is accepted or rejected; it never makes
\* them unavailable (StatusDescribesSettings of SettingsManager).
ReloadSettings ==
  /\ stage = "serving" /\ turns < MaxTurns
  /\ configuration' \in {"valid", "using_previous"} \ {configuration}
  /\ turns' = turns + 1
  /\ UNCHANGED <<vars, maintenance, lastRun, lastSuccess, usable, handlers>>

\* MaintenanceState.Enter and Exit.
TurnMaintenance ==
  /\ stage = "serving" /\ turns < MaxTurns
  /\ maintenance' = ~maintenance
  /\ turns' = turns + 1
  /\ seen' = [r \in Requests |->
                IF InHandler(r) THEN seen[r] \cup {maintenance'} ELSE seen[r]]
  /\ UNCHANGED <<vars, configuration, lastRun, lastSuccess, usable, route, place,
                 view, sent, logged, left, came>>

RunNumber == IF lastRun = None THEN 0 ELSE lastRun.id

\* storeLastRun: both under one lock, while the run is still in progress.
StoreRun(o) ==
  /\ workers["scheduler"] = "busy"
  /\ RunNumber < MaxRuns
  /\ lastRun' = [id |-> RunNumber + 1, status |-> o.status, docker |-> o.docker]
  /\ lastSuccess' = IF o.status = "succeeded" THEN lastRun' ELSE lastSuccess
  /\ UNCHANGED <<vars, configuration, maintenance, turns, usable, handlers>>

\* The disk fails, or the file is gone or damaged.
HistoryBreaks ==
  /\ stage = "serving" /\ turns < MaxTurns
  /\ usable /\ usable' = FALSE
  /\ turns' = turns + 1
  /\ UNCHANGED <<vars, configuration, maintenance, lastRun, lastSuccess, handlers>>

\* The connection is gone: net/http cancels the context of its request.
ClientLeaves(r) ==
  /\ InHandler(r) /\ r \notin left
  /\ left' = left \cup {r}
  /\ UNCHANGED <<vars, world, route, place, view, sent, logged, seen, came>>

-----------------------------------------------------------------------------
(***************************************************************************)
(* Reading the status: statusSource.snapshot, in the order of its calls.   *)
(***************************************************************************)

\* observeRequests, requestSafeguards and the mux: what is too large, of
\* another method, malformed or unknown is refused without a read.
Arrive(r) ==
  /\ Accept(r)
  /\ \E u \in Routes :
       /\ route' = [route EXCEPT ![r] = u]
       /\ place' = [place EXCEPT ![r] =
                      CASE u \in {"ready", "status"} -> "configuration"
                        [] u = "series" -> "series"
                        [] OTHER -> "answering"]
  /\ seen' = [seen EXCEPT ![r] = {maintenance}]
  /\ came' = [came EXCEPT ![r] = [run |-> RunNumber, usable |-> usable]]
  /\ UNCHANGED <<world, view, sent, logged, left>>

\* Mutant: LastSuccessfulRun is read before LastRun.
NextReadSwapped ==
  [configuration |-> "success", success |-> "last", last |-> "maintenance",
   maintenance |-> "answering"]

\* The order in which snapshot and collectionStatus read.
NextRead ==
  [configuration |-> "last", last |-> "success", success |-> "maintenance",
   maintenance |-> "answering"]

Read(r, what, value) ==
  /\ place[r] = what
  /\ view' = [view EXCEPT ![r] = [@ EXCEPT ![what] = value]]
  /\ place' = [place EXCEPT ![r] = NextRead[what]]
  /\ UNCHANGED <<vars, world, route, sent, logged, left, seen, came>>

ReadConfiguration(r) == Read(r, "configuration", configuration)
ReadLastRun(r) == Read(r, "last", lastRun)
ReadLastSuccess(r) == Read(r, "success", lastSuccess)
ReadMaintenance(r) == Read(r, "maintenance", maintenance)

\* mapConfigurationState; the names are those of the settings manager.
ConfigurationState(v) ==
  IF v.configuration \in {"valid", "using_previous"} THEN v.configuration ELSE "unavailable"

DatabaseState(available) == IF available THEN "available" ELSE "unavailable"

CollectionState(v) ==
  IF v.last # None /\ v.last.status = "failed" THEN "unavailable" ELSE "available"

DockerConnectivity(v) ==
  CASE v.last = None -> "not_checked"
    [] v.last # None /\ v.last.docker \in {"failed", "not_attempted"} -> "unavailable"
    [] OTHER -> "available"

\* historyAvailable is the literal true of Run, auditAvailable whether the
\* audit database was opened; neither is looked at again.
HistoryAvailable == TRUE
AuditAvailable == database["audit"] # "none"

\* Mutant: what audit, collection and Docker say is not looked at.
StateOfConfiguration(s) ==
  CASE s.maintenance -> "maintenance"
    [] ~s.maintenance /\ ( \/ s.history # "available"
                          \/ s.configuration = "unavailable" ) -> "not_ready"
    [] OTHER -> IF s.configuration = "valid" THEN "ok" ELSE "degraded"

\* The switch of statusSource.snapshot, over ready.
StateOf(s) ==
  LET ready == /\ ~s.maintenance
               /\ s.history = "available"
               /\ s.configuration # "unavailable"
      degraded == \/ s.configuration # "valid"
                  \/ \E d \in {s.audit, s.collection, s.backup, s.docker} : d # "available"
  IN CASE s.maintenance -> "maintenance"
       [] ~s.maintenance /\ ~ready -> "not_ready"
       [] OTHER -> IF degraded THEN "degraded" ELSE "ok"

Snapshot(r) ==
  LET v == view[r]
      s == [state |-> None,
            maintenance |-> v.maintenance,
            configuration |-> ConfigurationState(v),
            history |-> DatabaseState(HistoryAvailable),
            audit |-> DatabaseState(AuditAvailable),
            collection |-> CollectionState(v),
            last |-> v.last, success |-> v.success,
            backup |-> "not_implemented",
            docker |-> DockerConnectivity(v)]
  IN [s EXCEPT !.state = StateOf(s)]

-----------------------------------------------------------------------------
(***************************************************************************)
(* The contract of the answer (api/contracts/operational.go).              *)
(***************************************************************************)

CollectionValid(s) ==
  /\ s.collection \in {"available", "not_started", "unavailable"}
  /\ s.collection = "not_started" => s.last = None /\ s.success = None
  /\ s.last # None => s.last.status \in {"succeeded", "partial", "failed"}

\* The state that OperationalStatus.Validate expects.
ExpectedState(s) ==
  IF s.maintenance THEN "maintenance"
  ELSE IF s.configuration = "unavailable" \/ s.history = "unavailable" THEN "not_ready"
  ELSE IF \/ s.configuration # "valid" \/ s.audit # "available"
          \/ s.collection # "available" \/ s.backup # "available"
          \/ s.docker # "available"
       THEN "degraded" ELSE "ok"

ValidateOperationalStatus(s) ==
  /\ s.configuration \in {"valid", "using_previous", "unavailable"}
  /\ s.history \in {"available", "unavailable"}
  /\ s.audit \in {"available", "unavailable"}
  /\ CollectionValid(s)
  /\ s.backup \in {"available", "unavailable", "not_implemented"}
  /\ s.docker \in {"available", "unavailable", "not_checked"}
  /\ s.state = ExpectedState(s)

\* Mutant: a service in maintenance is ready.
ReadyInMaintenance(s) == s.history = "available" /\ s.configuration # "unavailable"

\* readinessFrom.
Ready(s) ==
  /\ ~s.maintenance
  /\ s.history = "available"
  /\ s.configuration # "unavailable"

-----------------------------------------------------------------------------
(***************************************************************************)
(* Answering.                                                              *)
(***************************************************************************)

\* CPUHistory or MemoryHistory asks the database; one that is closed refuses.
AskHistory(r) ==
  /\ place[r] = "series"
  /\ IF database["history"] = "open"
     THEN Query(r) /\ place' = [place EXCEPT ![r] = "querying"] /\ UNCHANGED view
     ELSE /\ view' = [view EXCEPT ![r].series = "failed"]
          /\ place' = [place EXCEPT ![r] = "answering"]
          /\ UNCHANGED vars
  /\ UNCHANGED <<world, route, sent, logged, left, seen, came>>

\* The rows come, or the context of the request or the file ends the query.
HistoryAnswers(r) ==
  /\ place[r] = "querying"
  /\ QueryEnds(r)
  /\ \E result \in {"read", "failed"} :
       /\ result = "failed" => r \in left \/ ~usable
       /\ result = "read" => usable
       /\ view' = [view EXCEPT ![r].series = result]
  /\ place' = [place EXCEPT ![r] = "answering"]
  /\ UNCHANGED <<world, route, sent, logged, left, seen, came>>

\* The status a route answers with.  What is outside the API's routes and
\* methods is refused with one of the 4xx, of which one stands for all.
StatusOf(r) ==
  CASE route[r] = "live" -> 200
    [] route[r] = "ready" ->
         IF ~ValidateOperationalStatus(Snapshot(r)) THEN 500
         ELSE IF Ready(Snapshot(r)) THEN 200 ELSE 503
    [] route[r] = "status" -> IF ValidateOperationalStatus(Snapshot(r)) THEN 200 ELSE 500
    [] route[r] = "series" -> IF view[r].series = "read" THEN 200 ELSE 503
    [] OTHER -> 404

\* writeJSON: the header is out, the body follows.
Respond(r) ==
  /\ place[r] = "answering"
  /\ sent' = [sent EXCEPT ![r] = StatusOf(r)]
  /\ place' = [place EXCEPT ![r] = "writing"]
  /\ UNCHANGED <<vars, world, route, view, logged, left, seen, came>>

\* Mutant: the log has the status a handler has by default.
CapturedNothing(r) == 200

\* responseCapture.statusCode.
CapturedStatus(r) == IF sent[r] = 0 THEN 200 ELSE sent[r]

\* What a handler knew is gone with it.
Forget(r) ==
  /\ place' = [place EXCEPT ![r] = "done"]
  /\ view' = [view EXCEPT ![r] = NothingRead]
  /\ left' = left \ {r}
  /\ seen' = [seen EXCEPT ![r] = {}]
  /\ came' = [came EXCEPT ![r] = [run |-> 0, usable |-> TRUE]]
  /\ route' = [route EXCEPT ![r] = "live"]
  /\ UNCHANGED world

\* The deferred function of observeRequests after a handler that returned.
Finish(r) ==
  /\ place[r] = "writing"
  /\ Answer(r)
  /\ Forget(r)
  /\ logged' = [logged EXCEPT ![r] =
                  [code |-> IF r \in left THEN "cancelled" ELSE "completed",
                   status |-> CapturedStatus(r)]]
  /\ UNCHANGED sent

\* The same after a panic, which may come anywhere: 500 is logged, and sent if
\* nothing was.  A query that panics has ended.
Panic(r) ==
  /\ InHandler(r)
  /\ Answer(r)
  /\ Forget(r)
  /\ sent' = [sent EXCEPT ![r] = IF @ = 0 THEN 500 ELSE @]
  /\ logged' = [logged EXCEPT ![r] = [code |-> "panic", status |-> 500]]

-----------------------------------------------------------------------------
HandlerStep(r) ==
  \/ ReadConfiguration(r) \/ ReadLastRun(r) \/ ReadLastSuccess(r)
  \/ ReadMaintenance(r)
  \/ AskHistory(r) \/ HistoryAnswers(r)
  \/ Respond(r) \/ Finish(r) \/ Panic(r)

ApiNext ==
  \/ ServiceStep /\ UNCHANGED <<world, handlers>>
  \/ ReloadSettings \/ TurnMaintenance \/ HistoryBreaks
  \/ \E o \in Outcomes : StoreRun(o)
  \/ \E r \in Requests : Arrive(r) \/ ClientLeaves(r) \/ HandlerStep(r)
  \/ Exited /\ UNCHANGED <<world, handlers>>

ApiSpec == ApiInit /\ [][ApiNext]_apiVars

\* Nothing is asked of the handlers, as in RuntimeLifecycle.
ApiFairSpec == ApiSpec /\ Fairness

-----------------------------------------------------------------------------
(***************************************************************************)
(* Properties.                                                             *)
(***************************************************************************)

Views ==
  [configuration : {"valid", "using_previous", None},
   last : Runs \cup {None}, success : Runs \cup {None},
   maintenance : BOOLEAN \cup {None}, series : {"read", "failed", None}]

Logs == [code : {"completed", "cancelled", "panic"}, status : {200, 404, 500, 503}]

ApiTypeOK ==
  /\ TypeOK
  /\ configuration \in {"valid", "using_previous"}
  /\ maintenance \in BOOLEAN /\ turns \in 0 .. MaxTurns
  /\ lastRun \in Runs \cup {None} /\ lastSuccess \in Runs \cup {None}
  /\ usable \in BOOLEAN
  /\ route \in [Requests -> Routes]
  /\ place \in [Requests -> {"none", "configuration", "last", "success", "maintenance",
                             "series", "querying", "answering", "writing", "done"}]
  /\ view \in [Requests -> Views]
  /\ logged \in [Requests -> Logs \cup {None}]
  /\ sent \in [Requests -> {0, 200, 404, 500, 503}]
  /\ left \subseteq Requests
  /\ seen \in [Requests -> SUBSET BOOLEAN]
  /\ came \in [Requests -> [run : 0 .. MaxRuns, usable : BOOLEAN]]

\* What is read one by one, while all of it changes, is always an answer that
\* the contract accepts: the state that snapshot derives is the one that
\* OperationalStatus.Validate derives again.  So status and readiness are
\* answered 500 only after a panic.
SnapshotsAreValid ==
  \A r \in Requests :
    route[r] \in {"ready", "status"} /\ place[r] = "writing" => sent[r] # 500

\* A probe is told what was so while it was handled: ready only if maintenance
\* was off at some moment since it came, not ready only if it was on.
ReadinessIsCurrent ==
  \A r \in Requests :
    route[r] = "ready" /\ place[r] = "writing" =>
      /\ sent[r] = 200 => FALSE \in seen[r]
      /\ sent[r] = 503 => TRUE \in seen[r]

\* The last run and the last success are read under two locks.  The answer is
\* never older than the request, and never shows a run that succeeded beside a
\* last success before it, as if the run had not counted.
ShownEvidence ==
  \A r \in Requests :
    route[r] = "status" /\ place[r] = "writing" /\ sent[r] = 200 =>
      LET s == Snapshot(r)
      IN /\ came[r].run > 0 => s.last # None /\ s.last.id >= came[r].run
         /\ s.last # None /\ s.last.status = "succeeded" =>
              s.success # None /\ s.success.id >= s.last.id

\* Every request that is over was answered and logged once, under the status
\* that the client was sent; only a panic in the midst of an answer may differ.
LogTellsTheAnswer ==
  \A r \in Requests :
    place[r] = "done" =>
      /\ sent[r] # 0
      /\ logged[r].code = "panic" => logged[r].status = 500
      /\ logged[r].code # "panic" => logged[r].status = sent[r]

\* docs/observability.md: ready is answered 200 if "Required configuration and
\* history storage are usable and maintenance mode is off".
ReadyMeansUsable ==
  \A r \in Requests :
    route[r] = "ready" /\ place[r] = "writing" /\ sent[r] = 200 => came[r].usable
=============================================================================
