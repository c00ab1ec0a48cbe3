------------------------- MODULE CollectionScheduler -------------------------
(***************************************************************************)
(* The collection scheduler: internal/scheduler/scheduler.go.              *)
(*                                                                         *)
(* Loops are the goroutines of runCollectionScheduler (app/runtime.go),    *)
(* each driving Service.Run; Triggers are the callers of Service.Trigger.  *)
(* Every caller has a context of its own.  A run spawns one goroutine per  *)
(* provider (executeProvider), and each of those a deadline monitor.  The  *)
(* granularity is one step per synchronisation: a mutex section, a channel *)
(* operation, a context check, a clock reading.                            *)
(*                                                                         *)
(* now is the wall clock, in ticks.  Timers count monotonic time, so they  *)
(* are kept as what is left of them and a step of the wall clock leaves    *)
(* them alone; the time stamps of a run lose their monotonic part in UTC() *)
(* and are compared as wall-clock values.                                  *)
(***************************************************************************)
EXTENDS Integers, FiniteSets

CONSTANTS
  Loops,             \* goroutines that drive Service.Run
  Triggers,          \* goroutines that call Service.Trigger, once each
  HostResults,       \* results the host provider can return
  DockerResults,     \* results the Docker provider can return
  Period,            \* CollectionInterval, in ticks
  CollectorTimeout,  \* Options.CollectorTimeout, in ticks
  StorageMayFail,    \* whether the recorder can fail for reasons of its own
  MaxTime,           \* bound: the last tick of the wall clock
  MaxSteps,          \* bound: how often the wall clock is set back
  NoRun              \* a nil *CompletedRun

Callers == Loops \cup Triggers
Subsystems == {"host", "docker"}
Statuses == {"succeeded", "partial", "failed", "not_attempted"}

\* collector.Result: the snapshot is there exactly when the status is not
\* failed, so it needs no field of its own.
Result == [status : Statuses, code : {"none", "provider_error"}]

\* New rejects a timeout that is not positive and below the interval.
ASSUME OptionsAssumption ==
  /\ Loops \cap Triggers = {}
  /\ HostResults \subseteq Result /\ DockerResults \subseteq Result
  /\ Period \in Nat /\ CollectorTimeout \in Nat \ {0}
  /\ CollectorTimeout < Period
  /\ StorageMayFail \in BOOLEAN
  /\ MaxTime \in Nat /\ MaxSteps \in Nat

VARIABLES
  now,          \* the wall clock
  steps,        \* how often it was set back (bounded by MaxSteps)
  pc,           \* where each caller is
  err,          \* the error its last collect returned
  ctxDone,      \* whether the context of the caller is done
  armed,        \* the clock when a loop last armed its timer: Run's now
  wait,         \* what is left of its timer
  run,          \* the run a caller has begun: its number and startedAt
  exec,         \* the executeProvider goroutines of each caller
  runActive,    \* Service.runActive
  loopActive,   \* Service.loopActive
  lastRun,      \* Service.lastRun
  lastSuccess,  \* Service.lastSuccess
  runs,         \* how many runs have begun: names runs, not in the code
  recorded      \* the runs the recorder has committed

clockVars == <<now, steps>>
loopVars == <<armed, wait, loopActive>>
evidenceVars == <<lastRun, lastSuccess, recorded>>
vars == <<now, steps, pc, err, ctxDone, armed, wait, run, exec, runActive,
          loopActive, lastRun, lastSuccess, runs, recorded>>

-----------------------------------------------------------------------------
(***************************************************************************)
(* Results, outcomes and runs.                                             *)
(***************************************************************************)

\* collector.Result.Validate
ResultValid(r) ==
  /\ r.status # "not_attempted"
  /\ r.status = "succeeded" => r.code = "none"
  /\ r.status = "failed" => r.code # "none"

\* The switch that ends executeProvider, on a goroutine that has settled.
OutcomeOf(e) ==
  LET failure(code) == [status |-> "failed", code |-> code,
                        startedAt |-> e.startedAt, finishedAt |-> e.finishedAt]
  IN CASE e.cause = "timeout"   -> failure("collector_timeout")
       [] e.cause = "cancelled" -> failure("collection_cancelled")
       [] e.cause = "none" /\ ~ResultValid(e.result) ->
            failure("invalid_collector_result")
       [] OTHER -> [status |-> e.result.status, code |-> e.result.code,
                    startedAt |-> e.startedAt, finishedAt |-> e.finishedAt]

\* domain.AggregateCollectionStatus, of the two subsystems
Aggregate(host, docker) ==
  IF {host, docker} = {"succeeded"} THEN "succeeded"
  ELSE IF {host, docker} \cap {"succeeded", "partial"} # {} THEN "partial"
  ELSE "failed"

\* domain.CollectionOutcome.Validate
OutcomeValid(o) ==
  /\ o.finishedAt >= o.startedAt
  /\ o.status = "succeeded" => o.code = "none"
  /\ o.status \in {"failed", "not_attempted"} => o.code # "none"

\* domain.CollectionRun.Validate
RunValid(r) ==
  /\ r.finishedAt >= r.startedAt
  /\ r.status # "not_attempted"
  /\ \A o \in {r.host, r.docker} :
       /\ OutcomeValid(o)
       /\ o.startedAt >= r.startedAt /\ o.finishedAt <= r.finishedAt
  /\ r.status = Aggregate(r.host.status, r.docker.status)

Later(s, t) == IF s < t THEN t ELSE s

\* nextMinuteBoundary
NextBoundary(t) == (t \div Period + 1) * Period

Results(s) == IF s = "host" THEN HostResults ELSE DockerResults

Fresh(at) ==
  [at |-> at, cause |-> "none", left |-> 0, startedAt |-> 0, finishedAt |-> 0,
   result |-> [status |-> "failed", code |-> "none"]]
Idle == Fresh("idle")
Spawned == Fresh("spawned")

\* The monitor goroutine and the timer of a provider are alive.
Monitored(e) == e.at \in {"collecting", "returned"}
NoneBegun == [id |-> 0, startedAt |-> 0]

-----------------------------------------------------------------------------
Init ==
  /\ now \in 0 .. Period - 1 /\ steps = 0
  /\ pc = [c \in Callers |-> "idle"]
  /\ err = [c \in Callers |-> "none"]
  /\ ctxDone = [c \in Callers |-> FALSE]
  /\ armed = [c \in Loops |-> 0]
  /\ wait = [c \in Loops |-> 0]
  /\ run = [c \in Callers |-> NoneBegun]
  /\ exec = [c \in Callers |-> [s \in Subsystems |-> Idle]]
  /\ runActive = FALSE
  /\ loopActive = FALSE
  /\ lastRun = NoRun
  /\ lastSuccess = NoRun
  /\ runs = 0
  /\ recorded = {}

Goto(c, from, to) ==
  /\ pc[c] = from
  /\ pc' = [pc EXCEPT ![c] = to]

\* Where a caller goes when collect returns it the error e: Run continues on
\* nil and ErrRunInProgress and returns otherwise; Trigger returns.
AfterCollect(c, e) ==
  IF c \in Triggers THEN "returned"
  ELSE IF e \in {"none", "in_progress"} THEN "arming" ELSE "leaving"

-----------------------------------------------------------------------------
(***************************************************************************)
(* Service.Run and the loop around it, runCollectionScheduler.             *)
(***************************************************************************)

\* Run, entered: its context check and beginLoop.  A loop that finds another
\* one active gets ErrSchedulerActive and is called again at once.
RunLoop(c) ==
  \/ /\ ctxDone[c]
     /\ Goto(c, "idle", "exited")
     /\ UNCHANGED <<clockVars, err, ctxDone, loopVars, run, exec, runActive,
                    evidenceVars, runs>>
  \/ /\ ~ctxDone[c] /\ ~loopActive
     /\ Goto(c, "idle", "arming")
     /\ loopActive' = TRUE
     /\ UNCHANGED <<clockVars, err, ctxDone, armed, wait, run, exec, runActive,
                    evidenceVars, runs>>

\* Mutant: the wait is rounded down to whole ticks below the boundary.
ArmTimerShort(c) ==
  /\ Goto(c, "arming", "waiting")
  /\ armed' = [armed EXCEPT ![c] = now]
  /\ wait' = [wait EXCEPT ![c] = NextBoundary(now) - now - 1]
  /\ UNCHANGED <<clockVars, err, ctxDone, run, exec, runActive, loopActive,
                 evidenceVars, runs>>

\* The head of the loop: Now, nextMinuteBoundary and NewTimer.
ArmTimer(c) ==
  /\ Goto(c, "arming", "waiting")
  /\ armed' = [armed EXCEPT ![c] = now]
  /\ wait' = [wait EXCEPT ![c] = NextBoundary(now) - now]
  /\ UNCHANGED <<clockVars, err, ctxDone, run, exec, runActive, loopActive,
                 evidenceVars, runs>>

\* The select of the loop; when both cases are ready it takes either.
TimerFires(c) ==
  /\ wait[c] = 0
  /\ Goto(c, "waiting", "entering")
  /\ UNCHANGED <<clockVars, err, ctxDone, loopVars, run, exec, runActive,
                 evidenceVars, runs>>

\* Mutant: the loop sleeps through its cancellation.
LoopUncancellable(c) == ctxDone[c] /\ pc[c] = "never" /\ UNCHANGED vars

LoopCancelled(c) ==
  /\ ctxDone[c]
  /\ Goto(c, "waiting", "leaving")
  /\ wait' = [wait EXCEPT ![c] = 0]
  /\ UNCHANGED <<clockVars, err, ctxDone, armed, loopActive, run, exec, runActive,
                 evidenceVars, runs>>

\* Mutant: endLoop is not deferred and an error path skips it.
LeaveLoopLeaking(c) ==
  /\ Goto(c, "leaving", IF ctxDone[c] THEN "exited" ELSE "idle")
  /\ loopActive' = ~ctxDone[c]
  /\ UNCHANGED <<clockVars, err, ctxDone, armed, wait, run, exec, runActive,
                 evidenceVars, runs>>

\* Run returns: endLoop, then runCollectionScheduler calls it again unless
\* the context is done.
LeaveLoop(c) ==
  /\ Goto(c, "leaving", IF ctxDone[c] THEN "exited" ELSE "idle")
  /\ loopActive' = FALSE
  /\ UNCHANGED <<clockVars, err, ctxDone, armed, wait, run, exec, runActive,
                 evidenceVars, runs>>

-----------------------------------------------------------------------------
(***************************************************************************)
(* Service.collect, shared by the loops and Service.Trigger.               *)
(***************************************************************************)

Trigger(c) ==
  /\ Goto(c, "idle", "entering")
  /\ UNCHANGED <<clockVars, err, ctxDone, loopVars, run, exec, runActive,
                 evidenceVars, runs>>

\* collect returns e before it has begun a run.
Refuse(c, from, e) ==
  /\ Goto(c, from, AfterCollect(c, e))
  /\ err' = [err EXCEPT ![c] = e]
  /\ UNCHANGED <<clockVars, ctxDone, loopVars, run, exec, runActive,
                 evidenceVars, runs>>

CheckContext(c) ==
  \/ ctxDone[c] /\ Refuse(c, "entering", "cancelled")
  \/ /\ ~ctxDone[c]
     /\ Goto(c, "entering", "locking")
     /\ UNCHANGED <<clockVars, err, ctxDone, loopVars, run, exec, runActive,
                    evidenceVars, runs>>

\* Mutant: runActive is set but not looked at.
BeginRunUnguarded(c) ==
  /\ Goto(c, "locking", "stamping")
  /\ runActive' = TRUE
  /\ UNCHANGED <<clockVars, err, ctxDone, loopVars, run, exec, evidenceVars, runs>>

\* Mutant: who finds a run under way waits for the results of that run, which
\* are sent once.
BeginRunSharing(c) ==
  /\ Goto(c, "locking", IF runActive THEN "joining" ELSE "stamping")
  /\ runActive' = TRUE
  /\ UNCHANGED <<clockVars, err, ctxDone, loopVars, run, exec, evidenceVars, runs>>

\* beginRun
BeginRun(c) ==
  \/ runActive /\ Refuse(c, "locking", "in_progress")
  \/ /\ ~runActive
     /\ Goto(c, "locking", "stamping")
     /\ runActive' = TRUE
     /\ UNCHANGED <<clockVars, err, ctxDone, loopVars, run, exec,
                    evidenceVars, runs>>

\* startedAt is read and the two provider goroutines are spawned.
StartRun(c) ==
  /\ Goto(c, "stamping", "joining")
  /\ runs' = runs + 1
  /\ run' = [run EXCEPT ![c] = [id |-> runs + 1, startedAt |-> now]]
  /\ exec' = [exec EXCEPT ![c] =
                [s \in Subsystems |-> Spawned]]
  /\ UNCHANGED <<clockVars, err, ctxDone, loopVars, runActive, evidenceVars>>

\* Mutant: finishedAt is read before the results are waited for.
CompletedEarly(c) ==
  LET host == OutcomeOf(exec[c]["host"])
      docker == OutcomeOf(exec[c]["docker"])
  IN [id |-> run[c].id, by |-> c, host |-> host, docker |-> docker,
      startedAt |-> run[c].startedAt, finishedAt |-> run[c].startedAt,
      status |-> Aggregate(host.status, docker.status)]

\* The record collect builds from the two settled goroutines of c.  by stands
\* for the trigger: scheduled from a loop, manual from a Trigger.
Completed(c) ==
  LET host == OutcomeOf(exec[c]["host"])
      docker == OutcomeOf(exec[c]["docker"])
  IN [id |-> run[c].id, by |-> c, host |-> host, docker |-> docker,
      startedAt |-> run[c].startedAt,
      finishedAt |-> Later(run[c].startedAt, now),
      status |-> Aggregate(host.status, docker.status)]

\* Mutant: the second result is not waited for.
JoinedHost(c) == exec[c]["host"].at = "done"

Joined(c) == \A s \in Subsystems : exec[c][s].at = "done"

\* The goroutines of c once it has received their executions: those that have
\* sent are gone.
Reaped(c) ==
  [s \in Subsystems |-> IF exec[c][s].at = "done" THEN Idle ELSE exec[c][s]]

\* storeLastRun
StoreLastRun(r) ==
  /\ lastRun' = r
  /\ lastSuccess' = IF r.status = "succeeded" THEN r ELSE lastSuccess

\* Mutant: the run is released before it is recorded.
StoreRunReleasing(c) ==
  /\ Joined(c)
  /\ exec' = [exec EXCEPT ![c] = Reaped(c)]
  /\ RunValid(Completed(c))
  /\ Goto(c, "joining", "recording")
  /\ StoreLastRun(Completed(c))
  /\ runActive' = FALSE
  /\ UNCHANGED <<clockVars, err, ctxDone, loopVars, run, runs, recorded>>

\* Both results are received; the record is built, validated and stored
\* (storeLastRun), or rejected.
StoreRun(c) ==
  /\ Joined(c)
  /\ exec' = [exec EXCEPT ![c] = Reaped(c)]
  /\ \/ /\ RunValid(Completed(c))
        /\ Goto(c, "joining", "recording")
        /\ StoreLastRun(Completed(c))
        /\ UNCHANGED err
     \/ /\ ~RunValid(Completed(c))
        /\ Goto(c, "joining", "ending")
        /\ err' = [err EXCEPT ![c] = "invalid_run"]
        /\ UNCHANGED <<lastRun, lastSuccess>>
  /\ UNCHANGED <<clockVars, ctxDone, loopVars, run, runActive, runs, recorded>>

\* Mutant: only runs with usable data are recorded.
RecordUsableRun(c) ==
  /\ Goto(c, "recording", "ending")
  /\ recorded' = IF ctxDone[c] \/ lastRun.status = "failed"
                 THEN recorded ELSE recorded \cup {run[c].id}
  /\ UNCHANGED <<clockVars, err, ctxDone, loopVars, run, exec, runActive, lastRun,
                 lastSuccess, runs>>

\* recorder.RecordCollection, under the context of the caller: BeginTx and
\* Commit fail once that context is done.  A service without a recorder, which
\* runtime.go never builds, is left out.
RecordRun(c) ==
  /\ Goto(c, "recording", "ending")
  /\ \/ /\ ~ctxDone[c]
        /\ recorded' = recorded \cup {run[c].id}
        /\ err' = [err EXCEPT ![c] = "none"]
     \/ /\ ctxDone[c] \/ StorageMayFail
        /\ err' = [err EXCEPT ![c] = "record_failed"]
        /\ UNCHANGED recorded
  /\ UNCHANGED <<clockVars, ctxDone, loopVars, run, exec, runActive, lastRun,
                 lastSuccess, runs>>

\* The deferred endRun, and collect's return.
EndRun(c) ==
  /\ Goto(c, "ending", AfterCollect(c, err[c]))
  /\ runActive' = FALSE
  /\ run' = [run EXCEPT ![c] = NoneBegun]
  /\ UNCHANGED <<clockVars, err, ctxDone, loopVars, exec, evidenceVars, runs>>

-----------------------------------------------------------------------------
(***************************************************************************)
(* executeProvider, one goroutine and one monitor per provider of a run.   *)
(***************************************************************************)

\* Goroutine s of c goes to e; nothing else changes.
SetExec(c, s, e) ==
  /\ exec' = [exec EXCEPT ![c][s] = e]
  /\ UNCHANGED <<clockVars, pc, err, ctxDone, loopVars, run, runActive,
                 evidenceVars, runs>>

\* WithCancelCause(ctx) of a done context is done from the start.
StartProvider(c, s) ==
  /\ exec[c][s].at = "spawned"
  /\ SetExec(c, s, [exec[c][s] EXCEPT
         !.at = "collecting", !.startedAt = now, !.left = CollectorTimeout,
         !.cause = IF ctxDone[c] THEN "cancelled" ELSE "none"])

\* The monitor takes the timer and cancels; the first cause stands.
MonitorFires(c, s) ==
  /\ Monitored(exec[c][s]) /\ exec[c][s].left = 0
  /\ exec[c][s].cause = "none"
  /\ SetExec(c, s, [exec[c][s] EXCEPT !.cause = "timeout"])

\* Mutant: the providers share one context, so one's timeout cancels the other.
PropagateFailure(c, s) ==
  /\ ctxDone[c] \/ \E t \in Subsystems : exec[c][t].cause = "timeout"
  /\ Monitored(exec[c][s]) /\ exec[c][s].cause = "none"
  /\ SetExec(c, s, [exec[c][s] EXCEPT !.cause = "cancelled"])

\* The cancellation of the caller's context reaches this child of it.
PropagateCancel(c, s) ==
  /\ ctxDone[c] /\ Monitored(exec[c][s])
  /\ exec[c][s].cause = "none"
  /\ SetExec(c, s, [exec[c][s] EXCEPT !.cause = "cancelled"])

ProviderReturns(c, s) ==
  /\ exec[c][s].at = "collecting"
  /\ \E r \in Results(s) :
       SetExec(c, s, [exec[c][s] EXCEPT !.at = "returned", !.result = r])

\* The cause is read, the monitor and the timer are stopped, finishedAt is
\* read and the execution sent to collect.
SettleProvider(c, s) ==
  /\ exec[c][s].at = "returned"
  /\ SetExec(c, s, [exec[c][s] EXCEPT
         !.at = "done", !.left = 0,
         !.finishedAt = Later(exec[c][s].startedAt, now)])

-----------------------------------------------------------------------------
(***************************************************************************)
(* The environment: time, the wall clock set back, cancellation.           *)
(***************************************************************************)

Elapse(t) == IF t > 0 THEN t - 1 ELSE 0

Tick ==
  /\ now < MaxTime
  /\ now' = now + 1
  /\ wait' = [c \in Loops |-> Elapse(wait[c])]
  /\ exec' = [c \in Callers |-> [s \in Subsystems |->
                [exec[c][s] EXCEPT !.left = Elapse(@)]]]
  /\ UNCHANGED <<steps, pc, err, ctxDone, armed, run, runActive, loopActive,
                 evidenceVars, runs>>

SetClockBack ==
  /\ steps < MaxSteps
  /\ now' \in 0 .. now - 1
  /\ steps' = steps + 1
  /\ UNCHANGED <<pc, err, ctxDone, loopVars, run, exec, runActive,
                 evidenceVars, runs>>

Cancel(c) ==
  /\ ~ctxDone[c]
  /\ ctxDone' = [ctxDone EXCEPT ![c] = TRUE]
  /\ UNCHANGED <<clockVars, pc, err, loopVars, run, exec, runActive,
                 evidenceVars, runs>>

\* Every loop has exited and every trigger has returned.
Stopped ==
  /\ \A c \in Loops : pc[c] = "exited"
  /\ \A c \in Triggers : pc[c] = "returned"
  /\ UNCHANGED vars

-----------------------------------------------------------------------------
LoopStep(c) ==
  RunLoop(c) \/ ArmTimer(c) \/ TimerFires(c) \/ LoopCancelled(c) \/ LeaveLoop(c)

CollectStep(c) ==
  \/ CheckContext(c) \/ BeginRun(c) \/ StartRun(c)
  \/ StoreRun(c) \/ RecordRun(c) \/ EndRun(c)

ProviderStep(c, s) ==
  \/ StartProvider(c, s) \/ ProviderReturns(c, s) \/ SettleProvider(c, s)
  \/ MonitorFires(c, s) \/ PropagateCancel(c, s)

Next ==
  \/ \E c \in Loops : LoopStep(c)
  \/ \E c \in Triggers : Trigger(c)
  \/ \E c \in Callers : CollectStep(c)
  \/ \E c \in Callers, s \in Subsystems : ProviderStep(c, s)
  \/ Tick
  \/ SetClockBack
  \/ \E c \in Callers : Cancel(c)
  \/ Stopped

Spec == Init /\ [][Next]_vars

\* A goroutine that can run does, and a provider returns: docs/scheduling.md
\* makes that an obligation of every provider.  Time, the clock and the
\* callers' contexts owe nothing.
Fairness ==
  /\ \A c \in Loops : WF_vars(LoopStep(c))
  /\ \A c \in Callers : WF_vars(CollectStep(c))
  /\ \A c \in Callers, s \in Subsystems : WF_vars(ProviderStep(c, s))

FairSpec == Spec /\ Fairness

-----------------------------------------------------------------------------
(***************************************************************************)
(* Properties.                                                             *)
(***************************************************************************)

PCs == {"idle", "arming", "waiting", "leaving", "exited", "entering", "locking",
        "stamping", "joining", "recording", "ending", "returned"}
Errors == {"none", "cancelled", "in_progress", "invalid_run", "record_failed"}
Causes == {"none", "timeout", "cancelled"}
Codes == {"none", "provider_error", "collector_timeout", "collection_cancelled",
          "invalid_collector_result"}

Outcome == [status : Statuses, code : Codes, startedAt : Nat, finishedAt : Nat]
CompletedRun ==
  [id : Nat, by : Callers, host : Outcome, docker : Outcome, startedAt : Nat,
   finishedAt : Nat, status : {"succeeded", "partial", "failed"}]
Execution ==
  [at : {"idle", "spawned", "collecting", "returned", "done"}, cause : Causes,
   left : Nat, startedAt : Nat, finishedAt : Nat, result : Result]

\* nil is no run.
ASSUME NoRunAssumption == NoRun \notin CompletedRun

\* The types of the fields of Service and of the locals of its goroutines.
TypeOK ==
  /\ now \in Nat /\ steps \in Nat
  /\ pc \in [Callers -> PCs]
  /\ err \in [Callers -> Errors]
  /\ ctxDone \in [Callers -> BOOLEAN]
  /\ armed \in [Loops -> Nat] /\ wait \in [Loops -> Nat]
  /\ run \in [Callers -> [id : Nat, startedAt : Nat]]
  /\ exec \in [Callers -> [Subsystems -> Execution]]
  /\ runActive \in BOOLEAN /\ loopActive \in BOOLEAN
  /\ lastRun \in CompletedRun \cup {NoRun}
  /\ lastSuccess \in CompletedRun \cup {NoRun}
  /\ runs \in Nat
  /\ recorded \in SUBSET Nat

InRun(c) == pc[c] \in {"stamping", "joining", "recording", "ending"}
InLoop(c) == c \in Loops /\ pc[c] \notin {"idle", "exited"}

\* A scheduled run, a manual run and a second loop never overlap, whatever
\* path each of them leaves collect by, and CollectionInProgress tells the
\* truth: the flag is set exactly while some caller is between beginRun and
\* endRun.
RunExclusion ==
  /\ \A c, d \in Callers : InRun(c) /\ InRun(d) => c = d
  /\ runActive <=> \E c \in Callers : InRun(c)

\* "Only one scheduler loop may run for a service instance": two goroutines
\* are never between beginLoop and endLoop, and the flag is never leaked by a
\* Run that returns an error.
LoopExclusion ==
  /\ \A c, d \in Loops : InLoop(c) /\ InLoop(d) => c = d
  /\ loopActive <=> \E c \in Loops : InLoop(c)

\* "The maximum collector concurrency is two": the provider goroutines alive
\* at one moment all belong to one run, so no goroutine of an earlier run
\* outlives its join.
CollectorConcurrency ==
  \A c, d \in Callers, s, t \in Subsystems :
    exec[c][s].at # "idle" /\ exec[d][t].at # "idle" =>
      c = d /\ pc[c] = "joining"

\* collect receives from two channels without a look at its context, so what it
\* waits for must be on its way: a caller in the join has begun the latest run
\* itself, and each of its two goroutines is alive or has sent a result that
\* nobody has taken.  So no caller waits for the results of a run that another
\* has begun or joined, whichever of them was refused, cancelled or overtaken.
JoinsItsOwnRun ==
  \A c \in Callers : pc[c] = "joining" =>
    /\ run[c].id = runs
    /\ \A s \in Subsystems : exec[c][s].at # "idle"

\* LastSuccessfulRun against LastRun: the success is never newer than the
\* last run, is a full success, and is the last run whenever that succeeded.
EvidenceOrder ==
  /\ lastSuccess # NoRun =>
       /\ lastRun # NoRun
       /\ lastSuccess.status = "succeeded"
       /\ lastSuccess.id <= lastRun.id
  /\ lastRun # NoRun /\ lastRun.status = "succeeded" => lastSuccess = lastRun

\* "A later partial or failed run does not erase the last-success evidence":
\* evidence only moves forward, to a run begun later, and the success changes
\* only to a run that succeeded.
EvidenceAdvances ==
  [][/\ lastRun' # lastRun =>
          lastRun' # NoRun /\ (lastRun # NoRun => lastRun.id < lastRun'.id)
     /\ lastSuccess' # lastSuccess =>
          lastSuccess' = lastRun' /\ lastRun'.status = "succeeded"]_vars

\* "After a run is stored in memory, an optional recorder persists its
\* metadata": history gains the run LastRun shows at that moment and never a
\* run older than one it has.
HistoryFollowsMemory ==
  [][recorded' # recorded =>
       /\ lastRun # NoRun /\ recorded' = recorded \cup {lastRun.id}
       /\ \A id \in recorded : id < lastRun.id]_vars

\* No run is lost without a word: a collect that ends without an error has its
\* run in history and shows it, and a run that history lacks has cost its own
\* caller an error: the record was rejected, on a clock that was set back, or
\* not stored, by a failing store or by that caller's cancellation; never is it
\* lost to a provider's failure, a timeout or another caller.
LostOnlyWithError ==
  [][\A c \in Callers :
       pc[c] = "ending" /\ pc'[c] # "ending" =>
         IF err[c] = "none"
         THEN run[c].id \in recorded /\ lastRun.id = run[c].id
         ELSE /\ run[c].id \notin recorded
              /\ \/ err[c] = "invalid_run" /\ steps > 0
                 \/ err[c] = "record_failed" /\ (ctxDone[c] \/ StorageMayFail)]_vars

\* A stored failure names a cause that happened: a timeout took the whole
\* deadline of that provider (on a clock that was not set back), and a
\* cancellation came from the caller, never from the other provider.
FailureHasCause ==
  lastRun # NoRun =>
    \A o \in {lastRun.host, lastRun.docker} :
      /\ o.code = "collector_timeout" /\ steps = 0 =>
           o.finishedAt >= o.startedAt + CollectorTimeout
      /\ o.code = "collection_cancelled" => ctxDone[lastRun.by]

\* On a clock that is not set back, collect never throws a finished run away
\* as invalid: the clamps and the order of the clock readings suffice.
NoRunRejected ==
  steps = 0 => \A c \in Callers : err[c] # "invalid_run"

\* "Missed periods remain gaps and are never replayed": on a clock that is
\* not set back, a scheduled collection is attempted in a later minute than the
\* one in which the loop was last through with its work, so no minute is
\* collected twice and none that has passed is made up for.
NeverReplayed ==
  steps = 0 =>
    \A c \in Loops : pc[c] \in {"entering", "locking", "stamping"} =>
      now \div Period > armed[c] \div Period

\* Cancelling the context of a loop ends it, also when a run is under way or
\* the loop is between two calls of Run: workers.Wait() returns.
LoopStops ==
  \A c \in Loops : ctxDone[c] ~> pc[c] = "exited"
=============================================================================
