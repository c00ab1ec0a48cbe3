---------------------- MODULE CollectionScheduler_proofs ----------------------
(***************************************************************************)
(* Proofs about CollectionScheduler, for every set of loops and triggers,  *)
(* every interval and timeout, and any number of ticks and clock changes.  *)
(***************************************************************************)
EXTENDS CollectionScheduler, TLAPS

-----------------------------------------------------------------------------
(***************************************************************************)
(* What the operators return.                                              *)
(***************************************************************************)

\* A settled execution yields an outcome of the right shape.
LEMMA OutcomeType ==
  ASSUME NEW e \in Execution
  PROVE  OutcomeOf(e) \in Outcome
  BY DEF OutcomeOf, Outcome, Execution, Result, Statuses, Codes, Causes

\* The record collect builds has the shape of a completed run.
LEMMA CompletedType ==
  ASSUME TypeOK, NEW c \in Callers
  PROVE  Completed(c) \in CompletedRun
<1>1. \A s \in Subsystems : exec[c][s] \in Execution
  BY DEF TypeOK
<1>2. OutcomeOf(exec[c]["host"]) \in Outcome /\ OutcomeOf(exec[c]["docker"]) \in Outcome
  BY <1>1, OutcomeType DEF Subsystems
<1>3. run[c].id \in Nat /\ run[c].startedAt \in Nat /\ Later(run[c].startedAt, now) \in Nat
  BY DEF TypeOK, Later
<1>4. \A s, t : Aggregate(s, t) \in {"succeeded", "partial", "failed"}
  BY DEF Aggregate
<1>5. QED
  BY <1>2, <1>3, <1>4 DEF Completed, CompletedRun

\* The next boundary lies ahead, by at most an interval.
LEMMA BoundaryAhead ==
  ASSUME NEW t \in Nat
  PROVE  NextBoundary(t) - t \in Nat
<1>1. Period \in Nat \ {0}
  BY OptionsAssumption
<1>2. t = Period * (t \div Period) + (t % Period) /\ t % Period \in 0 .. Period - 1
      /\ t \div Period \in Nat
  BY <1>1
<1>3. NextBoundary(t) = Period * (t \div Period) + Period
  BY <1>1, <1>2 DEF NextBoundary
<1>4. QED
  BY <1>1, <1>2, <1>3

-----------------------------------------------------------------------------
(***************************************************************************)
(* Type correctness.                                                       *)
(***************************************************************************)

\* The initial values of the records.
LEMMA FreshType ==
  /\ Idle \in Execution /\ Spawned \in Execution
  /\ NoneBegun \in [id : Nat, startedAt : Nat]
  BY DEF Idle, Spawned, Fresh, Execution, Causes, Result, Statuses, NoneBegun

LEMMA InitType == Init => TypeOK
<1>1. Period \in Nat
  BY OptionsAssumption
<1> SUFFICES ASSUME Init PROVE TypeOK
  OBVIOUS
<1>4. now \in Nat /\ steps \in Nat /\ runs \in Nat /\ recorded \in SUBSET Nat
  BY <1>1 DEF Init
<1>5. exec \in [Callers -> [Subsystems -> Execution]]
  BY FreshType DEF Init
<1>6. run \in [Callers -> [id : Nat, startedAt : Nat]]
  BY FreshType DEF Init
<1>7. QED
  BY <1>4, <1>5, <1>6 DEF Init, TypeOK, PCs, Errors

\* A goroutine that goes to a well-shaped execution keeps the types.
LEMMA SetExecType ==
  ASSUME TypeOK, NEW c \in Callers, NEW s \in Subsystems,
         NEW e \in Execution, SetExec(c, s, e)
  PROVE  TypeOK'
  BY DEF TypeOK, SetExec, clockVars, loopVars, evidenceVars

LEMMA ProviderType ==
  ASSUME TypeOK, NEW c \in Callers, NEW s \in Subsystems, ProviderStep(c, s)
  PROVE  TypeOK'
<1> DEFINE x == exec[c][s]
<1>1. x \in Execution /\ now \in Nat /\ CollectorTimeout \in Nat /\ ctxDone[c] \in BOOLEAN
  BY OptionsAssumption DEF TypeOK
<1>2. CASE StartProvider(c, s)
  <2>1. [x EXCEPT !.at = "collecting", !.startedAt = now, !.left = CollectorTimeout,
                  !.cause = IF ctxDone[c] THEN "cancelled" ELSE "none"] \in Execution
    BY <1>1 DEF Execution, Causes
  <2>2. QED
    BY <1>2, <2>1, SetExecType DEF StartProvider
<1>3. CASE ProviderReturns(c, s)
  <2>1. PICK r \in Results(s) :
          SetExec(c, s, [x EXCEPT !.at = "returned", !.result = r])
    BY <1>3 DEF ProviderReturns
  <2>2. r \in Result
    BY <2>1, OptionsAssumption DEF Results
  <2>3. [x EXCEPT !.at = "returned", !.result = r] \in Execution
    BY <1>1, <2>2 DEF Execution
  <2>4. QED
    BY <2>1, <2>3, SetExecType
<1>4. CASE SettleProvider(c, s)
  <2>1. [x EXCEPT !.at = "done", !.left = 0,
                  !.finishedAt = Later(x.startedAt, now)] \in Execution
    BY <1>1 DEF Execution, Later
  <2>2. QED
    BY <1>4, <2>1, SetExecType DEF SettleProvider
<1>5. CASE MonitorFires(c, s)
  <2>1. [x EXCEPT !.cause = "timeout"] \in Execution
    BY <1>1 DEF Execution, Causes
  <2>2. QED
    BY <1>5, <2>1, SetExecType DEF MonitorFires
<1>6. CASE PropagateCancel(c, s)
  <2>1. [x EXCEPT !.cause = "cancelled"] \in Execution
    BY <1>1 DEF Execution, Causes
  <2>2. QED
    BY <1>6, <2>1, SetExecType DEF PropagateCancel
<1>7. QED
  BY <1>2, <1>3, <1>4, <1>5, <1>6 DEF ProviderStep

LEMMA LoopType ==
  ASSUME TypeOK, NEW c \in Loops, LoopStep(c)
  PROVE  TypeOK'
<1> USE DEF TypeOK, Goto, PCs, clockVars, loopVars, evidenceVars, Callers
<1>1. CASE RunLoop(c)
  BY <1>1 DEF RunLoop
<1>2. CASE ArmTimer(c)
  BY <1>2, BoundaryAhead DEF ArmTimer
<1>3. CASE TimerFires(c)
  BY <1>3 DEF TimerFires
<1>4. CASE LoopCancelled(c)
  BY <1>4 DEF LoopCancelled
<1>5. CASE LeaveLoop(c)
  BY <1>5 DEF LeaveLoop
<1>6. QED
  BY <1>1, <1>2, <1>3, <1>4, <1>5 DEF LoopStep

LEMMA CollectType ==
  ASSUME TypeOK, NEW c \in Callers, CollectStep(c)
  PROVE  TypeOK'
<1> USE DEF TypeOK, Goto, PCs, Errors, AfterCollect, clockVars, loopVars, evidenceVars
<1>1. CASE CheckContext(c)
  BY <1>1 DEF CheckContext, Refuse
<1>2. CASE BeginRun(c)
  BY <1>2 DEF BeginRun, Refuse
<1>3. CASE StartRun(c)
  <2>1. exec' \in [Callers -> [Subsystems -> Execution]]
    BY FreshType, <1>3 DEF StartRun
  <2>2. run' \in [Callers -> [id : Nat, startedAt : Nat]] /\ runs' \in Nat
    BY <1>3 DEF StartRun
  <2>3. QED
    BY <1>3, <2>1, <2>2 DEF StartRun
<1>4. CASE StoreRun(c)
  <2>1. Reaped(c) \in [Subsystems -> Execution]
    BY FreshType DEF Reaped
  <2>2. Completed(c) \in CompletedRun
    BY CompletedType
  <2>3. QED
    BY <1>4, <2>1, <2>2 DEF StoreRun, StoreLastRun
<1>5. CASE RecordRun(c)
  <2>1. recorded' \in SUBSET Nat
    <3>1. recorded' = recorded \/ recorded' = recorded \cup {run[c].id}
      BY <1>5 DEF RecordRun
    <3>2. run[c].id \in Nat /\ recorded \in SUBSET Nat
      OBVIOUS
    <3>3. QED
      BY <3>1, <3>2
  <2>2. pc' \in [Callers -> PCs] /\ err' \in [Callers -> Errors]
    BY <1>5 DEF RecordRun
  <2>3. QED
    BY <1>5, <2>1, <2>2 DEF RecordRun
<1>6. CASE EndRun(c)
  BY FreshType, <1>6 DEF EndRun
<1>7. QED
  BY <1>1, <1>2, <1>3, <1>4, <1>5, <1>6 DEF CollectStep

LEMMA NextType == TypeOK /\ [Next]_vars => TypeOK'
<1> SUFFICES ASSUME TypeOK, [Next]_vars
             PROVE  TypeOK'
  OBVIOUS
<1>1. ASSUME NEW c \in Triggers, Trigger(c)
      PROVE  TypeOK'
  BY <1>1 DEF Trigger, TypeOK, Goto, PCs, clockVars, loopVars, evidenceVars
<1>2. CASE Tick
  <2>1. \A n \in Nat : Elapse(n) \in Nat
    BY DEF Elapse
  <2>2. \A e \in Execution : [e EXCEPT !.left = Elapse(@)] \in Execution
    BY <2>1 DEF Execution
  <2>3. QED
    BY <1>2, <2>1, <2>2 DEF Tick, TypeOK, clockVars, loopVars, evidenceVars
<1>3. CASE SetClockBack
  BY <1>3 DEF SetClockBack, TypeOK, clockVars, loopVars, evidenceVars
<1>4. ASSUME NEW c \in Callers, Cancel(c)
      PROVE  TypeOK'
  BY <1>4 DEF Cancel, TypeOK, clockVars, loopVars, evidenceVars
<1>5. CASE Stopped \/ UNCHANGED vars
  BY <1>5 DEF Stopped, vars, TypeOK
<1>6. QED
  BY <1>1, <1>2, <1>3, <1>4, <1>5, LoopType, CollectType, ProviderType DEF Next

\* Every field of Service and every local of its goroutines keeps its type.
THEOREM TypeCorrect == Spec => []TypeOK
  BY InitType, NextType, PTL DEF Spec

-----------------------------------------------------------------------------
(***************************************************************************)
(* What the steps with several outcomes leave alone.                       *)
(***************************************************************************)

\* A provider goroutine or its monitor changes exec only.
LEMMA ProviderFrame ==
  ASSUME NEW c, NEW s, ProviderStep(c, s)
  PROVE  \E e : SetExec(c, s, e)
<1>1. CASE StartProvider(c, s)
  BY <1>1, Zenon DEF StartProvider
<1>2. CASE ProviderReturns(c, s)
  BY <1>2, Zenon DEF ProviderReturns
<1>3. CASE SettleProvider(c, s)
  BY <1>3, Zenon DEF SettleProvider
<1>4. CASE MonitorFires(c, s)
  BY <1>4, Zenon DEF MonitorFires
<1>5. CASE PropagateCancel(c, s)
  BY <1>5, Zenon DEF PropagateCancel
<1>6. QED
  BY <1>1, <1>2, <1>3, <1>4, <1>5 DEF ProviderStep

\* Where the context check leads.
LEMMA CheckFrame ==
  ASSUME NEW c, CheckContext(c)
  PROVE  /\ pc[c] = "entering" /\ UNCHANGED <<runActive, loopActive>>
         /\ \E to : /\ pc' = [pc EXCEPT ![c] = to]
                    /\ to \in {"locking", "returned", "leaving", "arming"}
                    /\ c \notin Triggers => to # "returned"
  BY DEF CheckContext, Refuse, Goto, AfterCollect, loopVars

\* beginRun takes the flag or leaves it.
LEMMA BeginFrame ==
  ASSUME NEW c, BeginRun(c)
  PROVE  /\ pc[c] = "locking" /\ UNCHANGED loopActive
         /\ \/ /\ runActive' = runActive
               /\ \E to : /\ pc' = [pc EXCEPT ![c] = to]
                          /\ to \in {"returned", "leaving", "arming"}
                          /\ c \notin Triggers => to # "returned"
            \/ /\ ~runActive /\ runActive'
               /\ pc' = [pc EXCEPT ![c] = "stamping"]
  BY DEF BeginRun, Refuse, Goto, AfterCollect, loopVars

-----------------------------------------------------------------------------
(***************************************************************************)
(* Mutual exclusion.                                                       *)
(***************************************************************************)

\* A caller that stays on its side of beginRun and endRun.
LEMMA RunKept ==
  ASSUME TypeOK, RunExclusion, NEW c \in Callers, NEW to,
         pc' = [pc EXCEPT ![c] = to], runActive' = runActive,
         InRun(c) <=> to \in {"stamping", "joining", "recording", "ending"}
  PROVE  RunExclusion'
<1>1. \A d \in Callers : InRun(d)' <=> InRun(d)
  BY DEF TypeOK, InRun
<1>2. QED
  BY <1>1 DEF RunExclusion

\* A caller that takes the flag.
LEMMA RunTaken ==
  ASSUME TypeOK, RunExclusion, NEW c \in Callers,
         pc' = [pc EXCEPT ![c] = "stamping"], ~runActive, runActive'
  PROVE  RunExclusion'
<1>1. \A d \in Callers : InRun(d)' <=> d = c
  BY DEF TypeOK, InRun, RunExclusion
<1>2. QED
  BY <1>1 DEF RunExclusion

LEMMA RunExclusionStep ==
  TypeOK /\ RunExclusion /\ [Next]_vars => RunExclusion'
<1> SUFFICES ASSUME TypeOK, RunExclusion, [Next]_vars
             PROVE  RunExclusion'
  OBVIOUS
<1> USE DEF TypeOK, RunExclusion, InRun, Goto, clockVars, loopVars, evidenceVars
<1>1. ASSUME NEW c \in Loops, LoopStep(c)
      PROVE  RunExclusion'
  <2>1. /\ ~InRun(c) /\ runActive' = runActive
        /\ \E to : /\ pc' = [pc EXCEPT ![c] = to]
                   /\ to \in {"arming", "waiting", "leaving", "entering", "idle", "exited"}
    BY <1>1 DEF LoopStep, RunLoop, ArmTimer, TimerFires, LoopCancelled, LeaveLoop
  <2>2. QED
    BY <2>1, RunKept DEF Callers
<1>2. ASSUME NEW c \in Triggers, Trigger(c)
      PROVE  RunExclusion'
  BY <1>2 DEF Trigger, Callers
<1>3. ASSUME NEW c \in Callers, CollectStep(c)
      PROVE  RunExclusion'
  <2> USE DEF AfterCollect, Refuse
  <2>1. CASE CheckContext(c)
    BY <2>1, CheckFrame
  <2>2. CASE BeginRun(c)
    BY <2>2, BeginFrame, RunKept, RunTaken
  <2>3. CASE StartRun(c)
    BY <2>3 DEF StartRun
  <2>4. CASE StoreRun(c)
    BY <2>4 DEF StoreRun
  <2>5. CASE RecordRun(c)
    BY <2>5 DEF RecordRun
  <2>6. CASE EndRun(c)
    BY <2>6 DEF EndRun
  <2>7. QED
    BY <1>3, <2>1, <2>2, <2>3, <2>4, <2>5, <2>6 DEF CollectStep
<1>4. ASSUME NEW c \in Callers, NEW s \in Subsystems, ProviderStep(c, s)
      PROVE  RunExclusion'
  BY <1>4, ProviderFrame DEF SetExec
<1>5. CASE Tick \/ SetClockBack \/ (\E c \in Callers : Cancel(c))
  BY <1>5 DEF Tick, SetClockBack, Cancel
<1>6. CASE Stopped \/ UNCHANGED vars
  BY <1>6 DEF Stopped, vars
<1>7. QED
  BY <1>1, <1>2, <1>3, <1>4, <1>5, <1>6 DEF Next

\* A loop or trigger that stays on its side of beginLoop and endLoop.
LEMMA LoopKept ==
  ASSUME TypeOK, LoopExclusion, NEW c \in Callers, NEW to,
         pc' = [pc EXCEPT ![c] = to], loopActive' = loopActive,
         c \in Loops => (InLoop(c) <=> to \notin {"idle", "exited"})
  PROVE  LoopExclusion'
<1>1. \A d \in Loops : InLoop(d)' <=> InLoop(d)
  BY DEF TypeOK, InLoop, Callers
<1>2. QED
  BY <1>1 DEF LoopExclusion

\* A loop that takes the flag.
LEMMA LoopTaken ==
  ASSUME TypeOK, LoopExclusion, NEW c \in Loops,
         pc' = [pc EXCEPT ![c] = "arming"], ~loopActive, loopActive'
  PROVE  LoopExclusion'
<1>1. \A d \in Loops : InLoop(d)' <=> d = c
  BY DEF TypeOK, InLoop, LoopExclusion, Callers
<1>2. QED
  BY <1>1 DEF LoopExclusion

LEMMA LoopExclusionStep ==
  TypeOK /\ LoopExclusion /\ [Next]_vars => LoopExclusion'
<1> SUFFICES ASSUME TypeOK, LoopExclusion, [Next]_vars
             PROVE  LoopExclusion'
  OBVIOUS
<1> USE DEF TypeOK, LoopExclusion, InLoop, Goto, Callers, clockVars, loopVars, evidenceVars
<1>1. ASSUME NEW c \in Loops, LoopStep(c)
      PROVE  LoopExclusion'
  <2>1. CASE RunLoop(c)
    <3>1. \/ pc' = [pc EXCEPT ![c] = "exited"] /\ loopActive' = loopActive
          \/ pc' = [pc EXCEPT ![c] = "arming"] /\ ~loopActive /\ loopActive'
      BY <2>1 DEF RunLoop
    <3>2. pc[c] = "idle"
      BY <2>1 DEF RunLoop
    <3>3. QED
      BY <3>1, <3>2, LoopKept, LoopTaken
  <2>2. CASE LeaveLoop(c)
    BY <2>2 DEF LeaveLoop
  <2>3. CASE ArmTimer(c) \/ TimerFires(c) \/ LoopCancelled(c)
    BY <2>3 DEF ArmTimer, TimerFires, LoopCancelled
  <2>4. QED
    BY <1>1, <2>1, <2>2, <2>3 DEF LoopStep
<1>2. ASSUME NEW c \in Triggers, Trigger(c)
      PROVE  LoopExclusion'
  BY <1>2, OptionsAssumption DEF Trigger
<1>3. ASSUME NEW c \in Callers, CollectStep(c)
      PROVE  LoopExclusion'
  <2> USE DEF AfterCollect, Refuse
  <2>0. c \in Loops => c \notin Triggers
    BY OptionsAssumption
  <2>1. CASE CheckContext(c)
    BY <2>0, <2>1, CheckFrame
  <2>2. CASE BeginRun(c)
    BY <2>0, <2>2, BeginFrame
  <2>3. CASE StartRun(c)
    BY <2>3 DEF StartRun
  <2>4. CASE StoreRun(c)
    BY <2>4 DEF StoreRun
  <2>5. CASE RecordRun(c)
    BY <2>5 DEF RecordRun
  <2>6. CASE EndRun(c)
    BY <2>0, <2>6 DEF EndRun
  <2>7. QED
    BY <1>3, <2>1, <2>2, <2>3, <2>4, <2>5, <2>6 DEF CollectStep
<1>4. ASSUME NEW c \in Callers, NEW s \in Subsystems, ProviderStep(c, s)
      PROVE  LoopExclusion'
  BY <1>4, ProviderFrame DEF SetExec
<1>5. CASE Tick \/ SetClockBack \/ (\E c \in Callers : Cancel(c))
  BY <1>5 DEF Tick, SetClockBack, Cancel
<1>6. CASE Stopped \/ UNCHANGED vars
  BY <1>6 DEF Stopped, vars
<1>7. QED
  BY <1>1, <1>2, <1>3, <1>4, <1>5, <1>6 DEF Next

\* Of all loops and triggers at most one is between beginRun and endRun, and
\* runActive says whether one is.
THEOREM RunsExclude == Spec => []RunExclusion
<1>1. Init => RunExclusion
  BY DEF Init, RunExclusion, InRun
<1>2. QED
  BY <1>1, RunExclusionStep, TypeCorrect, PTL DEF Spec

\* At most one loop is between beginLoop and endLoop.
THEOREM LoopsExclude == Spec => []LoopExclusion
<1>1. Init => LoopExclusion
  BY DEF Init, LoopExclusion, InLoop, Callers
<1>2. QED
  BY <1>1, LoopExclusionStep, TypeCorrect, PTL DEF Spec

-----------------------------------------------------------------------------
(***************************************************************************)
(* The provider goroutines.                                                *)
(***************************************************************************)

\* A provider goroutine lives only while its caller waits to join it.
ExecOwned ==
  \A c \in Callers, s \in Subsystems : exec[c][s].at # "idle" => pc[c] = "joining"

\* A move of c that does not leave the join keeps the goroutines owned.
LEMMA ExecKept ==
  ASSUME TypeOK, ExecOwned, NEW c \in Callers, NEW to,
         pc' = [pc EXCEPT ![c] = to], exec' = exec, pc[c] # "joining"
  PROVE  ExecOwned'
  BY DEF TypeOK, ExecOwned

LEMMA ExecOwnedStep ==
  TypeOK /\ ExecOwned /\ [Next]_vars => ExecOwned'
<1> SUFFICES ASSUME TypeOK, ExecOwned, [Next]_vars
             PROVE  ExecOwned'
  OBVIOUS
<1>1. ASSUME NEW c \in Loops, LoopStep(c)
      PROVE  ExecOwned'
  <2>1. /\ pc[c] # "joining" /\ exec' = exec
        /\ \E to : pc' = [pc EXCEPT ![c] = to]
    BY <1>1 DEF LoopStep, RunLoop, ArmTimer, TimerFires, LoopCancelled, LeaveLoop, Goto
  <2>2. QED
    BY <2>1, ExecKept DEF Callers
<1>2. ASSUME NEW c \in Triggers, Trigger(c)
      PROVE  ExecOwned'
  BY <1>2, ExecKept DEF Trigger, Goto, Callers
<1>3. ASSUME NEW c \in Callers, CollectStep(c)
      PROVE  ExecOwned'
  <2>1. CASE CheckContext(c)
    <3>1. exec' = exec
      BY <2>1 DEF CheckContext, Refuse
    <3>2. QED
      BY <2>1, <3>1, CheckFrame, ExecKept
  <2>2. CASE BeginRun(c)
    <3>1. exec' = exec
      BY <2>2 DEF BeginRun, Refuse
    <3>2. QED
      BY <2>2, <3>1, BeginFrame, ExecKept
  <2>3. CASE StartRun(c)
    <3>1. \A d \in Callers : d # c => exec'[d] = exec[d] /\ pc'[d] = pc[d]
      BY <2>3 DEF StartRun, Goto, TypeOK
    <3>2. pc'[c] = "joining"
      BY <2>3 DEF StartRun, Goto, TypeOK
    <3>3. QED
      BY <3>1, <3>2 DEF ExecOwned
  <2>4. CASE StoreRun(c)
    <3>1. \A s \in Subsystems : exec'[c][s].at = "idle"
      BY <2>4 DEF StoreRun, Joined, Reaped, Idle, Fresh, TypeOK
    <3>2. \A d \in Callers : d # c => exec'[d] = exec[d] /\ pc'[d] = pc[d]
      BY <2>4 DEF StoreRun, Goto, TypeOK
    <3>3. QED
      BY <3>1, <3>2 DEF ExecOwned
  <2>5. CASE RecordRun(c) \/ EndRun(c)
    BY <2>5, ExecKept DEF RecordRun, EndRun, Goto
  <2>6. QED
    BY <1>3, <2>1, <2>2, <2>3, <2>4, <2>5 DEF CollectStep
<1>4. ASSUME NEW c \in Callers, NEW s \in Subsystems, ProviderStep(c, s)
      PROVE  ExecOwned'
  <2>1. exec[c][s].at # "idle"
    BY <1>4 DEF ProviderStep, StartProvider, ProviderReturns, SettleProvider,
                MonitorFires, PropagateCancel, Monitored
  <2>2. PICK e : SetExec(c, s, e)
    BY <1>4, ProviderFrame
  <2>3. \A d \in Callers, t \in Subsystems :
          d # c \/ t # s => exec'[d][t] = exec[d][t]
    BY <2>2 DEF SetExec, TypeOK
  <2>4. QED
    BY <2>1, <2>2, <2>3 DEF ExecOwned, SetExec
<1>5. CASE Tick
  <2>1. \A d \in Callers, t \in Subsystems : exec'[d][t].at = exec[d][t].at
    BY <1>5 DEF Tick, TypeOK, Execution
  <2>2. QED
    BY <1>5, <2>1 DEF Tick, ExecOwned
<1>6. CASE SetClockBack \/ (\E c \in Callers : Cancel(c))
  BY <1>6 DEF SetClockBack, Cancel, ExecOwned
<1>7. CASE Stopped \/ UNCHANGED vars
  BY <1>7 DEF Stopped, vars, ExecOwned
<1>8. QED
  BY <1>1, <1>2, <1>3, <1>4, <1>5, <1>6, <1>7 DEF Next

\* The provider goroutines alive at one moment belong to one run, which is
\* waiting for them: at most two collectors ever run at once.
THEOREM CollectorsBounded == Spec => []CollectorConcurrency
<1>1. Init => ExecOwned
  BY DEF Init, ExecOwned, Idle, Fresh
<1>2. RunExclusion /\ ExecOwned => CollectorConcurrency
  BY DEF RunExclusion, InRun, ExecOwned, CollectorConcurrency
<1>3. QED
  BY <1>1, <1>2, ExecOwnedStep, RunsExclude, TypeCorrect, PTL DEF Spec

-----------------------------------------------------------------------------
(***************************************************************************)
(* The evidence: lastRun, lastSuccess and history.                         *)
(***************************************************************************)

\* Runs are numbered as they begin.  Exclusion makes the numbers ordered: the
\* run being collected is the youngest, the run being recorded is the one
\* shown, and history holds none younger than that.
IdsInOrder ==
  /\ lastRun # NoRun => lastRun.id <= runs
  /\ \A id \in recorded : lastRun # NoRun /\ id <= lastRun.id
  /\ \A c \in Callers :
       pc[c] = "joining" =>
         run[c].id = runs /\ (lastRun # NoRun => lastRun.id < run[c].id)
  /\ \A c \in Callers :
       pc[c] = "recording" =>
         /\ lastRun # NoRun /\ run[c].id = lastRun.id
         /\ \A id \in recorded : id < lastRun.id

EvidenceInv == TypeOK /\ RunExclusion /\ IdsInOrder /\ EvidenceOrder

\* A step that moves no caller into the join or the recorder and leaves the
\* evidence alone.
LEMMA EvidenceKept ==
  ASSUME EvidenceInv, UNCHANGED <<lastRun, lastSuccess, recorded, runs>>,
         \A c \in Callers :
           pc'[c] \in {"joining", "recording"} => pc'[c] = pc[c] /\ run'[c] = run[c]
  PROVE  IdsInOrder' /\ EvidenceOrder'
<1>1. IdsInOrder'
  BY DEF EvidenceInv, IdsInOrder
<1>2. EvidenceOrder'
  BY DEF EvidenceInv, EvidenceOrder
<1>3. QED
  BY <1>1, <1>2

\* What the storing step does.
LEMMA StoreFrame ==
  ASSUME EvidenceInv, NEW c \in Callers, StoreRun(c)
  PROVE  /\ pc[c] = "joining" /\ UNCHANGED <<run, runs, recorded>>
         /\ \/ /\ pc' = [pc EXCEPT ![c] = "recording"]
               /\ lastRun' = Completed(c)
               /\ lastSuccess' = IF lastRun'.status = "succeeded"
                                   THEN lastRun' ELSE lastSuccess
            \/ /\ pc' = [pc EXCEPT ![c] = "ending"]
               /\ UNCHANGED <<lastRun, lastSuccess>>
  BY DEF StoreRun, StoreLastRun, Goto

LEMMA StoreStep ==
  ASSUME EvidenceInv, NEW c \in Callers, StoreRun(c)
  PROVE  IdsInOrder' /\ EvidenceOrder'
<1> USE DEF EvidenceInv
<1>1. CASE pc' = [pc EXCEPT ![c] = "ending"] /\ UNCHANGED <<lastRun, lastSuccess>>
  <2>1. UNCHANGED <<lastRun, lastSuccess, recorded, runs, run>>
    BY <1>1, StoreFrame
  <2>2. QED
    BY <1>1, <2>1, EvidenceKept DEF TypeOK
<1>2. CASE /\ pc' = [pc EXCEPT ![c] = "recording"] /\ lastRun' = Completed(c)
           /\ lastSuccess' = IF lastRun'.status = "succeeded" THEN lastRun' ELSE lastSuccess
  <2>1. pc[c] = "joining" /\ UNCHANGED <<run, runs, recorded>>
    BY StoreFrame
  <2>2. lastRun' \in CompletedRun /\ lastRun' # NoRun
    BY <1>2, CompletedType, NoRunAssumption
  <2>3. lastRun'.id = run[c].id
    BY <1>2 DEF Completed
  <2>4. run[c].id = runs /\ run[c].id \in Nat /\ (lastRun # NoRun => lastRun.id < run[c].id)
    BY <2>1 DEF IdsInOrder, TypeOK
  <2>5. lastRun # NoRun => lastRun.id \in Nat
    BY DEF TypeOK, CompletedRun
  <2>6. \A id \in recorded : id \in Nat /\ id < lastRun'.id
    BY <2>3, <2>4, <2>5 DEF IdsInOrder, TypeOK
  <2>7. \A d \in Callers : d # c => pc'[d] = pc[d] /\ pc[d] \notin {"joining", "recording"}
    BY <1>2, <2>1 DEF RunExclusion, InRun, TypeOK
  <2>8. pc'[c] = "recording"
    BY <1>2 DEF TypeOK
  <2>9. IdsInOrder'
    BY <2>1, <2>2, <2>3, <2>4, <2>6, <2>7, <2>8 DEF IdsInOrder
  <2>10. EvidenceOrder'
    <3>1. lastRun'.id \in Nat
      BY <2>2 DEF CompletedRun
    <3>2. CASE lastRun'.status = "succeeded"
      BY <1>2, <2>2, <3>1, <3>2 DEF EvidenceOrder
    <3>3. CASE lastRun'.status # "succeeded"
      <4>1. lastSuccess' = lastSuccess
        BY <1>2, <3>3
      <4>2. lastSuccess # NoRun => lastSuccess.id \in Nat
        BY DEF TypeOK, CompletedRun
      <4>3. lastSuccess # NoRun => lastSuccess.id <= lastRun'.id
        BY <2>3, <2>4, <2>5, <3>1, <4>2 DEF EvidenceOrder
      <4>4. QED
        BY <2>2, <3>3, <4>1, <4>3 DEF EvidenceOrder
    <3>4. QED
      BY <3>2, <3>3
  <2>11. QED
    BY <2>9, <2>10
<1>3. QED
  BY <1>1, <1>2, StoreFrame

LEMMA EvidenceStep ==
  EvidenceInv /\ [Next]_vars => IdsInOrder' /\ EvidenceOrder'
<1> SUFFICES ASSUME EvidenceInv, [Next]_vars
             PROVE  IdsInOrder' /\ EvidenceOrder'
  OBVIOUS
<1>0. TypeOK
  BY DEF EvidenceInv
<1>1. ASSUME NEW c \in Loops, LoopStep(c)
      PROVE  IdsInOrder' /\ EvidenceOrder'
  <2>1. /\ UNCHANGED <<lastRun, lastSuccess, recorded, runs, run>>
        /\ \E to : /\ pc' = [pc EXCEPT ![c] = to]
                   /\ to \notin {"joining", "recording"}
    BY <1>1 DEF LoopStep, RunLoop, ArmTimer, TimerFires, LoopCancelled, LeaveLoop, Goto,
                evidenceVars
  <2>2. QED
    BY <1>0, <2>1, EvidenceKept DEF TypeOK, Callers
<1>2. ASSUME NEW c \in Triggers, Trigger(c)
      PROVE  IdsInOrder' /\ EvidenceOrder'
  BY <1>0, <1>2, EvidenceKept DEF Trigger, Goto, TypeOK, evidenceVars, Callers
<1>3. ASSUME NEW c \in Callers, CollectStep(c)
      PROVE  IdsInOrder' /\ EvidenceOrder'
  <2>1. CASE CheckContext(c)
    <3>1. UNCHANGED <<lastRun, lastSuccess, recorded, runs, run>>
      BY <2>1 DEF CheckContext, Refuse, evidenceVars
    <3>2. QED
      BY <1>0, <2>1, <3>1, CheckFrame, EvidenceKept DEF TypeOK
  <2>2. CASE BeginRun(c)
    <3>1. UNCHANGED <<lastRun, lastSuccess, recorded, runs, run>>
      BY <2>2 DEF BeginRun, Refuse, evidenceVars
    <3>2. QED
      BY <1>0, <2>2, <3>1, BeginFrame, EvidenceKept DEF TypeOK
  <2>3. CASE StartRun(c)
    <3>1. /\ pc[c] = "stamping" /\ pc' = [pc EXCEPT ![c] = "joining"]
          /\ runs' = runs + 1 /\ run'[c].id = runs + 1
          /\ UNCHANGED <<lastRun, lastSuccess, recorded>>
      BY <1>0, <2>3 DEF StartRun, Goto, TypeOK, evidenceVars
    <3>2. runs \in Nat /\ (lastRun # NoRun => lastRun.id \in Nat)
      BY <1>0 DEF TypeOK, CompletedRun
    <3>3. \A d \in Callers : d # c => pc'[d] = pc[d] /\ pc[d] \notin {"joining", "recording"}
      BY <1>0, <3>1 DEF EvidenceInv, RunExclusion, InRun, TypeOK
    <3>4. pc'[c] = "joining"
      BY <1>0, <3>1 DEF TypeOK
    <3>5. IdsInOrder'
      BY <3>1, <3>2, <3>3, <3>4 DEF EvidenceInv, IdsInOrder
    <3>6. EvidenceOrder'
      BY <3>1 DEF EvidenceInv, EvidenceOrder
    <3>7. QED
      BY <3>5, <3>6
  <2>4. CASE StoreRun(c)
    BY <2>4, StoreStep
  <2>5. CASE RecordRun(c)
    <3>1. /\ pc[c] = "recording" /\ pc' = [pc EXCEPT ![c] = "ending"]
          /\ recorded' = recorded \/ recorded' = recorded \cup {run[c].id}
          /\ UNCHANGED <<lastRun, lastSuccess, runs, run>>
      BY <2>5 DEF RecordRun, Goto
    <3>2. lastRun # NoRun /\ run[c].id = lastRun.id /\ lastRun.id \in Nat
      BY <1>0, <3>1 DEF EvidenceInv, IdsInOrder, TypeOK, CompletedRun
    <3>3. \A d \in Callers : d # c => pc'[d] = pc[d] /\ pc[d] \notin {"joining", "recording"}
      BY <1>0, <3>1 DEF EvidenceInv, RunExclusion, InRun, TypeOK
    <3>4. pc'[c] = "ending"
      BY <1>0, <3>1 DEF TypeOK
    <3>5. IdsInOrder'
      BY <3>1, <3>2, <3>3, <3>4 DEF EvidenceInv, IdsInOrder
    <3>6. EvidenceOrder'
      BY <3>1 DEF EvidenceInv, EvidenceOrder
    <3>7. QED
      BY <3>5, <3>6
  <2>6. CASE EndRun(c)
    <3>1. /\ UNCHANGED <<lastRun, lastSuccess, recorded, runs>>
          /\ pc'[c] \notin {"joining", "recording"}
          /\ \A d \in Callers : d # c => pc'[d] = pc[d] /\ run'[d] = run[d]
      BY <1>0, <2>6 DEF EndRun, Goto, AfterCollect, TypeOK, evidenceVars
    <3>2. QED
      BY <3>1, EvidenceKept
  <2>7. QED
    BY <1>3, <2>1, <2>2, <2>3, <2>4, <2>5, <2>6 DEF CollectStep
<1>4. ASSUME NEW c \in Callers, NEW s \in Subsystems, ProviderStep(c, s)
      PROVE  IdsInOrder' /\ EvidenceOrder'
  BY <1>4, ProviderFrame, EvidenceKept DEF SetExec, evidenceVars
<1>5. CASE Tick \/ SetClockBack \/ (\E c \in Callers : Cancel(c))
  BY <1>5, EvidenceKept DEF Tick, SetClockBack, Cancel, evidenceVars
<1>6. CASE Stopped \/ UNCHANGED vars
  BY <1>6, EvidenceKept DEF Stopped, vars
<1>7. QED
  BY <1>1, <1>2, <1>3, <1>4, <1>5, <1>6 DEF Next

\* The inductive invariant behind every statement about the evidence.
LEMMA EvidenceInvariant == Spec => []EvidenceInv
<1>1. Init => IdsInOrder /\ EvidenceOrder
  BY DEF Init, IdsInOrder, EvidenceOrder
<1>2. QED
  BY <1>1, EvidenceStep, RunsExclude, TypeCorrect, PTL DEF Spec, EvidenceInv

\* LastSuccessfulRun is never ahead of LastRun, always a success, and LastRun
\* itself whenever that succeeded.
THEOREM EvidenceOrdered == Spec => []EvidenceOrder
  BY EvidenceInvariant, PTL DEF EvidenceInv

\* What a caller in the join waits for was spawned and has not been taken.
Awaited ==
  \A c \in Callers, s \in Subsystems :
    pc[c] = "joining" => exec[c][s].at # "idle"

\* Who does not come to the join, and whose goroutines are left alone.
LEMMA AwaitedKept ==
  ASSUME TypeOK, Awaited, NEW c \in Callers, NEW to, to # "joining",
         pc' = [pc EXCEPT ![c] = to], \A d \in Callers \ {c} : exec'[d] = exec[d]
  PROVE  Awaited'
  BY DEF TypeOK, Awaited

LEMMA AwaitedStep ==
  TypeOK /\ Awaited /\ [Next]_vars => Awaited'
<1> SUFFICES ASSUME TypeOK, Awaited, [Next]_vars
             PROVE  Awaited'
  OBVIOUS
<1>1. ASSUME NEW c \in Loops, LoopStep(c)
      PROVE  Awaited'
  <2>1. exec' = exec /\ \E to : to # "joining" /\ pc' = [pc EXCEPT ![c] = to]
    BY <1>1 DEF LoopStep, RunLoop, ArmTimer, TimerFires, LoopCancelled, LeaveLoop, Goto
  <2>2. QED
    BY <2>1, AwaitedKept DEF Callers
<1>2. ASSUME NEW c \in Triggers, Trigger(c)
      PROVE  Awaited'
  BY <1>2, AwaitedKept DEF Trigger, Goto, Callers
<1>3. ASSUME NEW c \in Callers, CollectStep(c)
      PROVE  Awaited'
  <2>1. CASE CheckContext(c)
    <3>1. exec' = exec
      BY <2>1 DEF CheckContext, Refuse
    <3>2. QED
      BY <2>1, <3>1, CheckFrame, AwaitedKept
  <2>2. CASE BeginRun(c)
    <3>1. exec' = exec
      BY <2>2 DEF BeginRun, Refuse
    <3>2. QED
      BY <2>2, <3>1, BeginFrame, AwaitedKept
  <2>3. CASE StartRun(c)
    <3>1. \A d \in Callers : d # c => exec'[d] = exec[d] /\ pc'[d] = pc[d]
      BY <2>3 DEF StartRun, Goto, TypeOK
    <3>2. \A s \in Subsystems : exec'[c][s].at = "spawned"
      BY <2>3 DEF StartRun, TypeOK, Spawned, Fresh
    <3>3. QED
      BY <3>1, <3>2 DEF Awaited
  <2>4. CASE StoreRun(c)
    <3>1. \A d \in Callers \ {c} : exec'[d] = exec[d]
      BY <2>4 DEF StoreRun, TypeOK
    <3>2. \E to : to # "joining" /\ pc' = [pc EXCEPT ![c] = to]
      BY <2>4 DEF StoreRun, Goto
    <3>3. QED
      BY <3>1, <3>2, AwaitedKept
  <2>5. CASE RecordRun(c) \/ EndRun(c)
    BY <2>5, AwaitedKept DEF RecordRun, EndRun, Goto, AfterCollect
  <2>6. QED
    BY <1>3, <2>1, <2>2, <2>3, <2>4, <2>5 DEF CollectStep
<1>4. ASSUME NEW c \in Callers, NEW s \in Subsystems, ProviderStep(c, s)
      PROVE  Awaited'
  <2> DEFINE x == exec[c][s]
  <2>2. x \in Execution
    BY DEF TypeOK
  <2>1. \E e : SetExec(c, s, e) /\ (x.at # "idle" => e.at # "idle")
    <3>1. CASE StartProvider(c, s)
      <4> DEFINE y == [x EXCEPT !.at = "collecting", !.startedAt = now,
                                !.left = CollectorTimeout,
                                !.cause = IF ctxDone[c] THEN "cancelled" ELSE "none"]
      <4>1. y.at = "collecting"
        BY <2>2 DEF Execution
      <4>2. SetExec(c, s, y)
        BY <3>1 DEF StartProvider
      <4> HIDE DEF y
      <4>3. QED
        BY <4>1, <4>2
    <3>2. CASE ProviderReturns(c, s)
      <4>1. PICK r \in Results(s) :
              SetExec(c, s, [x EXCEPT !.at = "returned", !.result = r])
        BY <3>2 DEF ProviderReturns
      <4> DEFINE y == [x EXCEPT !.at = "returned", !.result = r]
      <4>2. y.at = "returned"
        BY <2>2 DEF Execution
      <4>3. SetExec(c, s, y)
        BY <4>1
      <4> HIDE DEF y
      <4>4. QED
        BY <4>2, <4>3
    <3>3. CASE SettleProvider(c, s)
      <4> DEFINE y == [x EXCEPT !.at = "done", !.left = 0,
                                !.finishedAt = Later(x.startedAt, now)]
      <4>1. y.at = "done"
        BY <2>2 DEF Execution
      <4>2. SetExec(c, s, y)
        BY <3>3 DEF SettleProvider
      <4> HIDE DEF y
      <4>3. QED
        BY <4>1, <4>2
    <3>4. CASE MonitorFires(c, s)
      BY <2>2, <3>4 DEF MonitorFires, Execution
    <3>5. CASE PropagateCancel(c, s)
      BY <2>2, <3>5 DEF PropagateCancel, Execution
    <3>6. QED
      BY <1>4, <3>1, <3>2, <3>3, <3>4, <3>5 DEF ProviderStep
  <2>3. x.at # "idle" => exec'[c][s].at # "idle"
    BY <2>1 DEF SetExec, TypeOK
  <2>4. \A d \in Callers, t \in Subsystems :
          d # c \/ t # s => exec'[d][t] = exec[d][t]
    BY <2>1 DEF SetExec, TypeOK
  <2>5. pc' = pc
    BY <2>1 DEF SetExec
  <2>6. QED
    BY <2>3, <2>4, <2>5 DEF Awaited
<1>5. CASE Tick
  <2>1. \A d \in Callers, t \in Subsystems : exec'[d][t].at = exec[d][t].at
    BY <1>5 DEF Tick, TypeOK, Execution
  <2>2. QED
    BY <1>5, <2>1 DEF Tick, Awaited
<1>6. CASE SetClockBack \/ (\E c \in Callers : Cancel(c))
  BY <1>6 DEF SetClockBack, Cancel, Awaited
<1>7. CASE Stopped \/ UNCHANGED vars
  BY <1>7 DEF Stopped, vars, Awaited
<1>8. QED
  BY <1>1, <1>2, <1>3, <1>4, <1>5, <1>6, <1>7 DEF Next

\* However many loops and triggers meet, a caller that waits for results has
\* begun the latest run itself and its two goroutines have yet to be joined.
THEOREM JoinsAreOwn == Spec => []JoinsItsOwnRun
<1>1. Init => Awaited
  BY DEF Init, Awaited
<1>2. EvidenceInv /\ Awaited => JoinsItsOwnRun
  BY DEF EvidenceInv, IdsInOrder, Awaited, JoinsItsOwnRun
<1>3. QED
  BY <1>1, <1>2, AwaitedStep, EvidenceInvariant, TypeCorrect, PTL DEF Spec

-----------------------------------------------------------------------------
(***************************************************************************)
(* The clock: stamps, deadlines and timers.  What a record says of its     *)
(* times follows from when its goroutines read the clock, so the invariant *)
(* follows every goroutine from the reading it starts with to the record.  *)
(***************************************************************************)

\* The goroutine has read its startedAt.
Living(e) == e.at \in {"collecting", "returned", "done"}

\* The stamps of a goroutine lie between from and to.
StampedWithin(e, from, to) ==
  /\ Living(e) => from <= e.startedAt /\ e.startedAt <= to
  /\ e.at = "done" => e.startedAt <= e.finishedAt /\ e.finishedAt <= to

StampsInOrder ==
  steps = 0 =>
    \A c \in Callers :
      pc[c] = "joining" =>
        /\ run[c].startedAt <= now
        /\ \A s \in Subsystems : StampedWithin(exec[c][s], run[c].startedAt, now)

\* At the time t, the timer of a goroutine has counted what has passed since
\* its start, and one that was cut off has a deadline between its stamps.
Timed(e, t) ==
  /\ Monitored(e) => e.startedAt + CollectorTimeout <= t + e.left
  /\ e.cause = "timeout" /\ e.at = "done" =>
       e.finishedAt >= e.startedAt + CollectorTimeout

CausesHappened ==
  \A c \in Callers, s \in Subsystems :
    LET e == exec[c][s]
    IN /\ e.cause = "cancelled" => ctxDone[c]
       /\ e.cause = "timeout" => Living(e) /\ (Monitored(e) => e.left = 0)
       /\ steps = 0 => Timed(e, now)

\* A clock that was not set back moves forward, and a context that is done
\* stays done.
LEMMA TimeMovesOn ==
  ASSUME TypeOK, [Next]_vars
  PROVE  /\ steps' = 0 => steps = 0 /\ now' >= now
         /\ \A c \in Callers : ctxDone[c] => ctxDone'[c]
<1> USE DEF TypeOK, clockVars
<1>1. ASSUME NEW c \in Callers, NEW s \in Subsystems, ProviderStep(c, s)
      PROVE  UNCHANGED <<now, steps, ctxDone>>
  BY <1>1, ProviderFrame DEF SetExec
<1>2. ASSUME NEW c \in Callers, CollectStep(c)
      PROVE  UNCHANGED <<now, steps, ctxDone>>
  BY <1>2 DEF CollectStep, CheckContext, BeginRun, StartRun, StoreRun, RecordRun,
              EndRun, Refuse
<1>3. ASSUME NEW c \in Loops, LoopStep(c)
      PROVE  UNCHANGED <<now, steps, ctxDone>>
  BY <1>3 DEF LoopStep, RunLoop, ArmTimer, TimerFires, LoopCancelled, LeaveLoop
<1>4. ASSUME NEW c \in Triggers, Trigger(c)
      PROVE  UNCHANGED <<now, steps, ctxDone>>
  BY <1>4 DEF Trigger
<1>5. CASE Tick
  BY <1>5 DEF Tick
<1>6. CASE SetClockBack
  BY <1>6 DEF SetClockBack
<1>7. CASE \E c \in Callers : Cancel(c)
  BY <1>7 DEF Cancel
<1>8. CASE Stopped \/ UNCHANGED vars
  BY <1>8 DEF Stopped, vars
<1>9. QED
  BY <1>1, <1>2, <1>3, <1>4, <1>5, <1>6, <1>7, <1>8 DEF Next

\* Who moves the goroutines: their own steps, the caller that spawns or joins
\* them, and time, which runs their timers down.
LEMMA ExecMoves ==
  ASSUME TypeOK, [Next]_vars
  PROVE  \/ /\ exec' = exec
            /\ \A c \in Callers : pc'[c] = "joining" => pc[c] = "joining" /\ run'[c] = run[c]
         \/ \E c \in Callers : StartRun(c) \/ StoreRun(c)
         \/ \E c \in Callers, s \in Subsystems : ProviderStep(c, s)
         \/ Tick
<1> USE DEF TypeOK, Goto
<1>1. ASSUME NEW c \in Loops, LoopStep(c)
      PROVE  /\ exec' = exec /\ run' = run
             /\ \E to : to # "joining" /\ pc' = [pc EXCEPT ![c] = to]
  BY <1>1 DEF LoopStep, RunLoop, ArmTimer, TimerFires, LoopCancelled, LeaveLoop
<1>2. ASSUME NEW c \in Triggers, Trigger(c)
      PROVE  /\ exec' = exec /\ run' = run
             /\ \E to : to # "joining" /\ pc' = [pc EXCEPT ![c] = to]
  BY <1>2 DEF Trigger
<1>3. ASSUME NEW c \in Callers, CollectStep(c), ~StartRun(c), ~StoreRun(c)
      PROVE  exec' = exec /\ \A d \in Callers : pc'[d] = "joining" => pc[d] = "joining" /\ run'[d] = run[d]
  <2>1. CASE CheckContext(c)
    BY <2>1, CheckFrame DEF CheckContext, Refuse
  <2>2. CASE BeginRun(c)
    BY <2>2, BeginFrame DEF BeginRun, Refuse
  <2>3. CASE RecordRun(c)
    BY <2>3 DEF RecordRun
  <2>4. CASE EndRun(c)
    BY <2>4 DEF EndRun, AfterCollect
  <2>5. QED
    BY <1>3, <2>1, <2>2, <2>3, <2>4 DEF CollectStep
<1>4. CASE SetClockBack \/ (\E c \in Callers : Cancel(c)) \/ Stopped \/ UNCHANGED vars
  BY <1>4 DEF SetClockBack, Cancel, Stopped, vars
<1>5. QED
  BY <1>1, <1>2, <1>3, <1>4 DEF Next

-----------------------------------------------------------------------------
\* A step of a goroutine keeps its stamps in order and its causes true.
LEMMA ProviderClock ==
  ASSUME TypeOK, ExecOwned, StampsInOrder, CausesHappened,
         NEW c \in Callers, NEW s \in Subsystems, ProviderStep(c, s)
  PROVE  StampsInOrder' /\ CausesHappened'
<1> DEFINE e == exec[c][s]
<1> DEFINE f == exec'[c][s]
<1>1. /\ e \in Execution /\ now \in Nat /\ CollectorTimeout \in Nat /\ ctxDone[c] \in BOOLEAN
      /\ run[c].startedAt \in Nat
  BY OptionsAssumption DEF TypeOK
<1>2. PICK g : SetExec(c, s, g)
  BY ProviderFrame
<1>3. /\ UNCHANGED <<now, steps, pc, ctxDone, run>> /\ f = g
      /\ \A d \in Callers, t \in Subsystems : d # c \/ t # s => exec'[d][t] = exec[d][t]
  BY <1>2 DEF SetExec, TypeOK, clockVars
<1>4. e.at # "idle" /\ pc[c] = "joining"
  BY DEF ExecOwned, ProviderStep, StartProvider, ProviderReturns, SettleProvider,
         MonitorFires, PropagateCancel, Monitored
<1>5. /\ steps = 0 => run[c].startedAt <= now /\ StampedWithin(e, run[c].startedAt, now)
      /\ e.cause = "cancelled" => ctxDone[c]
      /\ e.cause = "timeout" => Living(e) /\ (Monitored(e) => e.left = 0)
      /\ steps = 0 => Timed(e, now)
  BY <1>4 DEF StampsInOrder, CausesHappened
<1>6. /\ steps = 0 => StampedWithin(f, run[c].startedAt, now)
      /\ f.cause = "cancelled" => ctxDone[c]
      /\ f.cause = "timeout" => Living(f) /\ (Monitored(f) => f.left = 0)
      /\ steps = 0 => Timed(f, now)
  <2> USE DEF StampedWithin, Timed, Living, Monitored
  <2>1. CASE StartProvider(c, s)
    <3>1. f = [e EXCEPT !.at = "collecting", !.startedAt = now, !.left = CollectorTimeout,
                        !.cause = IF ctxDone[c] THEN "cancelled" ELSE "none"]
      BY <2>1 DEF StartProvider, SetExec, TypeOK
    <3> HIDE DEF e, f
    <3>2. /\ f.at = "collecting" /\ f.startedAt = now /\ f.left = CollectorTimeout
          /\ f.cause = IF ctxDone[c] THEN "cancelled" ELSE "none"
      BY <1>1, <3>1 DEF Execution
    <3>3. QED
      BY <1>1, <1>5, <3>2
  <2>2. CASE ProviderReturns(c, s)
    <3>1. /\ e.at = "collecting"
          /\ \E r \in Results(s) : f = [e EXCEPT !.at = "returned", !.result = r]
      <4>1. e.at = "collecting"
        BY <2>2 DEF ProviderReturns
      <4>2. PICK r \in Results(s) :
              SetExec(c, s, [exec[c][s] EXCEPT !.at = "returned", !.result = r])
        BY <2>2 DEF ProviderReturns
      <4>3. f = [e EXCEPT !.at = "returned", !.result = r]
        BY <4>2 DEF SetExec, TypeOK
      <4>4. QED
        BY <4>1, <4>3
    <3> HIDE DEF e, f
    <3>2. /\ f.at = "returned" /\ f.startedAt = e.startedAt /\ f.left = e.left
          /\ f.cause = e.cause
      BY <1>1, <3>1 DEF Execution
    <3>3. QED
      BY <1>1, <1>5, <3>1, <3>2
  <2>3. CASE SettleProvider(c, s)
    <3>1. /\ e.at = "returned"
          /\ f = [e EXCEPT !.at = "done", !.left = 0,
                           !.finishedAt = Later(e.startedAt, now)]
      BY <2>3 DEF SettleProvider, SetExec, TypeOK
    <3> HIDE DEF e, f
    <3>2. /\ f.at = "done" /\ f.startedAt = e.startedAt /\ f.cause = e.cause
          /\ f.finishedAt = Later(e.startedAt, now)
      BY <1>1, <3>1 DEF Execution
    <3>3. e.startedAt \in Nat /\ e.left \in Nat
      BY <1>1 DEF Execution
    <3>4. QED
      BY <1>1, <1>5, <3>1, <3>2, <3>3 DEF Later
  <2>4. CASE MonitorFires(c, s)
    <3>1. /\ Monitored(e) /\ e.left = 0
          /\ f = [e EXCEPT !.cause = "timeout"]
      BY <2>4 DEF MonitorFires, SetExec, TypeOK
    <3> HIDE DEF e, f
    <3>2. /\ f.at = e.at /\ f.startedAt = e.startedAt /\ f.left = e.left
          /\ f.cause = "timeout" /\ f.finishedAt = e.finishedAt
      BY <1>1, <3>1 DEF Execution
    <3>3. QED
      BY <1>1, <1>5, <3>1, <3>2
  <2>5. CASE PropagateCancel(c, s)
    <3>1. /\ Monitored(e) /\ ctxDone[c]
          /\ f = [e EXCEPT !.cause = "cancelled"]
      BY <2>5 DEF PropagateCancel, SetExec, TypeOK
    <3> HIDE DEF e, f
    <3>2. /\ f.at = e.at /\ f.startedAt = e.startedAt /\ f.left = e.left
          /\ f.cause = "cancelled" /\ f.finishedAt = e.finishedAt
      BY <1>1, <3>1 DEF Execution
    <3>3. QED
      BY <1>1, <1>5, <3>1, <3>2
  <2>6. QED
    BY <2>1, <2>2, <2>3, <2>4, <2>5 DEF ProviderStep
<1> HIDE DEF e, f
<1>7. StampsInOrder'
  <2>1. SUFFICES ASSUME steps = 0, NEW d \in Callers, pc[d] = "joining", NEW t \in Subsystems
                 PROVE  /\ run[d].startedAt <= now
                        /\ StampedWithin(exec'[d][t], run[d].startedAt, now)
    BY <1>3 DEF StampsInOrder
  <2>2. QED
    BY <1>3, <1>6, <2>1 DEF StampsInOrder, f
<1>8. CausesHappened'
  <2>1. SUFFICES ASSUME NEW d \in Callers, NEW t \in Subsystems
                 PROVE  /\ exec'[d][t].cause = "cancelled" => ctxDone[d]
                        /\ exec'[d][t].cause = "timeout" =>
                             Living(exec'[d][t]) /\ (Monitored(exec'[d][t]) => exec'[d][t].left = 0)
                        /\ steps = 0 => Timed(exec'[d][t], now)
    BY <1>3 DEF CausesHappened
  <2>2. QED
    BY <1>3, <1>6 DEF CausesHappened, f
<1>9. QED
  BY <1>7, <1>8

\* Beginning and joining a run: what is spawned has no stamps yet, and what is
\* joined is gone.
LEMMA RunClock ==
  ASSUME TypeOK, RunExclusion, StampsInOrder, CausesHappened,
         NEW c \in Callers, StartRun(c) \/ StoreRun(c)
  PROVE  StampsInOrder' /\ CausesHappened'
<1> DEFINE Unstamped(e) == e.at \in {"idle", "spawned"} /\ e.cause = "none"
<1>1. Unstamped(Idle) /\ Unstamped(Spawned)
  BY DEF Idle, Spawned, Fresh
<1>2. /\ UNCHANGED <<now, steps, ctxDone>>
      /\ \A d \in Callers : d # c => pc'[d] = pc[d] /\ run'[d] = run[d] /\ exec'[d] = exec[d]
      /\ now \in Nat
  BY DEF StartRun, StoreRun, Goto, TypeOK, clockVars
<1>3. pc'[c] = "joining" => run'[c].startedAt = now
  BY DEF StartRun, StoreRun, Goto, TypeOK
<1>4. \A s \in Subsystems : Unstamped(exec'[c][s])
  BY <1>1 DEF StartRun, StoreRun, Joined, Reaped, TypeOK
<1>5. StampsInOrder'
  BY <1>2, <1>3, <1>4 DEF StampsInOrder, StampedWithin, Living
<1>6. CausesHappened'
  <2>1. \A s \in Subsystems :
          LET e == exec'[c][s]
          IN e.cause = "none" /\ ~Living(e) /\ Timed(e, now)
    BY <1>4 DEF Living, Timed, Monitored
  <2>2. QED
    BY <1>2, <2>1 DEF CausesHappened
<1>7. QED
  BY <1>5, <1>6

\* Time runs the timers down and moves no stamp.
LEMMA TickClock ==
  ASSUME TypeOK, StampsInOrder, CausesHappened, Tick
  PROVE  StampsInOrder' /\ CausesHappened'
<1>1. /\ now \in Nat /\ now' = now + 1 /\ UNCHANGED <<steps, pc, run, ctxDone>>
      /\ CollectorTimeout \in Nat
  BY OptionsAssumption DEF Tick, TypeOK
<1>2. ASSUME NEW c \in Callers, NEW s \in Subsystems
      PROVE  /\ exec'[c][s].left = Elapse(exec[c][s].left)
             /\ exec'[c][s].at = exec[c][s].at
             /\ exec'[c][s].cause = exec[c][s].cause
             /\ exec'[c][s].startedAt = exec[c][s].startedAt
             /\ exec'[c][s].finishedAt = exec[c][s].finishedAt
             /\ exec[c][s].left \in Nat /\ exec[c][s].startedAt \in Nat
             /\ exec[c][s].finishedAt \in Nat
  <2>1. exec[c][s] \in Execution
    BY DEF TypeOK
  <2>2. exec'[c][s] = [exec[c][s] EXCEPT !.left = Elapse(@)]
    BY DEF Tick
  <2>3. QED
    BY <2>1, <2>2 DEF Execution
<1>3. StampsInOrder'
  <2>1. SUFFICES ASSUME steps = 0, NEW c \in Callers, pc[c] = "joining", NEW s \in Subsystems
                 PROVE  /\ run[c].startedAt <= now'
                        /\ StampedWithin(exec'[c][s], run[c].startedAt, now')
    BY <1>1 DEF StampsInOrder, Subsystems
  <2>2. /\ run[c].startedAt <= now /\ run[c].startedAt \in Nat
        /\ StampedWithin(exec[c][s], run[c].startedAt, now)
    BY <2>1 DEF StampsInOrder, TypeOK
  <2>3. QED
    BY <1>1, <1>2, <2>2 DEF StampedWithin, Living
<1>4. CausesHappened'
  <2>1. SUFFICES ASSUME NEW c \in Callers, NEW s \in Subsystems
                 PROVE  LET e == exec'[c][s]
                        IN /\ e.cause = "cancelled" => ctxDone[c]
                           /\ e.cause = "timeout" => Living(e) /\ (Monitored(e) => e.left = 0)
                           /\ steps = 0 => Timed(e, now')
    BY <1>1 DEF CausesHappened
  <2>2. LET e == exec[c][s]
        IN /\ e.cause = "cancelled" => ctxDone[c]
           /\ e.cause = "timeout" => Living(e) /\ (Monitored(e) => e.left = 0)
           /\ steps = 0 => Timed(e, now)
    BY DEF CausesHappened
  <2>3. QED
    BY <1>1, <1>2, <2>2 DEF Timed, Monitored, Living, Elapse
<1>5. QED
  BY <1>3, <1>4

ClockInv == TypeOK /\ RunExclusion /\ ExecOwned /\ StampsInOrder /\ CausesHappened

LEMMA ClockStep ==
  ClockInv /\ [Next]_vars => StampsInOrder' /\ CausesHappened'
<1> SUFFICES ASSUME ClockInv, [Next]_vars
             PROVE  StampsInOrder' /\ CausesHappened'
  OBVIOUS
<1> USE DEF ClockInv
<1>1. CASE /\ exec' = exec
           /\ \A c \in Callers : pc'[c] = "joining" => pc[c] = "joining" /\ run'[c] = run[c]
  <2>1. StampsInOrder'
    <3>1. SUFFICES ASSUME steps' = 0, NEW c \in Callers, pc'[c] = "joining", NEW s \in Subsystems
                   PROVE  /\ run'[c].startedAt <= now'
                          /\ StampedWithin(exec[c][s], run'[c].startedAt, now')
      BY <1>1 DEF StampsInOrder, Subsystems
    <3>2. steps = 0 /\ now' >= now /\ now' \in Nat /\ now \in Nat
      BY <3>1, TimeMovesOn, NextType DEF TypeOK
    <3>3. /\ run[c] = run'[c] /\ run[c].startedAt <= now /\ run[c].startedAt \in Nat
          /\ StampedWithin(exec[c][s], run[c].startedAt, now)
      BY <1>1, <3>1, <3>2 DEF StampsInOrder, TypeOK
    <3>4. exec[c][s].startedAt \in Nat /\ exec[c][s].finishedAt \in Nat
      BY DEF TypeOK, Execution
    <3>5. QED
      BY <3>2, <3>3, <3>4 DEF StampedWithin
  <2>2. CausesHappened'
    <3>1. SUFFICES ASSUME NEW c \in Callers, NEW s \in Subsystems
                   PROVE  LET e == exec[c][s]
                          IN /\ e.cause = "cancelled" => ctxDone'[c]
                             /\ e.cause = "timeout" => Living(e) /\ (Monitored(e) => e.left = 0)
                             /\ steps' = 0 => Timed(e, now')
      BY <1>1 DEF CausesHappened
    <3>2. /\ ctxDone[c] => ctxDone'[c]
          /\ steps' = 0 => steps = 0 /\ now' >= now
          /\ now \in Nat /\ now' \in Nat /\ CollectorTimeout \in Nat
      BY TimeMovesOn, NextType, OptionsAssumption DEF TypeOK
    <3>3. exec[c][s].startedAt \in Nat /\ exec[c][s].left \in Nat
      BY DEF TypeOK, Execution
    <3>4. QED
      BY <3>2, <3>3 DEF CausesHappened, Timed
  <2>3. QED
    BY <2>1, <2>2
<1>2. CASE \E c \in Callers : StartRun(c) \/ StoreRun(c)
  BY <1>2, RunClock
<1>3. CASE \E c \in Callers, s \in Subsystems : ProviderStep(c, s)
  BY <1>3, ProviderClock
<1>4. CASE Tick
  BY <1>4, TickClock
<1>5. QED
  BY <1>1, <1>2, <1>3, <1>4, ExecMoves

\* Every stamp and every cause, in every reachable state.
LEMMA ClockInvariant == Spec => []ClockInv
<1>1. Init => ExecOwned /\ StampsInOrder /\ CausesHappened
  <2>1. SUFFICES ASSUME Init
                 PROVE  ExecOwned /\ StampsInOrder /\ CausesHappened
    OBVIOUS
  <2>2. \A c \in Callers, s \in Subsystems :
          pc[c] = "idle" /\ exec[c][s].at = "idle" /\ exec[c][s].cause = "none"
    <3>1. \A c \in Callers, s \in Subsystems : pc[c] = "idle" /\ exec[c][s] = Idle
      BY <2>1 DEF Init
    <3>2. QED
      BY <3>1 DEF Idle, Fresh
  <2>3. ExecOwned /\ StampsInOrder
    BY <2>2 DEF ExecOwned, StampsInOrder, Subsystems
  <2>4. CausesHappened
    BY <2>2 DEF CausesHappened, Timed, Monitored
  <2>5. QED
    BY <2>3, <2>4
<1>2. QED
  BY <1>1, ClockStep, ExecOwnedStep, RunsExclude, TypeCorrect, PTL DEF Spec, ClockInv

-----------------------------------------------------------------------------
(***************************************************************************)
(* What the clock decides: whether a record is accepted, and what cause it *)
(* names.                                                                  *)
(***************************************************************************)

\* The outcome of a settled goroutine has its stamps, and names a cut-off
\* exactly as its context was cut off; with its stamps in order it is valid.
LEMMA OutcomeOfSettled ==
  ASSUME NEW e \in Execution
  PROVE  LET o == OutcomeOf(e)
         IN /\ o.startedAt = e.startedAt /\ o.finishedAt = e.finishedAt
            /\ o.code = "collector_timeout" => e.cause = "timeout"
            /\ o.code = "collection_cancelled" => e.cause = "cancelled"
            /\ e.startedAt <= e.finishedAt => OutcomeValid(o)
            /\ o.status # "not_attempted"
<1> DEFINE failure(code) == [status |-> "failed", code |-> code,
                             startedAt |-> e.startedAt, finishedAt |-> e.finishedAt]
<1> DEFINE settled == [status |-> e.result.status, code |-> e.result.code,
                       startedAt |-> e.startedAt, finishedAt |-> e.finishedAt]
<1>1. /\ e.cause \in {"none", "timeout", "cancelled"}
      /\ e.result.code \in {"none", "provider_error"} /\ e.result.status \in Statuses
  BY DEF Execution, Causes, Result
<1>2. \/ e.cause = "timeout" /\ OutcomeOf(e) = failure("collector_timeout")
      \/ e.cause = "cancelled" /\ OutcomeOf(e) = failure("collection_cancelled")
      \/ e.cause = "none" /\ ~ResultValid(e.result)
         /\ OutcomeOf(e) = failure("invalid_collector_result")
      \/ e.cause = "none" /\ ResultValid(e.result) /\ OutcomeOf(e) = settled
  BY <1>1 DEF OutcomeOf
<1>3. CASE e.cause = "none" /\ ResultValid(e.result) /\ OutcomeOf(e) = settled
  BY <1>1, <1>3 DEF OutcomeValid, ResultValid, Statuses, Execution
<1>4. CASE ~(e.cause = "none" /\ ResultValid(e.result))
  BY <1>1, <1>2, <1>4 DEF OutcomeValid, Execution
<1>5. QED
  BY <1>2, <1>3, <1>4

\* On a clock that was not set back the record of joined goroutines is valid.
LEMMA JoinedIsValid ==
  ASSUME ClockInv, steps = 0, NEW c \in Callers, pc[c] = "joining", Joined(c)
  PROVE  RunValid(Completed(c))
<1> DEFINE host == OutcomeOf(exec[c]["host"])
<1> DEFINE docker == OutcomeOf(exec[c]["docker"])
<1>1. /\ now \in Nat /\ run[c].startedAt \in Nat /\ run[c].startedAt <= now
      /\ \A s \in Subsystems :
           /\ exec[c][s] \in Execution
           /\ exec[c][s].startedAt \in Nat /\ exec[c][s].finishedAt \in Nat
           /\ run[c].startedAt <= exec[c][s].startedAt
           /\ exec[c][s].startedAt <= exec[c][s].finishedAt
           /\ exec[c][s].finishedAt <= now
  BY DEF ClockInv, TypeOK, StampsInOrder, StampedWithin, Living, Joined, Execution, Subsystems
<1>2. \A o \in {host, docker} :
        /\ OutcomeValid(o) /\ o.status # "not_attempted"
        /\ run[c].startedAt <= o.startedAt /\ o.finishedAt <= now
  BY <1>1, OutcomeOfSettled DEF Subsystems
<1> HIDE DEF host, docker
<1>3. /\ Completed(c).host = host /\ Completed(c).docker = docker
      /\ Completed(c).startedAt = run[c].startedAt
      /\ Completed(c).finishedAt = Later(run[c].startedAt, now)
      /\ Completed(c).status = Aggregate(host.status, docker.status)
  BY DEF Completed, host, docker
<1>4. Later(run[c].startedAt, now) = now
  BY <1>1 DEF Later
<1>5. Aggregate(host.status, docker.status) # "not_attempted"
  BY DEF Aggregate
<1>6. QED
  BY <1>1, <1>2, <1>3, <1>4, <1>5 DEF RunValid

\* Only the storing step rejects a record.
LEMMA WhoRejects ==
  ASSUME TypeOK, [Next]_vars, NEW c \in Callers, err'[c] = "invalid_run"
  PROVE  \/ err[c] = "invalid_run"
         \/ StoreRun(c) /\ ~RunValid(Completed(c))
<1> USE DEF TypeOK
<1>1. ASSUME NEW d \in Loops, LoopStep(d)
      PROVE  err' = err
  BY <1>1 DEF LoopStep, RunLoop, ArmTimer, TimerFires, LoopCancelled, LeaveLoop
<1>2. ASSUME NEW d \in Triggers, Trigger(d)
      PROVE  err' = err
  BY <1>2 DEF Trigger
<1>3. ASSUME NEW d \in Callers, CollectStep(d)
      PROVE  \/ err[c] = "invalid_run"
             \/ StoreRun(c) /\ ~RunValid(Completed(c))
  <2>1. CASE CheckContext(d) \/ BeginRun(d)
    BY <2>1 DEF CheckContext, BeginRun, Refuse
  <2>2. CASE StartRun(d) \/ EndRun(d)
    BY <2>2 DEF StartRun, EndRun
  <2>3. CASE RecordRun(d)
    BY <2>3 DEF RecordRun
  <2>4. CASE StoreRun(d)
    <3>1. \/ err' = err
          \/ ~RunValid(Completed(d)) /\ err' = [err EXCEPT ![d] = "invalid_run"]
      BY <2>4 DEF StoreRun
    <3>2. QED
      BY <2>4, <3>1
  <2>5. QED
    BY <1>3, <2>1, <2>2, <2>3, <2>4 DEF CollectStep
<1>4. ASSUME NEW d \in Callers, NEW s \in Subsystems, ProviderStep(d, s)
      PROVE  err' = err
  BY <1>4, ProviderFrame DEF SetExec
<1>5. CASE Tick \/ SetClockBack \/ (\E d \in Callers : Cancel(d)) \/ Stopped \/ UNCHANGED vars
  BY <1>5 DEF Tick, SetClockBack, Cancel, Stopped, vars
<1>6. QED
  BY <1>1, <1>2, <1>3, <1>4, <1>5 DEF Next

\* However long providers take, whatever they return and however the steps of
\* the goroutines interleave, collect rejects no record of its own unless the
\* wall clock was set back.
THEOREM RecordsAreAccepted == Spec => []NoRunRejected
<1>1. Init => NoRunRejected
  BY DEF Init, NoRunRejected
<1>2. ClockInv /\ NoRunRejected /\ [Next]_vars => NoRunRejected'
  <2>1. SUFFICES ASSUME ClockInv, NoRunRejected, [Next]_vars, steps' = 0,
                        NEW c \in Callers, err'[c] = "invalid_run"
                 PROVE  FALSE
    BY DEF NoRunRejected
  <2>2. TypeOK /\ steps = 0
    BY <2>1, TimeMovesOn DEF ClockInv
  <2>3. StoreRun(c) /\ ~RunValid(Completed(c))
    BY <2>1, <2>2, WhoRejects DEF NoRunRejected
  <2>4. pc[c] = "joining" /\ Joined(c)
    BY <2>3 DEF StoreRun, Goto
  <2>5. QED
    BY <2>1, <2>2, <2>3, <2>4, JoinedIsValid
<1>3. QED
  BY <1>1, <1>2, ClockInvariant, PTL DEF Spec

\* Only the storing step shows another run.
LEMMA WhoShows ==
  ASSUME [Next]_vars, lastRun' # lastRun
  PROVE  \E c \in Callers : StoreRun(c) /\ lastRun' = Completed(c)
<1>1. ASSUME NEW d \in Loops, LoopStep(d)
      PROVE  lastRun' = lastRun
  BY <1>1 DEF LoopStep, RunLoop, ArmTimer, TimerFires, LoopCancelled, LeaveLoop, evidenceVars
<1>2. ASSUME NEW d \in Triggers, Trigger(d)
      PROVE  lastRun' = lastRun
  BY <1>2 DEF Trigger, evidenceVars
<1>3. ASSUME NEW d \in Callers, CollectStep(d)
      PROVE  lastRun' = lastRun \/ (StoreRun(d) /\ lastRun' = Completed(d))
  BY <1>3 DEF CollectStep, CheckContext, BeginRun, StartRun, StoreRun, RecordRun, EndRun,
              Refuse, StoreLastRun, evidenceVars
<1>4. ASSUME NEW d \in Callers, NEW s \in Subsystems, ProviderStep(d, s)
      PROVE  lastRun' = lastRun
  BY <1>4, ProviderFrame DEF SetExec, evidenceVars
<1>5. CASE Tick \/ SetClockBack \/ (\E d \in Callers : Cancel(d)) \/ Stopped \/ UNCHANGED vars
  BY <1>5 DEF Tick, SetClockBack, Cancel, Stopped, vars, evidenceVars
<1>6. QED
  BY <1>1, <1>2, <1>3, <1>4, <1>5 DEF Next

\* A timeout in the record took the whole deadline of that provider, and a
\* cancellation came from the caller of that run.
THEOREM FailuresHaveCauses == Spec => []FailureHasCause
<1>1. Init => FailureHasCause
  BY DEF Init, FailureHasCause
<1>2. ClockInv /\ FailureHasCause /\ [Next]_vars => FailureHasCause'
  <2> SUFFICES ASSUME ClockInv, FailureHasCause, [Next]_vars
               PROVE  FailureHasCause'
    OBVIOUS
  <2>1. /\ steps' = 0 => steps = 0
        /\ \A c \in Callers : ctxDone[c] => ctxDone'[c]
    BY TimeMovesOn DEF ClockInv
  <2>2. CASE lastRun' = lastRun
    <3>1. lastRun # NoRun => lastRun.by \in Callers
      BY DEF ClockInv, TypeOK, CompletedRun
    <3>2. QED
      BY <2>1, <2>2, <3>1 DEF FailureHasCause
  <2>3. CASE lastRun' # lastRun
    <3>1. PICK c \in Callers : StoreRun(c) /\ lastRun' = Completed(c)
      BY <2>3, WhoShows
    <3>2. Joined(c) /\ UNCHANGED <<steps, ctxDone>>
      BY <3>1 DEF StoreRun, clockVars
    <3>3. \A s \in Subsystems :
            LET o == OutcomeOf(exec[c][s])
            IN /\ o.code = "collector_timeout" /\ steps = 0 =>
                    o.finishedAt >= o.startedAt + CollectorTimeout
               /\ o.code = "collection_cancelled" => ctxDone[c]
      <4>1. SUFFICES ASSUME NEW s \in Subsystems
                     PROVE  LET o == OutcomeOf(exec[c][s])
                            IN /\ o.code = "collector_timeout" /\ steps = 0 =>
                                    o.finishedAt >= o.startedAt + CollectorTimeout
                               /\ o.code = "collection_cancelled" => ctxDone[c]
        OBVIOUS
      <4>2. exec[c][s] \in Execution /\ exec[c][s].at = "done"
        BY <3>2 DEF ClockInv, TypeOK, Joined
      <4>3. QED
        BY <4>2, OutcomeOfSettled DEF ClockInv, CausesHappened, Timed
    <3>4. /\ lastRun'.by = c
          /\ lastRun'.host = OutcomeOf(exec[c]["host"])
          /\ lastRun'.docker = OutcomeOf(exec[c]["docker"])
      BY <3>1 DEF Completed
    <3>5. QED
      BY <3>2, <3>3, <3>4 DEF FailureHasCause, Subsystems
  <2>4. QED
    BY <2>2, <2>3
<1>3. QED
  BY <1>1, <1>2, ClockInvariant, PTL DEF Spec

-----------------------------------------------------------------------------
(***************************************************************************)
(* The loop's timer: it is armed up to the next boundary and counts what   *)
(* passes, so when it fires the boundary is reached.                       *)
(***************************************************************************)

TimersReach ==
  steps = 0 =>
    \A c \in Loops :
      /\ pc[c] = "waiting" => now + wait[c] >= NextBoundary(armed[c])
      /\ pc[c] \in {"entering", "locking", "stamping"} => now >= NextBoundary(armed[c])

\* A boundary is the beginning of a later minute.
LEMMA BoundaryIsLater ==
  ASSUME NEW t \in Nat, NEW u \in Nat, u >= NextBoundary(t)
  PROVE  u \div Period > t \div Period
<1> DEFINE p == t \div Period
<1> DEFINE q == u \div Period
<1>1. Period \in Nat \ {0}
  BY OptionsAssumption
<1>2. p \in Nat /\ q \in Nat
  BY <1>1
<1>3. u < (q + 1) * Period
  <2>1. u = Period * q + (u % Period) /\ u % Period \in 0 .. Period - 1
    BY <1>1
  <2> HIDE DEF q
  <2>2. (q + 1) * Period = Period * q + Period
    BY <1>1, <1>2, SMT
  <2>3. Period * q \in Nat
    BY <1>1, <1>2, SMT
  <2>4. QED
    BY <1>1, <2>1, <2>2, <2>3
<1>4. (p + 1) * Period <= u
  BY DEF NextBoundary
<1> HIDE DEF p, q
<1>5. ASSUME q <= p PROVE FALSE
  <2>1. (q + 1) * Period <= (p + 1) * Period
    BY <1>1, <1>2, <1>5, SMT
  <2>2. (q + 1) * Period \in Nat /\ (p + 1) * Period \in Nat
    BY <1>1, <1>2, SMT
  <2>3. QED
    BY <1>3, <1>4, <2>1, <2>2
<1>6. p < q
  BY <1>2, <1>5
<1>7. QED
  BY <1>2, <1>6 DEF p, q

LEMMA BoundaryType ==
  ASSUME NEW t \in Nat
  PROVE  NextBoundary(t) \in Nat
<1>1. NextBoundary(t) - t \in Nat /\ NextBoundary(t) \in Int
  BY BoundaryAhead, OptionsAssumption DEF NextBoundary
<1>2. QED
  BY <1>1

\* Every loop stays where it is or comes from where its timer has fired.
TimersStay ==
  \A c \in Loops :
    /\ pc'[c] = "waiting" => pc[c] = "waiting" /\ UNCHANGED <<armed[c], wait[c]>>
    /\ pc'[c] \in {"entering", "locking", "stamping"} =>
         /\ \/ pc[c] \in {"entering", "locking", "stamping"}
            \/ pc[c] = "waiting" /\ wait[c] = 0
         /\ armed'[c] = armed[c]

LEMMA TimersKept ==
  ASSUME TypeOK, TypeOK', TimersReach, steps' = 0 => steps = 0 /\ now' >= now,
         TimersStay
  PROVE  TimersReach'
<1>1. SUFFICES ASSUME steps' = 0, NEW c \in Loops
               PROVE  /\ pc'[c] = "waiting" => now' + wait'[c] >= NextBoundary(armed'[c])
                      /\ pc'[c] \in {"entering", "locking", "stamping"} =>
                           now' >= NextBoundary(armed'[c])
  BY DEF TimersReach
<1>2. /\ now \in Nat /\ now' \in Nat /\ now' >= now /\ steps = 0
      /\ wait[c] \in Nat /\ armed[c] \in Nat
  BY <1>1 DEF TypeOK
<1>3. NextBoundary(armed[c]) \in Nat
  BY <1>2, BoundaryType
<1>4. QED
  BY <1>2, <1>3 DEF TimersReach, TimersStay

LEMMA TimersStep ==
  TypeOK /\ TimersReach /\ [Next]_vars => TimersReach'
<1> SUFFICES ASSUME TypeOK, TimersReach, [Next]_vars
             PROVE  TimersReach'
  OBVIOUS
<1>0. TypeOK' /\ (steps' = 0 => steps = 0 /\ now' >= now)
  BY NextType, TimeMovesOn
<1>k. TimersStay => TimersReach'
  BY <1>0, TimersKept
<1> USE DEF TypeOK, Goto, Callers
<1>1. ASSUME NEW c \in Loops, LoopStep(c)
      PROVE  TimersReach'
  <2>1. CASE ArmTimer(c)
    <3>1. /\ pc' = [pc EXCEPT ![c] = "waiting"] /\ armed' = [armed EXCEPT ![c] = now]
          /\ wait' = [wait EXCEPT ![c] = NextBoundary(now) - now]
          /\ UNCHANGED <<now, steps>>
      BY <2>1 DEF ArmTimer, clockVars
    <3>2. now \in Nat /\ NextBoundary(now) \in Nat
      BY BoundaryType
    <3>3. now + (NextBoundary(now) - now) >= NextBoundary(now)
      BY <3>2
    <3>4. QED
      BY <3>1, <3>3 DEF TimersReach
  <2>2. CASE RunLoop(c) \/ LoopCancelled(c) \/ LeaveLoop(c)
    <3>1. /\ UNCHANGED armed
          /\ \E to : to \in {"exited", "arming", "leaving", "idle"} /\ pc' = [pc EXCEPT ![c] = to]
          /\ \A d \in Loops : d # c => wait'[d] = wait[d]
      BY <2>2 DEF RunLoop, LoopCancelled, LeaveLoop, loopVars
    <3>2. QED
      BY <1>k, <3>1 DEF TimersStay
  <2>3. CASE TimerFires(c)
    <3>1. /\ UNCHANGED <<armed, wait>> /\ pc[c] = "waiting" /\ wait[c] = 0
          /\ pc' = [pc EXCEPT ![c] = "entering"]
      BY <2>3 DEF TimerFires, loopVars
    <3>2. QED
      BY <1>k, <3>1 DEF TimersStay
  <2>4. QED
    BY <1>1, <2>1, <2>2, <2>3 DEF LoopStep
<1>2. ASSUME NEW c \in Triggers, Trigger(c)
      PROVE  TimersReach'
  <2>1. /\ UNCHANGED <<armed, wait>> /\ \A d \in Loops : pc'[d] = pc[d]
    BY <1>2, OptionsAssumption DEF Trigger, loopVars
  <2>2. QED
    BY <1>k, <2>1 DEF TimersStay
<1>3. ASSUME NEW c \in Callers, CollectStep(c)
      PROVE  TimersReach'
  <2>1. UNCHANGED <<armed, wait>>
    BY <1>3 DEF CollectStep, CheckContext, BeginRun, StartRun, StoreRun, RecordRun,
                EndRun, Refuse, loopVars
  <2>2. \/ /\ pc[c] \in {"entering", "locking"}
           /\ \E to : pc' = [pc EXCEPT ![c] = to] /\ to # "waiting"
        \/ \E to : pc' = [pc EXCEPT ![c] = to]
                   /\ to \notin {"waiting", "entering", "locking", "stamping"}
    <3>1. CASE CheckContext(c)
      BY <3>1, CheckFrame
    <3>2. CASE BeginRun(c)
      BY <3>2, BeginFrame
    <3>3. CASE StartRun(c) \/ StoreRun(c) \/ RecordRun(c) \/ EndRun(c)
      BY <3>3 DEF StartRun, StoreRun, RecordRun, EndRun, AfterCollect
    <3>4. QED
      BY <1>3, <3>1, <3>2, <3>3 DEF CollectStep
  <2>3. QED
    BY <1>k, <2>1, <2>2 DEF TimersStay
<1>4. ASSUME NEW c \in Callers, NEW s \in Subsystems, ProviderStep(c, s)
      PROVE  TimersReach'
  BY <1>4, ProviderFrame DEF SetExec, TimersReach, clockVars, loopVars
<1>5. CASE Tick
  <2>1. /\ now' = now + 1 /\ UNCHANGED <<steps, pc, armed>>
        /\ \A c \in Loops : wait'[c] = Elapse(wait[c])
    BY <1>5 DEF Tick
  <2>2. SUFFICES ASSUME steps = 0, NEW c \in Loops
                 PROVE  /\ pc[c] = "waiting" => now' + wait'[c] >= NextBoundary(armed[c])
                        /\ pc[c] \in {"entering", "locking", "stamping"} =>
                             now' >= NextBoundary(armed[c])
    BY <2>1 DEF TimersReach
  <2>3. now \in Nat /\ wait[c] \in Nat /\ NextBoundary(armed[c]) \in Nat
    BY BoundaryType
  <2>4. /\ pc[c] = "waiting" => now + wait[c] >= NextBoundary(armed[c])
        /\ pc[c] \in {"entering", "locking", "stamping"} => now >= NextBoundary(armed[c])
    BY <2>2 DEF TimersReach
  <2>5. QED
    BY <2>1, <2>3, <2>4 DEF Elapse
<1>6. CASE SetClockBack
  BY <1>6 DEF SetClockBack, TimersReach
<1>7. CASE (\E c \in Callers : Cancel(c)) \/ Stopped \/ UNCHANGED vars
  BY <1>7 DEF Cancel, Stopped, vars, TimersReach, clockVars, loopVars
<1>8. QED
  BY <1>1, <1>2, <1>3, <1>4, <1>5, <1>6, <1>7 DEF Next

\* Whatever the interval, the timeout and the time a collection takes, no
\* minute is collected twice by a loop and none that has passed is made up for.
THEOREM MinutesAreNotReplayed == Spec => []NeverReplayed
<1>1. Init => TimersReach
  BY DEF Init, TimersReach, Callers
<1>2. TypeOK /\ TimersReach => NeverReplayed
  <2>1. SUFFICES ASSUME TypeOK, TimersReach, steps = 0, NEW c \in Loops,
                        pc[c] \in {"entering", "locking", "stamping"}
                 PROVE  now \div Period > armed[c] \div Period
    BY DEF NeverReplayed
  <2>2. now \in Nat /\ armed[c] \in Nat /\ now >= NextBoundary(armed[c])
    BY <2>1 DEF TypeOK, TimersReach
  <2>3. QED
    BY <2>2, BoundaryIsLater
<1>3. QED
  BY <1>1, <1>2, TimersStep, TypeCorrect, PTL DEF Spec

-----------------------------------------------------------------------------
(***************************************************************************)
(* How a run ends: in history, or with an error for its caller.            *)
(***************************************************************************)

EndedAs(c) ==
  IF err[c] = "none"
  THEN lastRun # NoRun /\ lastRun.id = run[c].id /\ run[c].id \in recorded
  ELSE /\ run[c].id \notin recorded
       /\ \/ err[c] = "invalid_run" /\ steps > 0
          \/ err[c] = "record_failed" /\ (ctxDone[c] \/ StorageMayFail)

EndsKnown == \A c \in Callers : pc[c] = "ending" => EndedAs(c)

EndInv == EvidenceInv /\ ClockInv /\ EndsKnown

\* A caller at the end of its run moves on by itself, and is alone in one.
LEMMA EndKept ==
  ASSUME EndInv, [Next]_vars, NEW c \in Callers, pc[c] = "ending"
  PROVE  \/ EndRun(c)
         \/ /\ UNCHANGED <<pc[c], err[c], run[c], lastRun, recorded>>
            /\ steps' >= steps
<1>1. TypeOK /\ steps \in Nat
  BY DEF EndInv, ClockInv, TypeOK
<1>2. ASSUME NEW d \in Callers, CollectStep(d), d # c
      PROVE  UNCHANGED <<pc[c], err[c], run[c], lastRun, recorded, steps>>
  <2>1. ~InRun(d)
    BY <1>2 DEF EndInv, ClockInv, RunExclusion, InRun
  <2>2. CheckContext(d) \/ BeginRun(d)
    BY <1>2, <2>1 DEF CollectStep, StartRun, StoreRun, RecordRun, EndRun, Goto, InRun
  <2>3. QED
    BY <1>1, <1>2, <2>2 DEF CheckContext, BeginRun, Refuse, Goto, TypeOK, clockVars, evidenceVars
<1>3. ASSUME CollectStep(c)
      PROVE  EndRun(c)
  BY <1>3 DEF CollectStep, CheckContext, BeginRun, StartRun, StoreRun, RecordRun,
              Refuse, Goto
<1>4. ASSUME NEW d \in Loops, LoopStep(d)
      PROVE  UNCHANGED <<pc[c], err, run, lastRun, recorded, steps>>
  <2>1. d # c
    BY <1>4 DEF LoopStep, RunLoop, ArmTimer, TimerFires, LoopCancelled, LeaveLoop, Goto
  <2>2. QED
    BY <1>1, <1>4, <2>1 DEF LoopStep, RunLoop, ArmTimer, TimerFires, LoopCancelled, LeaveLoop,
              Goto, TypeOK, clockVars, evidenceVars
<1>5. ASSUME NEW d \in Triggers, Trigger(d)
      PROVE  UNCHANGED <<pc[c], err, run, lastRun, recorded, steps>>
  BY <1>1, <1>5 DEF Trigger, Goto, TypeOK, clockVars, evidenceVars
<1>6. ASSUME NEW d \in Callers, NEW s \in Subsystems, ProviderStep(d, s)
      PROVE  UNCHANGED <<pc, err, run, lastRun, recorded, steps>>
  BY <1>6, ProviderFrame DEF SetExec, clockVars, evidenceVars
<1>7. CASE Tick \/ SetClockBack \/ (\E d \in Callers : Cancel(d)) \/ Stopped \/ UNCHANGED vars
  BY <1>1, <1>7 DEF Tick, SetClockBack, Cancel, Stopped, vars, clockVars, evidenceVars
<1>8. QED
  BY <1>1, <1>2, <1>3, <1>4, <1>5, <1>6, <1>7 DEF Next

\* Who comes to the end of a run: one whose record was rejected, and one whose
\* record was committed or failed to be.
LEMMA WhoEnds ==
  ASSUME EndInv, [Next]_vars, NEW c \in Callers, pc'[c] = "ending"
  PROVE  \/ pc[c] = "ending"
         \/ StoreRun(c) \/ RecordRun(c)
<1>1. TypeOK
  BY DEF EndInv, ClockInv
<1> USE DEF TypeOK, Goto
<1>2. ASSUME NEW d \in Callers, CollectStep(d)
      PROVE  pc[c] = "ending" \/ StoreRun(c) \/ RecordRun(c)
  <2>1. CASE CheckContext(d)
    BY <1>1, <2>1, CheckFrame
  <2>2. CASE BeginRun(d)
    BY <1>1, <2>2, BeginFrame
  <2>3. CASE StartRun(d) \/ EndRun(d)
    BY <1>1, <2>3 DEF StartRun, EndRun, AfterCollect
  <2>4. CASE (StoreRun(d) \/ RecordRun(d)) /\ d # c
    <3>1. \E to : pc' = [pc EXCEPT ![d] = to]
      BY <2>4 DEF StoreRun, RecordRun
    <3>2. QED
      BY <1>1, <2>4, <3>1
  <2>5. QED
    BY <1>2, <2>1, <2>2, <2>3, <2>4 DEF CollectStep
<1>3. ASSUME NEW d \in Loops, LoopStep(d)
      PROVE  pc[c] = "ending"
  BY <1>1, <1>3 DEF LoopStep, RunLoop, ArmTimer, TimerFires, LoopCancelled, LeaveLoop
<1>4. ASSUME NEW d \in Triggers, Trigger(d)
      PROVE  pc[c] = "ending"
  BY <1>1, <1>4 DEF Trigger
<1>5. ASSUME NEW d \in Callers, NEW s \in Subsystems, ProviderStep(d, s)
      PROVE  pc' = pc
  BY <1>5, ProviderFrame DEF SetExec
<1>6. CASE Tick \/ SetClockBack \/ (\E d \in Callers : Cancel(d)) \/ Stopped \/ UNCHANGED vars
  BY <1>6 DEF Tick, SetClockBack, Cancel, Stopped, vars
<1>7. QED
  BY <1>2, <1>3, <1>4, <1>5, <1>6 DEF Next

LEMMA EndsStep ==
  EndInv /\ [Next]_vars => EndsKnown'
<1> SUFFICES ASSUME EndInv, [Next]_vars, NEW c \in Callers, pc'[c] = "ending"
             PROVE  EndedAs(c)'
  BY DEF EndsKnown
<1>0. TypeOK /\ steps \in Nat
  BY DEF EndInv, ClockInv, TypeOK
<1>1. CASE pc[c] = "ending"
  <2>1. ~EndRun(c)
    BY <1>0 DEF EndRun, Goto, AfterCollect, TypeOK
  <2>2. /\ UNCHANGED <<err[c], run[c], lastRun, recorded>> /\ steps' >= steps
        /\ ctxDone[c] => ctxDone'[c]
    BY <1>0, <1>1, <2>1, EndKept, TimeMovesOn
  <2>3. steps' \in Nat /\ EndedAs(c)
    BY <1>0, <1>1, NextType DEF TypeOK, EndInv, EndsKnown
  <2>4. QED
    BY <1>0, <2>2, <2>3 DEF EndedAs
<1>2. CASE StoreRun(c)
  <2>1. /\ pc[c] = "joining" /\ Joined(c) /\ UNCHANGED <<steps, run, recorded>>
        /\ ~RunValid(Completed(c)) /\ err' = [err EXCEPT ![c] = "invalid_run"]
    BY <1>0, <1>2 DEF StoreRun, Goto, TypeOK, clockVars
  <2>2. steps # 0
    BY <2>1, JoinedIsValid DEF EndInv
  <2>3. run[c].id \notin recorded
    <3>1. run[c].id \in Nat /\ recorded \subseteq Nat /\ (lastRun # NoRun => lastRun.id \in Nat)
      BY <1>0 DEF TypeOK, CompletedRun
    <3>2. /\ lastRun # NoRun => lastRun.id < run[c].id
          /\ \A id \in recorded : lastRun # NoRun /\ id <= lastRun.id
      BY <2>1 DEF EndInv, EvidenceInv, IdsInOrder
    <3>3. QED
      BY <3>1, <3>2
  <2>4. QED
    BY <1>0, <2>1, <2>2, <2>3 DEF EndedAs, TypeOK
<1>3. CASE RecordRun(c)
  <2>1. pc[c] = "recording" /\ UNCHANGED <<steps, run, lastRun, ctxDone>>
    BY <1>3 DEF RecordRun, Goto, clockVars
  <2>2. /\ lastRun # NoRun /\ run[c].id = lastRun.id
        /\ \A id \in recorded : id < lastRun.id /\ lastRun.id \in Nat
    BY <1>0, <2>1 DEF EndInv, EvidenceInv, IdsInOrder, TypeOK, CompletedRun
  <2>3. run[c].id \notin recorded
    BY <1>0, <2>2 DEF TypeOK
  <2>4. \/ recorded' = recorded \cup {run[c].id} /\ err'[c] = "none"
        \/ /\ recorded' = recorded /\ err'[c] = "record_failed"
           /\ ctxDone[c] \/ StorageMayFail
    BY <1>0, <1>3 DEF RecordRun, TypeOK
  <2>5. QED
    BY <2>1, <2>2, <2>3, <2>4 DEF EndedAs
<1>4. QED
  BY <1>1, <1>2, <1>3, WhoEnds

\* A collect that reports nothing has its run in history, and one that reports
\* an error has lost it to a rejected record, to the store or to its caller.
THEOREM NoRunLostSilently == Spec => LostOnlyWithError
<1> DEFINE Told ==
      \A c \in Callers :
        pc[c] = "ending" /\ pc'[c] # "ending" =>
          IF err[c] = "none"
          THEN run[c].id \in recorded /\ lastRun.id = run[c].id
          ELSE /\ run[c].id \notin recorded
               /\ \/ err[c] = "invalid_run" /\ steps > 0
                  \/ err[c] = "record_failed" /\ (ctxDone[c] \/ StorageMayFail)
<1>1. Init => EndsKnown
  BY DEF Init, EndsKnown
<1>2. EndsKnown /\ [Next]_vars => [Told]_vars
  BY DEF EndsKnown, EndedAs
<1>3. Spec => []EndInv
  BY <1>1, EndsStep, EvidenceInvariant, ClockInvariant, PTL DEF Spec, EndInv
<1>4. EndInv => EndsKnown
  BY DEF EndInv
<1>5. QED
  BY <1>2, <1>3, <1>4, PTL DEF Spec, LostOnlyWithError
===============================================================================
