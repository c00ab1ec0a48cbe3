---------------------- MODULE CollectionRefinement_proofs ----------------------
(***************************************************************************)
(* Proofs about the evidence over time: what a step may do to it, and that *)
(* the collection scheduler implements CollectionLedger.                   *)
(***************************************************************************)
EXTENDS CollectionRefinement, CollectionScheduler_proofs

\* The evidence and the callers' places change in four ways only.
LEMMA EvidenceMoves ==
  ASSUME EvidenceInv, [Next]_vars
  PROVE  \/ UNCHANGED <<lastRun, lastSuccess, recorded>>
         \/ \E c \in Callers : StoreRun(c) \/ RecordRun(c)
<1>1. ASSUME NEW c \in Loops, LoopStep(c)
      PROVE  UNCHANGED <<lastRun, lastSuccess, recorded>>
  BY <1>1 DEF LoopStep, RunLoop, ArmTimer, TimerFires, LoopCancelled, LeaveLoop,
              evidenceVars
<1>2. ASSUME NEW c \in Triggers, Trigger(c)
      PROVE  UNCHANGED <<lastRun, lastSuccess, recorded>>
  BY <1>2 DEF Trigger, evidenceVars
<1>3. ASSUME NEW c \in Callers, CollectStep(c), ~StoreRun(c), ~RecordRun(c)
      PROVE  UNCHANGED <<lastRun, lastSuccess, recorded>>
  BY <1>3 DEF CollectStep, CheckContext, BeginRun, StartRun, EndRun, Refuse, evidenceVars
<1>4. ASSUME NEW c \in Callers, NEW s \in Subsystems, ProviderStep(c, s)
      PROVE  UNCHANGED <<lastRun, lastSuccess, recorded>>
  BY <1>4, ProviderFrame DEF SetExec, evidenceVars
<1>5. CASE Tick \/ SetClockBack \/ (\E c \in Callers : Cancel(c)) \/ Stopped \/ UNCHANGED vars
  BY <1>5 DEF Tick, SetClockBack, Cancel, Stopped, vars, evidenceVars
<1>6. QED
  BY <1>1, <1>2, <1>3, <1>4, <1>5 DEF Next

\* The recorder takes the run shown, and only while history has none as young.
LEMMA RecordMoves ==
  ASSUME EvidenceInv, NEW c \in Callers, RecordRun(c)
  PROVE  /\ UNCHANGED <<lastRun, lastSuccess>>
         /\ lastRun # NoRun
         /\ \A id \in recorded : id < lastRun.id
         /\ recorded' = recorded \/ recorded' = recorded \cup {lastRun.id}
<1>1. pc[c] = "recording" /\ UNCHANGED <<lastRun, lastSuccess>>
      /\ (recorded' = recorded \/ recorded' = recorded \cup {run[c].id})
  BY DEF RecordRun, Goto
<1>2. QED
  BY <1>1 DEF EvidenceInv, IdsInOrder

\* Storing shows a younger run.
LEMMA StoreMoves ==
  ASSUME EvidenceInv, NEW c \in Callers, StoreRun(c)
  PROVE  /\ UNCHANGED recorded
         /\ \/ UNCHANGED <<lastRun, lastSuccess>>
            \/ /\ lastRun' \in CompletedRun /\ lastRun' # NoRun
               /\ lastRun # NoRun => lastRun.id < lastRun'.id
               /\ lastSuccess' = IF lastRun'.status = "succeeded"
                                   THEN lastRun' ELSE lastSuccess
<1>1. TypeOK /\ pc[c] = "joining"
  BY StoreFrame DEF EvidenceInv
<1>2. Completed(c) \in CompletedRun /\ Completed(c).id = run[c].id
  BY <1>1, CompletedType DEF Completed
<1>3. lastRun # NoRun => lastRun.id < run[c].id
  BY <1>1 DEF EvidenceInv, IdsInOrder
<1>4. QED
  BY <1>2, <1>3, StoreFrame, NoRunAssumption

\* LastRun only ever moves to a run begun later, and LastSuccessfulRun only to
\* a run that succeeded: a partial or failed run erases nothing.
THEOREM EvidenceNeverErased == Spec => EvidenceAdvances
<1>1. EvidenceInv /\ [Next]_vars =>
        [/\ lastRun' # lastRun =>
              lastRun' # NoRun /\ (lastRun # NoRun => lastRun.id < lastRun'.id)
         /\ lastSuccess' # lastSuccess =>
              lastSuccess' = lastRun' /\ lastRun'.status = "succeeded"]_vars
  BY EvidenceMoves, RecordMoves, StoreMoves
<1>2. QED
  BY <1>1, EvidenceInvariant, PTL DEF Spec, EvidenceAdvances

\* History gains the run that LastRun shows, in the order in which runs begin.
THEOREM HistoryInOrder == Spec => HistoryFollowsMemory
<1>1. EvidenceInv /\ [Next]_vars =>
        [recorded' # recorded =>
           /\ lastRun # NoRun /\ recorded' = recorded \cup {lastRun.id}
           /\ \A id \in recorded : id < lastRun.id]_vars
  BY EvidenceMoves, RecordMoves, StoreMoves
<1>2. QED
  BY <1>1, EvidenceInvariant, PTL DEF Spec, HistoryFollowsMemory

-----------------------------------------------------------------------------
(***************************************************************************)
(* The refinement.                                                         *)
(***************************************************************************)

\* With one caller between beginRun and endRun, the phase is that caller's.
LEMMA PhaseOfOwner ==
  ASSUME NEW p, NEW c \in Callers,
         p[c] \in {"stamping", "joining", "recording", "ending"},
         \A d \in Callers :
           p[d] \in {"stamping", "joining", "recording", "ending"} => d = c
  PROVE  /\ p[c] \in {"stamping", "joining"} => PhaseOf(p) = "collecting"
         /\ p[c] = "recording" => PhaseOf(p) = "published"
         /\ p[c] = "ending" => PhaseOf(p) = "closing"
  BY DEF PhaseOf

\* With none, it is idle.
LEMMA PhaseIdle ==
  ASSUME NEW p,
         \A d \in Callers : p[d] \notin {"stamping", "joining", "recording", "ending"}
  PROVE  PhaseOf(p) = "idle"
  BY DEF PhaseOf

\* A caller that moves outside beginRun and endRun leaves the phase alone.
LEMMA PhaseKept ==
  ASSUME TypeOK, NEW c \in Callers, NEW to, pc' = [pc EXCEPT ![c] = to],
         {pc[c], to} \cap {"stamping", "joining", "recording", "ending"} = {}
  PROVE  PhaseOf(pc') = PhaseOf(pc)
<1>1. \A d \in Callers : d # c => pc'[d] = pc[d]
  BY DEF TypeOK
<1>2. pc'[c] = to
  BY DEF TypeOK
<1>3. \A x \in {"stamping", "joining", "recording", "ending"}, d \in Callers :
        pc'[d] = x <=> pc[d] = x
  BY <1>1, <1>2
<1>4. QED
  BY <1>3 DEF PhaseOf

\* The owner's phase, before and after a step it takes inside its run.
LEMMA PhaseMoves ==
  ASSUME TypeOK, RunExclusion, NEW c \in Callers, InRun(c), NEW to,
         pc' = [pc EXCEPT ![c] = to]
  PROVE  /\ pc[c] \in {"stamping", "joining"} => PhaseOf(pc) = "collecting"
         /\ pc[c] = "recording" => PhaseOf(pc) = "published"
         /\ pc[c] = "ending" => PhaseOf(pc) = "closing"
         /\ to \in {"stamping", "joining"} => PhaseOf(pc') = "collecting"
         /\ to = "recording" => PhaseOf(pc') = "published"
         /\ to = "ending" => PhaseOf(pc') = "closing"
         /\ to \notin {"stamping", "joining", "recording", "ending"} =>
              PhaseOf(pc') = "idle"
<1>1. \A d \in Callers :
        pc[d] \in {"stamping", "joining", "recording", "ending"} => d = c
  BY DEF RunExclusion, InRun
<1>2. pc'[c] = to /\ \A d \in Callers : d # c => pc'[d] = pc[d]
  BY DEF TypeOK
<1>3. \A d \in Callers :
        pc'[d] \in {"stamping", "joining", "recording", "ending"} => d = c
  BY <1>1, <1>2
<1>4. /\ pc[c] \in {"stamping", "joining"} => PhaseOf(pc) = "collecting"
      /\ pc[c] = "recording" => PhaseOf(pc) = "published"
      /\ pc[c] = "ending" => PhaseOf(pc) = "closing"
  BY <1>1, PhaseOfOwner DEF InRun
<1>5. CASE to \in {"stamping", "joining", "recording", "ending"}
  BY <1>2, <1>3, <1>4, <1>5, PhaseOfOwner
<1>6. CASE to \notin {"stamping", "joining", "recording", "ending"}
  BY <1>2, <1>3, <1>4, <1>6, PhaseIdle
<1>7. QED
  BY <1>5, <1>6

\* Storing a run publishes it, or gives up one the validation rejects.
LEMMA StoreImplements ==
  ASSUME EvidenceInv, NEW c \in Callers, StoreRun(c)
  PROVE  Ledger!Publish \/ Ledger!GiveUp
<1> USE DEF EvidenceInv
<1>1. pc[c] = "joining" /\ InRun(c)
  BY StoreFrame DEF InRun
<1>2. CASE pc' = [pc EXCEPT ![c] = "ending"] /\ UNCHANGED <<lastRun, lastSuccess>>
  <2>1. PhaseOf(pc) = "collecting" /\ PhaseOf(pc') = "closing"
    BY <1>1, <1>2, PhaseMoves
  <2>2. QED
    BY <1>2, <2>1, StoreMoves DEF Ledger!GiveUp, Entry
<1>3. CASE pc' = [pc EXCEPT ![c] = "recording"] /\ lastRun' = Completed(c)
  <2>1. PhaseOf(pc) = "collecting" /\ PhaseOf(pc') = "published"
    BY <1>1, <1>3, PhaseMoves
  <2>2. /\ lastRun' \in CompletedRun /\ lastRun' # NoRun
        /\ lastRun # NoRun => lastRun.id < lastRun'.id
        /\ recorded' = recorded
        /\ lastSuccess' = IF lastRun'.status = "succeeded" THEN lastRun' ELSE lastSuccess
    <3>1. lastRun' \in CompletedRun /\ lastRun' # NoRun
      BY <1>3, CompletedType, NoRunAssumption
    <3>2. lastRun'.id = run[c].id
      BY <1>3 DEF Completed
    <3>3. lastRun # NoRun => lastRun.id < run[c].id
      BY <1>1 DEF IdsInOrder
    <3>4. pc' # [pc EXCEPT ![c] = "ending"]
      <4>1. pc'[c] = "recording" /\ [pc EXCEPT ![c] = "ending"][c] = "ending"
        BY <1>3 DEF TypeOK
      <4>2. QED
        BY <4>1
    <3>5. QED
      BY <3>1, <3>2, <3>3, <3>4, StoreFrame
  <2>3. Entry(lastRun)' \in [id : Nat, ok : BOOLEAN]
    BY <2>2 DEF Entry, CompletedRun
  <2>4. Entry(lastRun) # NoRun => Entry(lastRun).id < Entry(lastRun)'.id
    BY <2>2 DEF Entry
  <2>5. Entry(lastSuccess)' = IF Entry(lastRun)'.ok THEN Entry(lastRun)' ELSE Entry(lastSuccess)
    BY <2>2 DEF Entry
  <2>6. QED
    BY <2>1, <2>2, <2>3, <2>4, <2>5 DEF Ledger!Publish, Ledger!Entry
<1>4. QED
  BY <1>2, <1>3, StoreFrame

\* Recording commits the run shown, or gives it up.
LEMMA RecordImplements ==
  ASSUME EvidenceInv, NEW c \in Callers, RecordRun(c)
  PROVE  Ledger!Commit \/ Ledger!GiveUp
<1> USE DEF EvidenceInv
<1>1. pc[c] = "recording" /\ pc' = [pc EXCEPT ![c] = "ending"] /\ InRun(c)
  BY DEF RecordRun, Goto, InRun
<1>2. PhaseOf(pc) = "published" /\ PhaseOf(pc') = "closing"
  BY <1>1, PhaseMoves
<1>3. Entry(lastRun)' = Entry(lastRun) /\ Entry(lastSuccess)' = Entry(lastSuccess)
      /\ Entry(lastRun).id = lastRun.id
  BY RecordMoves DEF Entry
<1>4. QED
  BY <1>2, <1>3, RecordMoves DEF Ledger!Commit, Ledger!GiveUp

LEMMA StepImplements ==
  EvidenceInv /\ [Next]_vars => [Ledger!Next]_(Ledger!vars)
<1> SUFFICES ASSUME EvidenceInv, [Next]_vars
             PROVE  Ledger!Next \/ UNCHANGED Ledger!vars
  BY DEF Ledger!vars
<1>0. TypeOK /\ RunExclusion
  BY DEF EvidenceInv
<1> DEFINE Kept == UNCHANGED <<lastRun, lastSuccess, recorded>>
<1>1. ASSUME Kept, PhaseOf(pc') = PhaseOf(pc)
      PROVE  UNCHANGED Ledger!vars
  BY <1>1 DEF Ledger!vars, Entry
<1>2. ASSUME NEW c \in Loops, LoopStep(c)
      PROVE  UNCHANGED Ledger!vars
  <2>1. /\ Kept
        /\ pc[c] \in {"idle", "arming", "waiting", "leaving"}
        /\ \E to : /\ pc' = [pc EXCEPT ![c] = to]
                   /\ to \in {"arming", "waiting", "leaving", "entering", "idle", "exited"}
    BY <1>2 DEF LoopStep, RunLoop, ArmTimer, TimerFires, LoopCancelled, LeaveLoop, Goto,
                evidenceVars
  <2>2. PhaseOf(pc') = PhaseOf(pc)
    BY <1>0, <2>1, PhaseKept DEF Callers
  <2>3. QED
    BY <1>1, <2>1, <2>2
<1>3. ASSUME NEW c \in Triggers, Trigger(c)
      PROVE  UNCHANGED Ledger!vars
  <2>1. Kept /\ pc[c] = "idle" /\ pc' = [pc EXCEPT ![c] = "entering"]
    BY <1>3 DEF Trigger, Goto, evidenceVars
  <2>2. PhaseOf(pc') = PhaseOf(pc)
    BY <1>0, <2>1, PhaseKept DEF Callers
  <2>3. QED
    BY <1>1, <2>1, <2>2
<1>4. ASSUME NEW c \in Callers, CollectStep(c)
      PROVE  Ledger!Next \/ UNCHANGED Ledger!vars
  <2>1. CASE CheckContext(c)
    <3>1. Kept
      BY <2>1 DEF CheckContext, Refuse, evidenceVars
    <3>2. PhaseOf(pc') = PhaseOf(pc)
      BY <1>0, <2>1, CheckFrame, PhaseKept
    <3>3. QED
      BY <1>1, <3>1, <3>2
  <2>2. CASE BeginRun(c)
    <3>1. Kept /\ pc[c] = "locking"
      BY <2>2, BeginFrame DEF BeginRun, Refuse, evidenceVars
    <3>2. CASE \E to : /\ pc' = [pc EXCEPT ![c] = to]
                      /\ to \in {"returned", "leaving", "arming"}
      <4>1. PhaseOf(pc') = PhaseOf(pc)
        BY <1>0, <3>1, <3>2, PhaseKept
      <4>2. QED
        BY <1>1, <3>1, <4>1
    <3>3. CASE ~runActive /\ runActive' /\ pc' = [pc EXCEPT ![c] = "stamping"]
      <4>1. \A d \in Callers : ~InRun(d)
        BY <1>0, <3>3 DEF RunExclusion
      <4>2. PhaseOf(pc) = "idle"
        BY <4>1, PhaseIdle DEF InRun
      <4>3. pc'[c] = "stamping" /\ \A d \in Callers : d # c => pc'[d] = pc[d]
        BY <1>0, <3>3 DEF TypeOK
      <4>4. PhaseOf(pc') = "collecting"
        BY <4>1, <4>3, PhaseOfOwner DEF InRun
      <4>5. Ledger!Begin
        BY <3>1, <4>2, <4>4 DEF Ledger!Begin, Entry
      <4>6. QED
        BY <4>5 DEF Ledger!Next
    <3>4. QED
      BY <2>2, <3>2, <3>3, BeginFrame
  <2>3. CASE StartRun(c)
    <3>1. Kept /\ pc[c] = "stamping" /\ pc' = [pc EXCEPT ![c] = "joining"] /\ InRun(c)
      BY <2>3 DEF StartRun, Goto, InRun, evidenceVars
    <3>2. PhaseOf(pc') = PhaseOf(pc)
      BY <1>0, <3>1, PhaseMoves
    <3>3. QED
      BY <1>1, <3>1, <3>2
  <2>4. CASE StoreRun(c)
    BY <2>4, StoreImplements DEF Ledger!Next
  <2>5. CASE RecordRun(c)
    BY <2>5, RecordImplements DEF Ledger!Next
  <2>6. CASE EndRun(c)
    <3>1. /\ Kept /\ pc[c] = "ending" /\ InRun(c)
          /\ \E to : /\ pc' = [pc EXCEPT ![c] = to]
                     /\ to \in {"returned", "arming", "leaving"}
      BY <2>6 DEF EndRun, Goto, InRun, AfterCollect, evidenceVars
    <3>2. PhaseOf(pc) = "closing" /\ PhaseOf(pc') = "idle"
      BY <1>0, <3>1, PhaseMoves
    <3>3. Ledger!End
      BY <3>1, <3>2 DEF Ledger!End, Entry
    <3>4. QED
      BY <3>3 DEF Ledger!Next
  <2>7. QED
    BY <1>4, <2>1, <2>2, <2>3, <2>4, <2>5, <2>6 DEF CollectStep
<1>5. ASSUME NEW c \in Callers, NEW s \in Subsystems, ProviderStep(c, s)
      PROVE  UNCHANGED Ledger!vars
  <2>1. Kept /\ pc' = pc
    BY <1>5, ProviderFrame DEF SetExec, evidenceVars
  <2>2. QED
    BY <1>1, <2>1
<1>6. CASE Tick \/ SetClockBack \/ (\E c \in Callers : Cancel(c)) \/ Stopped \/ UNCHANGED vars
  <2>1. Kept /\ pc' = pc
    BY <1>6 DEF Tick, SetClockBack, Cancel, Stopped, vars, evidenceVars
  <2>2. QED
    BY <1>1, <2>1
<1>7. QED
  BY <1>2, <1>3, <1>4, <1>5, <1>6 DEF Next

\* Whatever loops and triggers overlap, whatever times out, is cancelled or is
\* not recorded: what a reader of the service and of history sees is a
\* behaviour of the ledger.
THEOREM SchedulerImplementsLedger == Spec => ImplementsLedger
<1>1. Init => Ledger!Init
  <2>1. Init => PhaseOf(pc) = "idle"
    BY PhaseIdle DEF Init
  <2>2. QED
    BY <2>1 DEF Init, Ledger!Init, Entry
<1>2. QED
  BY <1>1, StepImplements, EvidenceInvariant, PTL DEF Spec, ImplementsLedger, Ledger!Spec
================================================================================
