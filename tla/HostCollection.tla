---------------------------- MODULE HostCollection ----------------------------
(*****************************************************************************)
(* The host collectors: CPU usage from two readings of cumulative counters   *)
(* (collector/host/cpu), memory, swap and pressure (collector/host/memory),  *)
(* the collector that composes them (collector/host/collector.go), the       *)
(* deadline that scheduler.executeProvider sets for it, and the history row  *)
(* that app/collection_recorder.go makes of the result.  The kernel around   *)
(* them counts, takes cores off and on line, and may reset a counter.        *)
(*                                                                           *)
(* The scheduler runs one collection at a time.  One action per read of the  *)
(* kernel, so that time passes, counters move and the deadline expires in    *)
(* between.  The eight counters of a core are two, busy and idle, and a      *)
(* usage keeps its numerator and denominator; sums of counters are exact.    *)
(* Of the fields of /proc/meminfo, MemFree, Cached and Buffers are left out: *)
(* they are passed on as they are.                                           *)
(*****************************************************************************)
EXTENDS Integers, FiniteSets, FiniteSetsExt

CONSTANTS
  Cores,       \* logical CPU indexes
  MemInfos,    \* what /proc/meminfo may parse to: functions on some Fields
  None,        \* nil
  MaxTime,     \* bound: the last tick of the clock
  MaxChanges   \* bound: how often a core is reset or the topology changes

Fields == {"MemTotal", "MemAvailable", "SwapTotal", "SwapFree"}

ASSUME HostAssumption ==
  /\ IsFiniteSet(Cores) /\ Cores # {}
  /\ \A info \in MemInfos :
       /\ DOMAIN info \subseteq Fields
       /\ \A f \in DOMAIN info : info[f] \in Nat
       /\ "MemTotal" \in DOMAIN info => info["MemTotal"] > 0
  /\ MaxTime \in Nat /\ MaxChanges \in Nat

Counter == [busy : Nat, idle : Nat]
Zero == [busy |-> 0, idle |-> 0]
IsReading(t) == DOMAIN t \subseteq Cores /\ \A c \in DOMAIN t : t[c] \in Counter
NoCounters == [c \in {} |-> Zero]

\* nil is none of the values that it stands in for.
ASSUME NoneAssumption ==
  /\ None \notin [busy : Nat, total : Nat]
  /\ \A S \in SUBSET Cores : None \notin [S -> Counter]

VARIABLES
  now,       \* the clock
  online,    \* kernel: the cores on line
  counter,   \* kernel: the counters of each core
  work,      \* what each core really did since the counters were last read
  resets,    \* the cores that were reset since
  changes,   \* how many resets and topology changes there were
  phase,     \* where the collection is
  live,      \* whether its context is not done
  taken,     \* the counters it has read, or None
  span,      \* what each core really did between the last two readings, or
             \* None if it was reset
  previous,  \* cpu.Collector: previous
  cpu,       \* cpu.Collector: latest
  draft,     \* the memory snapshot without its pressure
  memory,    \* memory.Collector: latest
  status,    \* the status of each subsystem in this collection
  fresh,     \* the subsystems that have a new latest snapshot in it
  row        \* the history row made last, None while a collection runs or if
             \* it failed

kernel == <<online, counter, resets, changes>>
vars == <<now, kernel, work, phase, live, taken, span, previous, cpu,
          draft, memory, status, fresh, row>>

-----------------------------------------------------------------------------
(* Metrics: a value, or the reason why there is none.                      *)

Available(v) == [value |-> v, reason |-> None]
Unavailable(reason) == [value |-> None, reason |-> reason]
IsAvailable(metric) == metric.value # None

-----------------------------------------------------------------------------
(* CPU usage.                                                              *)

\* calculateUsage: None when a counter decreased or did not advance
Usage(before, after) ==
  LET busy == after.busy - before.busy
      idle == after.idle - before.idle
  IN IF busy < 0 \/ idle < 0 \/ busy + idle = 0
     THEN None
     ELSE [busy |-> busy, total |-> busy + idle]

UsageMetric(before, after) ==
  IF Usage(before, after) = None
  THEN Unavailable("collector_error")
  ELSE Available(Usage(before, after))

CoreMetric(before, after, c) ==
  IF c \in DOMAIN before
  THEN UsageMetric(before[c], after[c])
  ELSE Unavailable("not_collected")

\* One of the counters of all cores together
Total(part, counters) ==
  MapThenSumSet(LAMBDA c : counters[c][part], DOMAIN counters)

\* aggregateCounters
Aggregate(counters) ==
  [busy |-> Total("busy", counters), idle |-> Total("idle", counters)]

CoreInvalid(before, after) ==
  \E c \in DOMAIN after :
    c \in DOMAIN before /\ ~IsAvailable(UsageMetric(before[c], after[c]))

\* Mutant: a core more does not unsettle the overall usage.
StableWithNewCores(before, after) ==
  DOMAIN before # {} /\ DOMAIN before \subseteq DOMAIN after

TopologyStable(before, after) == DOMAIN before = DOMAIN after

Overall(before, after) ==
  IF CoreInvalid(before, after) THEN Unavailable("collector_error")
  ELSE IF TopologyStable(before, after)
       THEN UsageMetric(Aggregate(before), Aggregate(after))
       ELSE Unavailable("not_collected")

\* buildSnapshot
CPUSnapshot(before, after, loadRead) ==
  [at |-> now,
   overall |-> Overall(before, after),
   cores |-> [c \in DOMAIN after |-> CoreMetric(before, after, c)],
   load |-> loadRead]

-----------------------------------------------------------------------------
(* Memory.                                                                 *)

Field(info, f) ==
  IF f \in DOMAIN info THEN Available(info[f]) ELSE Unavailable("collector_error")

\* Total minus the rest, if both were read and fit together
Used(info, total, rest) ==
  IF /\ {total, rest} \subseteq DOMAIN info
     /\ info[total] > 0 /\ info[rest] <= info[total]
  THEN Available(info[total] - info[rest])
  ELSE Unavailable("collector_error")

Swap(info) ==
  LET all(metric) == [total |-> metric, used |-> metric]
      used == Used(info, "SwapTotal", "SwapFree")
  IN IF "SwapTotal" \in DOMAIN info /\ info["SwapTotal"] = 0
     THEN all(Unavailable("not_configured"))
     ELSE IF IsAvailable(used)
     THEN [total |-> Field(info, "SwapTotal"), used |-> used]
     ELSE all(Unavailable("collector_error"))

\* buildMemorySnapshot
MemorySnapshot(info) ==
  [at |-> now,
   total |-> Field(info, "MemTotal"),
   available |-> Field(info, "MemAvailable"),
   used |-> Used(info, "MemTotal", "MemAvailable"),
   swap |-> Swap(info),
   pressure |-> FALSE,
   complete |-> DOMAIN info = Fields]

-----------------------------------------------------------------------------
Init ==
  /\ now = 0
  /\ online \in (SUBSET Cores) \ {{}} /\ counter = [c \in Cores |-> Zero]
  /\ work = [c \in Cores |-> Zero] /\ resets = {} /\ changes = 0
  /\ previous = NoCounters /\ cpu = None /\ memory = None /\ row = None
  /\ phase = "idle" /\ live = FALSE
  /\ taken = None /\ span = [c \in Cores |-> None] /\ draft = None
  /\ status = [cpu |-> "failed", memory |-> "failed"] /\ fresh = {}

\* A tick passes: each core on line was busy or idle.
Advance(n, did) == [n EXCEPT ![did] = @ + 1]

Elapse(did) ==
  /\ now < MaxTime
  /\ now' = now + 1
  /\ counter' = [c \in Cores |-> IF c \in online THEN Advance(counter[c], did[c])
                                                 ELSE counter[c]]
  /\ work' = [c \in Cores |-> IF c \in online THEN Advance(work[c], did[c])
                                              ELSE work[c]]
  /\ UNCHANGED <<online, resets, changes, phase, live, taken, span, previous,
                 cpu, draft, memory, status, fresh, row>>

Reset(c) ==
  /\ changes < MaxChanges /\ counter[c] # Zero
  /\ changes' = changes + 1
  /\ counter' = [counter EXCEPT ![c] = Zero]
  /\ resets' = resets \cup {c}
  /\ UNCHANGED <<now, online, work, phase, live, taken, span, previous, cpu,
                 draft, memory, status, fresh, row>>

ChangeTopology(S) ==
  /\ changes < MaxChanges /\ S # online /\ S # {}
  /\ changes' = changes + 1
  /\ online' = S
  /\ UNCHANGED <<now, counter, work, resets, phase, live, taken, span, previous,
                 cpu, draft, memory, status, fresh, row>>

-----------------------------------------------------------------------------
\* executeProvider calls host.Collector.Collect
StartCollection ==
  /\ phase = "idle"
  /\ phase' = "counters" /\ live' = TRUE
  /\ row' = None
  /\ UNCHANGED <<now, kernel, work, taken, span, previous, cpu, draft, memory,
                 status, fresh>>

\* The deadline expires, or the run is cancelled.
Expire ==
  /\ phase # "idle" /\ live
  /\ live' = FALSE
  /\ UNCHANGED <<now, kernel, work, phase, taken, span, previous, cpu, draft,
                 memory, status, fresh, row>>

SubsystemFails(s, next) ==
  /\ status' = [status EXCEPT ![s] = "failed"]
  /\ phase' = next

\* cpu.Collector.Collect: its first check of the context
SkipCPU ==
  /\ phase = "counters" /\ ~live
  /\ SubsystemFails("cpu", "meminfo")
  /\ UNCHANGED <<now, kernel, work, live, taken, span, previous, cpu, draft,
                 memory, fresh, row>>

\* source.Counters
ReadCounters ==
  /\ phase = "counters" /\ live
  /\ taken' = [c \in online |-> counter[c]]
  /\ span' = [c \in Cores |-> IF c \in resets THEN None ELSE work[c]]
  /\ work' = [c \in Cores |-> Zero] /\ resets' = {}
  /\ phase' = "load"
  /\ UNCHANGED <<now, online, counter, changes, live, previous, cpu, draft,
                 memory, status, fresh, row>>

ReadCountersFails ==
  /\ phase = "counters" /\ live
  /\ taken' = None
  /\ phase' = "load"
  /\ UNCHANGED <<now, kernel, work, live, span, previous, cpu, draft, memory,
                 status, fresh, row>>

\* source.LoadAverage, when the counters could not be read
ReadLoadForNothing ==
  /\ phase = "load" /\ taken = None
  /\ SubsystemFails("cpu", "meminfo")
  /\ UNCHANGED <<now, kernel, work, live, taken, span, previous, cpu, draft,
                 memory, fresh, row>>

\* Mutant: without load averages the baseline stays.
PublishCPUKeepingBaseline(loadRead) ==
  /\ phase = "load" /\ taken # None
  /\ cpu' = CPUSnapshot(previous, taken, loadRead)
  /\ previous' = IF loadRead THEN taken ELSE previous
  /\ status' = [status EXCEPT !.cpu =
                  IF IsAvailable(cpu'.overall) /\ loadRead THEN "succeeded" ELSE "partial"]
  /\ fresh' = fresh \cup {"cpu"}
  /\ phase' = "meminfo"
  /\ UNCHANGED <<now, kernel, work, live, taken, span, draft, memory, row>>

\* source.LoadAverage and the rest of cpu.Collector.Collect
PublishCPU(loadRead) ==
  /\ phase = "load" /\ taken # None
  /\ cpu' = CPUSnapshot(previous, taken, loadRead)
  /\ previous' = taken
  /\ status' = [status EXCEPT !.cpu =
                  IF IsAvailable(cpu'.overall) /\ loadRead THEN "succeeded" ELSE "partial"]
  /\ fresh' = fresh \cup {"cpu"}
  /\ phase' = "meminfo"
  /\ UNCHANGED <<now, kernel, work, live, taken, span, draft, memory, row>>

\* memory.Collector.Collect until source.MemInfo has failed
MemInfoFails ==
  /\ phase = "meminfo"
  /\ SubsystemFails("memory", "settle")
  /\ UNCHANGED <<now, kernel, work, live, taken, span, previous, cpu, draft,
                 memory, fresh, row>>

ReadMemInfo(info) ==
  /\ phase = "meminfo" /\ live
  /\ draft' = MemorySnapshot(info)
  /\ phase' = "pressure"
  /\ UNCHANGED <<now, kernel, work, live, taken, span, previous, cpu, memory,
                 status, fresh, row>>

\* The context is looked at once more before the pressure is read.
SkipPressure ==
  /\ phase = "pressure" /\ ~live
  /\ SubsystemFails("memory", "settle")
  /\ UNCHANGED <<now, kernel, work, live, taken, span, previous, cpu, draft,
                 memory, fresh, row>>

\* source.Pressure: it may be unsupported, forbidden, malformed or cancelled.
PublishMemory(pressureRead) ==
  /\ phase = "pressure" /\ live
  /\ memory' = [draft EXCEPT !.pressure = pressureRead]
  /\ status' = [status EXCEPT !.memory =
                  IF draft.complete /\ pressureRead THEN "succeeded" ELSE "partial"]
  /\ fresh' = fresh \cup {"memory"}
  /\ phase' = "settle"
  /\ UNCHANGED <<now, kernel, work, live, taken, span, previous, cpu, draft, row>>

-----------------------------------------------------------------------------
\* The snapshot of host.Collector.Collect keeps what did not fail.
Composed(s, snapshot) == IF status[s] = "failed" THEN None ELSE snapshot

\* A value of a row: NULL when the snapshot or its metric is missing
ValueIn(snapshot, metric) == IF snapshot = None THEN None ELSE metric.value

\* hostHistorySample
HostRow(c, m) ==
  LET overall == ValueIn(c, c.overall)
      used == ValueIn(m, m.used)
      total == ValueIn(m, m.total)
  IN [at |-> IF c = None \/ (m # None /\ m.at > c.at) THEN m.at ELSE c.at,
      overall |-> overall,
      used |-> used,
      pressure |-> m # None /\ m.pressure,
      available |-> \/ overall # None \/ used # None \/ total # None
                    \/ c # None /\ c.load
                    \/ m # None /\ (IsAvailable(m.available) \/ IsAvailable(m.swap.total))]

\* What the collection kept for itself is gone when it returns.
Return ==
  /\ phase' = "idle" /\ live' = FALSE
  /\ taken' = None /\ span' = [c \in Cores |-> None] /\ draft' = None
  /\ status' = [cpu |-> "failed", memory |-> "failed"] /\ fresh' = {}

\* Mutant: a failed subsystem fails the collection.
SettleTogether ==
  /\ phase = "settle"
  /\ row' = IF ~live \/ \E s \in DOMAIN status : status[s] = "failed"
            THEN None
            ELSE HostRow(Composed("cpu", cpu), Composed("memory", memory))
  /\ Return
  /\ UNCHANGED <<now, kernel, work, previous, cpu, memory>>

\* The end of host.Collector.Collect and of executeProvider: after the
\* deadline the whole result is given up, whatever was collected.
Settle ==
  /\ phase = "settle"
  /\ row' = IF ~live \/ \A s \in DOMAIN status : status[s] = "failed"
            THEN None
            ELSE HostRow(Composed("cpu", cpu), Composed("memory", memory))
  /\ Return
  /\ UNCHANGED <<now, kernel, work, previous, cpu, memory>>

Collect ==
  \/ StartCollection \/ Expire
  \/ SkipCPU \/ ReadCounters \/ ReadCountersFails \/ ReadLoadForNothing
  \/ \E loadRead \in BOOLEAN : PublishCPU(loadRead)
  \/ MemInfoFails \/ \E info \in MemInfos : ReadMemInfo(info)
  \/ SkipPressure \/ \E pressureRead \in BOOLEAN : PublishMemory(pressureRead)
  \/ Settle

Next ==
  \/ \E did \in [online -> {"busy", "idle"}] : Elapse(did)
  \/ \E c \in Cores : Reset(c)
  \/ \E S \in SUBSET Cores : ChangeTopology(S)
  \/ Collect

Spec == Init /\ [][Next]_vars

-----------------------------------------------------------------------------
(* What the page and the history may be told.                              *)

MetricOf(V) ==
  [value : V, reason : {None}]
    \cup [value : {None},
          reason : {"not_collected", "collector_error", "not_configured"}]
Usages == [busy : Nat, total : Nat \ {0}]
UsageMetrics == MetricOf(Usages)
CPUSnapshots(S) ==
  [at : Nat, overall : UsageMetrics, cores : [S -> UsageMetrics], load : BOOLEAN]
MemorySnapshots ==
  [at : Nat, total : MetricOf(Nat), available : MetricOf(Nat),
   used : MetricOf(Nat), swap : [total : MetricOf(Nat), used : MetricOf(Nat)],
   pressure : BOOLEAN, complete : BOOLEAN]

Rows ==
  [at : Nat, overall : Usages \cup {None}, used : Nat \cup {None},
   pressure : BOOLEAN, available : BOOLEAN]

\* nil is none of these either.
ASSUME SnapshotAssumption ==
  /\ \A S \in SUBSET Cores : None \notin CPUSnapshots(S)
  /\ None \notin MemorySnapshots /\ None \notin Rows

\* The state is what its declarations say, what was published is not later than
\* the clock, and the latest snapshot has the cores of the baseline.
TypeOK ==
  /\ now \in Nat /\ changes \in Nat
  /\ online \in SUBSET Cores /\ online # {}
  /\ counter \in [Cores -> Counter] /\ work \in [Cores -> Counter]
  /\ resets \subseteq Cores
  /\ phase \in {"idle", "counters", "load", "meminfo", "pressure", "settle"}
  /\ live \in BOOLEAN
  /\ \A reading \in {taken, previous} \ {None} : IsReading(reading)
  /\ span \in [Cores -> Counter \cup {None}]
  /\ cpu # None => cpu \in CPUSnapshots(DOMAIN previous) /\ cpu.at <= now
  /\ phase = "pressure" => draft \in MemorySnapshots /\ draft.at <= now
  /\ memory # None => memory \in MemorySnapshots /\ memory.at <= now
  /\ status \in [{"cpu", "memory"} -> {"failed", "partial", "succeeded"}]
  /\ fresh \subseteq {"cpu", "memory"}
  /\ row \in Rows \cup {None}

CPUPublished == phase = "load" /\ taken # None /\ phase' = "meminfo"
Settled == phase = "settle" /\ phase' = "idle"

\* The usage published for a core is the work it really did since the last
\* reading that had it, however many collections failed in between and
\* whether or not the load averages could be read; a core without a tick
\* since then has none, and a core that the last reading did not have waits
\* for the next (docs/cpu-backend.md: "new cores are unavailable for one
\* reading").
\* Of a core that was reset nothing is said: counters that have grown past
\* the last reading again look like any others.
UsageIsTrue ==
  [][CPUPublished =>
       \A c \in DOMAIN cpu'.cores :
         IF c \notin DOMAIN previous
         THEN cpu'.cores[c] = Unavailable("not_collected")
         ELSE span[c] # None =>
                cpu'.cores[c] =
                  IF span[c] = Zero THEN Unavailable("collector_error")
                  ELSE Available([busy |-> span[c].busy,
                                  total |-> span[c].busy + span[c].idle])]_vars

\* The overall usage is there exactly if each of the cores of the last reading
\* is and no other, and each has a usage; and then it is theirs together
\* (docs/cpu-backend.md: "overall usage waits for one stable topology
\* interval").
OverallWaits ==
  [][CPUPublished =>
       LET cores == cpu'.cores
           usages == [c \in DOMAIN cores |-> cores[c].value]
       IN /\ IsAvailable(cpu'.overall) <=>
               /\ DOMAIN cores = DOMAIN previous
               /\ \A c \in DOMAIN cores : IsAvailable(cores[c])
          /\ IsAvailable(cpu'.overall) =>
               cpu'.overall.value = [busy |-> Total("busy", usages),
                                     total |-> Total("total", usages)]]_vars

\* A collection inside its deadline leaves a row exactly if a subsystem was
\* collected.  The row has the values that the page shows of the subsystems
\* collected this time and no value of the others, also when those still have
\* a snapshot of an earlier collection (docs/memory-backend.md: "A failure in
\* one does not discard valid evidence from the other").
EvidenceIndependent ==
  [][Settled =>
       /\ row' # None <=> live /\ fresh # {}
       /\ row' # None =>
            /\ row'.overall = IF "cpu" \in fresh THEN cpu.overall.value ELSE None
            /\ row'.used = IF "memory" \in fresh THEN memory.used.value ELSE None
            /\ row'.pressure => "memory" \in fresh /\ memory.pressure
            /\ \E s \in fresh : row'.at = IF s = "cpu" THEN cpu.at ELSE memory.at]_vars

=============================================================================
