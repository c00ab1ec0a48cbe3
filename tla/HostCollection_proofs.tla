------------------------ MODULE HostCollection_proofs ------------------------
(*******************************************************************************)
(* Every usage that is published for a core is true.  The counters of a core   *)
(* are those of its last reading and what it did since; while a reading is     *)
(* taken and not yet published, the last reading is that one, and the one      *)
(* before lies its span behind.  What is published has the declared shape, the *)
(* overall usage is the sum of the usages of the cores, for any number of      *)
(* them, and a row holds only what was collected this time.                    *)
(*******************************************************************************)
EXTENDS HostCollection, FiniteSetTheorems, WellFoundedInduction, TLAPS

Plus(a, b) == [busy |-> a.busy + b.busy, idle |-> a.idle + b.idle]

Unpublished == phase = "load" /\ taken # None
LastReading == IF Unpublished THEN taken ELSE previous

Shapes ==
  /\ online \subseteq Cores /\ online # {}
  /\ counter \in [Cores -> Counter] /\ work \in [Cores -> Counter]
  /\ span \in [Cores -> Counter \cup {None}]
  /\ IsReading(previous) /\ IsReading(LastReading)
  /\ Unpublished => DOMAIN taken # {}

Tracked ==
  \A c \in DOMAIN LastReading \ resets : counter[c] = Plus(LastReading[c], work[c])

Spanned ==
  Unpublished =>
    \A c \in DOMAIN taken \cap DOMAIN previous :
      span[c] # None => taken[c] = Plus(previous[c], span[c])

BaselineInv == Shapes /\ Tracked /\ Spanned

-----------------------------------------------------------------------------
LEMMA PlusLaws ==
  ASSUME NEW a \in Counter, NEW b \in Counter, NEW part \in {"busy", "idle"}
  PROVE  /\ Plus(a, Zero) = a
         /\ Advance(a, part) \in Counter
         /\ Advance(Plus(a, b), part) = Plus(a, Advance(b, part))
<1>1. Plus(a, Zero) = a
  BY DEF Plus, Counter, Zero
<1>2. CASE part = "busy"
  BY <1>1, <1>2 DEF Plus, Counter, Advance
<1>3. CASE part = "idle"
  BY <1>1, <1>3 DEF Plus, Counter, Advance
<1> QED BY <1>2, <1>3

\* What leaves the counters, the baseline and the reading alone keeps BaselineInv.
LEMMA BaselineUndisturbed ==
  ASSUME BaselineInv,
         UNCHANGED <<online, counter, work, resets, previous>>,
         \/ UNCHANGED <<phase, taken, span>>
         \/ ~Unpublished /\ ~Unpublished' /\ span' \in [Cores -> Counter \cup {None}]
  PROVE  BaselineInv'
<1>1. LastReading' = LastReading
  BY DEF LastReading, Unpublished
<1>2. Shapes'
  BY <1>1 DEF BaselineInv, Shapes, IsReading, Unpublished
<1>3. Tracked'
  BY <1>1 DEF BaselineInv, Tracked
<1>4. Spanned'
  BY DEF BaselineInv, Spanned, Unpublished
<1> QED BY <1>2, <1>3, <1>4 DEF BaselineInv

LEMMA BaselineInit == Init => BaselineInv
<1> SUFFICES ASSUME Init PROVE BaselineInv
  OBVIOUS
<1>1. ~Unpublished /\ LastReading = previous /\ DOMAIN previous = {}
  BY DEF Init, Unpublished, LastReading, NoCounters
<1>2. Zero \in Counter
  BY DEF Zero, Counter
<1> QED BY <1>1, <1>2 DEF Init, BaselineInv, Shapes, Tracked, Spanned, IsReading

\* The kernel counts, and notes in work what it counted.
LEMMA BaselineElapse ==
  ASSUME BaselineInv, NEW did \in [online -> {"busy", "idle"}], Elapse(did)
  PROVE  BaselineInv'
<1> USE DEF BaselineInv
<1>1. LastReading' = LastReading /\ Unpublished' = Unpublished
  BY DEF Elapse, LastReading, Unpublished
<1>2. ASSUME NEW c \in Cores
      PROVE  /\ counter'[c] \in Counter /\ work'[c] \in Counter
             /\ c \in online => /\ counter'[c] = Advance(counter[c], did[c])
                                /\ work'[c] = Advance(work[c], did[c])
             /\ c \notin online => counter'[c] = counter[c] /\ work'[c] = work[c]
  <2>1. counter[c] \in Counter /\ work[c] \in Counter
    BY <1>2 DEF Shapes
  <2>2. CASE c \in online
    <3>1. did[c] \in {"busy", "idle"}
      BY <2>2
    <3>2. counter'[c] = Advance(counter[c], did[c]) /\ work'[c] = Advance(work[c], did[c])
      BY <1>2, <2>2 DEF Elapse
    <3> QED BY <2>1, <2>2, <3>1, <3>2, PlusLaws
  <2>3. CASE c \notin online
    BY <1>2, <2>1, <2>3 DEF Elapse
  <2> QED BY <2>2, <2>3
<1>3. Shapes'
  <2>1. counter' \in [Cores -> Counter] /\ work' \in [Cores -> Counter]
    BY <1>2 DEF Elapse
  <2> QED BY <1>1, <2>1 DEF Shapes, Elapse, IsReading
<1>4. Tracked'
  <2> SUFFICES ASSUME NEW c \in DOMAIN LastReading \ resets
               PROVE  counter'[c] = Plus(LastReading[c], work'[c])
    BY <1>1 DEF Tracked, Elapse
  <2>1. c \in Cores /\ LastReading[c] \in Counter /\ work[c] \in Counter
    BY DEF Shapes, IsReading
  <2>2. counter[c] = Plus(LastReading[c], work[c])
    BY DEF Tracked
  <2>3. CASE c \in online
    <3>1. did[c] \in {"busy", "idle"}
      BY <2>3
    <3> QED BY <1>2, <2>1, <2>2, <2>3, <3>1, PlusLaws
  <2>4. CASE c \notin online
    BY <1>2, <2>1, <2>2, <2>4
  <2> QED BY <2>3, <2>4
<1>5. Spanned'
  BY <1>1 DEF Spanned, Elapse
<1> QED BY <1>3, <1>4, <1>5

LEMMA BaselineReset ==
  ASSUME BaselineInv, NEW c \in Cores, Reset(c)
  PROVE  BaselineInv'
<1>1. LastReading' = LastReading /\ Unpublished' = Unpublished
  BY DEF Reset, LastReading, Unpublished
<1>2. Zero \in Counter
  BY DEF Zero, Counter
<1> QED BY <1>1, <1>2 DEF BaselineInv, Shapes, Tracked, Spanned, Reset, IsReading

\* The reading becomes the last one, and the work since the one before its span.
LEMMA BaselineReadCounters ==
  ASSUME BaselineInv, ReadCounters
  PROVE  BaselineInv'
<1> USE DEF BaselineInv
<1>1. taken' \in [online -> Counter] /\ taken' # None
  BY NoneAssumption DEF ReadCounters, Shapes
<1>2. LastReading = previous /\ LastReading' = taken'
  BY <1>1 DEF ReadCounters, LastReading, Unpublished
<1>3. Zero \in Counter
  BY DEF Zero, Counter
<1>4. Shapes'
  BY <1>1, <1>2, <1>3 DEF Shapes, ReadCounters, IsReading
<1>5. Tracked'
  <2> SUFFICES ASSUME NEW c \in online
               PROVE  counter[c] = Plus(counter[c], Zero)
    BY <1>1, <1>2 DEF Tracked, ReadCounters, Shapes
  <2> QED BY <1>3, PlusLaws DEF Shapes
<1>6. Spanned'
  <2> SUFFICES ASSUME NEW c \in online \cap DOMAIN previous, span'[c] # None
               PROVE  taken'[c] = Plus(previous[c], span'[c])
    BY <1>1 DEF Spanned, ReadCounters
  <2>1. c \notin resets /\ span'[c] = work[c] /\ taken'[c] = counter[c]
    BY DEF ReadCounters, Shapes
  <2> QED BY <1>2, <2>1 DEF Tracked
<1> QED BY <1>4, <1>5, <1>6

LEMMA BaselinePublishCPU ==
  ASSUME BaselineInv, NEW loadRead \in BOOLEAN, PublishCPU(loadRead)
  PROVE  BaselineInv'
<1>1. LastReading = taken /\ LastReading' = taken /\ previous' = taken /\ ~Unpublished'
  BY DEF PublishCPU, LastReading, Unpublished
<1>2. Shapes'
  BY <1>1 DEF BaselineInv, Shapes, PublishCPU, kernel, IsReading
<1>3. Tracked'
  BY <1>1 DEF BaselineInv, Tracked, PublishCPU, kernel
<1>4. Spanned'
  BY <1>1 DEF Spanned
<1> QED BY <1>2, <1>3, <1>4 DEF BaselineInv

LEMMA BaselineNext == BaselineInv /\ [Next]_vars => BaselineInv'
<1> SUFFICES ASSUME BaselineInv, [Next]_vars PROVE BaselineInv'
  OBVIOUS
<1> USE DEF kernel
<1>1. CASE \E did \in [online -> {"busy", "idle"}] : Elapse(did)
  BY <1>1, BaselineElapse
<1>2. CASE \E c \in Cores : Reset(c)
  BY <1>2, BaselineReset
<1>3. CASE \E S \in SUBSET Cores : ChangeTopology(S)
  BY <1>3 DEF ChangeTopology, BaselineInv, Shapes, Tracked, Spanned, IsReading,
              LastReading, Unpublished
<1>4. CASE Collect
  <2>1. CASE StartCollection
    BY <2>1, BaselineUndisturbed DEF StartCollection, Unpublished, BaselineInv, Shapes
  <2>2. CASE Expire
    BY <2>2, BaselineUndisturbed DEF Expire
  <2>3. CASE SkipCPU
    BY <2>3, BaselineUndisturbed DEF SkipCPU, SubsystemFails, Unpublished, BaselineInv, Shapes
  <2>4. CASE ReadCounters
    BY <2>4, BaselineReadCounters
  <2>5. CASE ReadCountersFails
    BY <2>5, BaselineUndisturbed DEF ReadCountersFails, Unpublished, BaselineInv, Shapes
  <2>6. CASE ReadLoadForNothing
    BY <2>6, BaselineUndisturbed
       DEF ReadLoadForNothing, SubsystemFails, Unpublished, BaselineInv, Shapes
  <2>7. CASE \E loadRead \in BOOLEAN : PublishCPU(loadRead)
    BY <2>7, BaselinePublishCPU
  <2>8. CASE MemInfoFails
    BY <2>8, BaselineUndisturbed
       DEF MemInfoFails, SubsystemFails, Unpublished, BaselineInv, Shapes
  <2>9. CASE \E info \in MemInfos : ReadMemInfo(info)
    BY <2>9, BaselineUndisturbed DEF ReadMemInfo, Unpublished, BaselineInv, Shapes
  <2>10. CASE SkipPressure
    BY <2>10, BaselineUndisturbed
       DEF SkipPressure, SubsystemFails, Unpublished, BaselineInv, Shapes
  <2>11. CASE \E pressureRead \in BOOLEAN : PublishMemory(pressureRead)
    BY <2>11, BaselineUndisturbed DEF PublishMemory, Unpublished, BaselineInv, Shapes
  <2>12. CASE Settle
    BY <2>12, BaselineUndisturbed DEF Settle, Return, Unpublished, BaselineInv, Shapes
  <2> QED BY <1>4, <2>1, <2>2, <2>3, <2>4, <2>5, <2>6, <2>7, <2>8, <2>9, <2>10,
             <2>11, <2>12 DEF Collect
<1>5. CASE UNCHANGED vars
  BY <1>5, BaselineUndisturbed DEF vars
<1> QED BY <1>1, <1>2, <1>3, <1>4, <1>5 DEF Next

-----------------------------------------------------------------------------
\* calculateUsage gives a core back what it did.
LEMMA UsageOfSpan ==
  ASSUME NEW before \in Counter, NEW did \in Counter
  PROVE  UsageMetric(before, Plus(before, did)) =
           IF did = Zero THEN Unavailable("collector_error")
           ELSE Available([busy |-> did.busy, total |-> did.busy + did.idle])
<1> DEFINE after == Plus(before, did)
           usage == [busy |-> did.busy, total |-> did.busy + did.idle]
<1>1. /\ did.busy \in Nat /\ did.idle \in Nat
      /\ after.busy - before.busy = did.busy /\ after.idle - before.idle = did.idle
  BY DEF Counter, Plus
<1>2. did = Zero <=> did.busy + did.idle = 0
  BY <1>1 DEF Counter, Zero
<1>3. usage \in [busy : Nat, total : Nat]
  BY <1>1
<1>4. usage # None
  BY <1>3, NoneAssumption
<1>5. Usage(before, after) = IF did = Zero THEN None ELSE usage
  BY <1>1, <1>2 DEF Usage
<1> QED BY <1>4, <1>5 DEF UsageMetric

\* Only cpu.Collector.Collect publishes.
LEMMA WhoPublishes ==
  ASSUME [Next]_vars, CPUPublished
  PROVE  \E loadRead \in BOOLEAN : PublishCPU(loadRead)
BY DEF CPUPublished, Next, Collect, vars, kernel, Elapse, Reset, ChangeTopology,
       StartCollection, Expire, SkipCPU, ReadCounters, ReadCountersFails,
       ReadLoadForNothing, MemInfoFails, ReadMemInfo, SkipPressure, PublishMemory,
       Settle, Return, SubsystemFails

\* UsageIsTrue for any number of cores, any contents of /proc/meminfo, and
\* however long the clock runs.
THEOREM PublishedUsageIsTrue == Spec => UsageIsTrue
<1> DEFINE True ==
      CPUPublished =>
        \A c \in DOMAIN cpu'.cores :
          IF c \notin DOMAIN previous
          THEN cpu'.cores[c] = Unavailable("not_collected")
          ELSE span[c] # None =>
                 cpu'.cores[c] =
                   IF span[c] = Zero THEN Unavailable("collector_error")
                   ELSE Available([busy |-> span[c].busy,
                                   total |-> span[c].busy + span[c].idle])
<1>1. BaselineInv /\ [Next]_vars => True
  <2> SUFFICES ASSUME BaselineInv, [Next]_vars, CPUPublished,
                      NEW c \in DOMAIN cpu'.cores
               PROVE  /\ c \notin DOMAIN previous =>
                           cpu'.cores[c] = Unavailable("not_collected")
                      /\ c \in DOMAIN previous /\ span[c] # None =>
                           cpu'.cores[c] =
                             IF span[c] = Zero THEN Unavailable("collector_error")
                             ELSE Available([busy |-> span[c].busy,
                                             total |-> span[c].busy + span[c].idle])
    OBVIOUS
  <2>1. PICK loadRead \in BOOLEAN : PublishCPU(loadRead)
    BY WhoPublishes
  <2>2. cpu'.cores = [d \in DOMAIN taken |-> CoreMetric(previous, taken, d)]
    BY <2>1 DEF PublishCPU, CPUSnapshot
  <2>3. c \in DOMAIN taken /\ cpu'.cores[c] = CoreMetric(previous, taken, c)
    BY <2>2
  <2>4. CASE c \notin DOMAIN previous
    BY <2>3, <2>4 DEF CoreMetric
  <2>5. CASE c \in DOMAIN previous /\ span[c] # None
    <3>1. taken[c] = Plus(previous[c], span[c])
      BY <2>3, <2>5 DEF CPUPublished, BaselineInv, Spanned, Unpublished
    <3>2. previous[c] \in Counter /\ span[c] \in Counter
      BY <2>5 DEF BaselineInv, Shapes, IsReading
    <3>3. cpu'.cores[c] = UsageMetric(previous[c], Plus(previous[c], span[c]))
      BY <2>3, <2>5, <3>1 DEF CoreMetric
    <3> QED BY <2>5, <3>2, <3>3, UsageOfSpan
  <2> QED BY <2>4, <2>5
<1>2. Spec => []BaselineInv
  BY BaselineInit, BaselineNext, PTL DEF Spec
<1>3. BaselineInv /\ [Next]_vars => [True]_vars
  BY <1>1
<1> QED BY <1>2, <1>3, PTL DEF Spec, UsageIsTrue

-----------------------------------------------------------------------------
(*****************************************************************************)
(* Sums over the cores.  The library's rule for induction has an operator as *)
(* a parameter, so induction is stated here for a set.                       *)
(*****************************************************************************)

\* Induction over the naturals, for a set of them.
LEMMA EveryNatural ==
  ASSUME NEW T, 0 \in T, \A n \in Nat : n \in T => n + 1 \in T
  PROVE  Nat \subseteq T
<1> SUFFICES ASSUME Nat \ T # {} PROVE FALSE
  OBVIOUS
<1>1. PICK n \in Nat \ T : \A m \in Nat \ T : ~(<<m, n>> \in OpToRel(<, Nat))
  BY NatLessThanWellFounded, WFMin
<1>2. \A m \in Nat \ T : ~(m < n)
  BY <1>1 DEF OpToRel
<1>3. n - 1 \in Nat
  BY SMT
<1>4. n - 1 \in T
  BY <1>2, <1>3
<1> QED
  BY <1>3, <1>4

Pick(s) == CHOOSE x \in s : TRUE

\* The function that MapThenSumSet adds up with.
Adds(g, part, n) ==
  g = [s \in SUBSET DOMAIN n |->
         IF s = {} THEN 0 ELSE n[Pick(s)][part] + g[s \ {Pick(s)}]]

Adder(part, n) == CHOOSE g : Adds(g, part, n)

LEMMA TotalIsAdded ==
  ASSUME NEW n, NEW part
  PROVE  Total(part, n) = Adder(part, n)[DOMAIN n]
BY DEF Total, MapThenSumSet, MapThenFoldSet, Adder, Adds, Pick


\* One step of it.
Body(g, part, n, s) ==
  IF s = {} THEN 0 ELSE n[Pick(s)][part] + g[s \ {Pick(s)}]

\* It exists: functions that are right for ever larger sets of cores lead to
\* one that is right for all of them.
LEMMA AdderExists ==
  ASSUME NEW n, NEW part, IsFiniteSet(DOMAIN n)
  PROVE  \E g : Adds(g, part, n)
<1> DEFINE D == DOMAIN n
<1> DEFINE Right(g, m) ==
      \A s \in SUBSET D : Cardinality(s) <= m => g[s] = Body(g, part, n, s)
<1> DEFINE T == {m \in Nat : \E g : Right(g, m)}
<1>1. \A s \in SUBSET D :
        /\ IsFiniteSet(s) /\ Cardinality(s) \in Nat /\ Cardinality(s) <= Cardinality(D)
        /\ s = {} <=> Cardinality(s) = 0
  BY FS_Subset, FS_EmptySet, FS_CardinalityType
<1>2. \A s \in SUBSET D : s # {} =>
        /\ Pick(s) \in s /\ s \ {Pick(s)} \in SUBSET D
        /\ Cardinality(s \ {Pick(s)}) = Cardinality(s) - 1
  BY <1>1, FS_RemoveElement DEF Pick
<1> HIDE DEF D
<1>3. 0 \in T
  <2> DEFINE g == [s \in SUBSET D |-> 0]
  <2>1. Right(g, 0)
    BY <1>1 DEF Body
  <2> QED
    BY <2>1
<1>4. ASSUME NEW m \in Nat, m \in T PROVE m + 1 \in T
  <2>1. PICK g : Right(g, m)
    BY <1>4
  <2> DEFINE h == [s \in SUBSET D |->
                    IF Cardinality(s) <= m THEN g[s] ELSE Body(g, part, n, s)]
  <2>2. ASSUME NEW s \in SUBSET D, Cardinality(s) <= m + 1
        PROVE  h[s] = Body(h, part, n, s)
    <3>1. h[s] = Body(g, part, n, s)
      BY <2>1
    <3>2. CASE s = {}
      BY <3>1, <3>2 DEF Body
    <3>3. CASE s # {}
      <4>1. /\ s \ {Pick(s)} \in SUBSET D
            /\ Cardinality(s \ {Pick(s)}) <= m
        BY <1>1, <1>2, <2>2, <3>3
      <4>2. h[s \ {Pick(s)}] = g[s \ {Pick(s)}]
        BY <4>1
      <4> HIDE DEF h
      <4> QED
        BY <3>1, <3>3, <4>2 DEF Body
    <3> QED
      BY <3>2, <3>3
  <2>3. Right(h, m + 1)
    BY <2>2
  <2> HIDE DEF h
  <2> QED
    BY <2>3
<1>5. Cardinality(D) \in T
  <2>1. Cardinality(D) \in Nat
    BY <1>1
  <2> HIDE DEF T
  <2> QED
    BY <1>3, <1>4, <2>1, EveryNatural
<1>6. PICK g : Right(g, Cardinality(D))
  BY <1>5
<1> DEFINE h == [s \in SUBSET D |-> g[s]]
<1>7. \A s \in SUBSET D : h[s] = Body(h, part, n, s)
  <2> SUFFICES ASSUME NEW s \in SUBSET D PROVE h[s] = Body(h, part, n, s)
    OBVIOUS
  <2>1. h[s] = Body(g, part, n, s)
    BY <1>1, <1>6
  <2>2. CASE s = {}
    BY <2>1, <2>2 DEF Body
  <2>3. CASE s # {}
    <3>1. h[s \ {Pick(s)}] = g[s \ {Pick(s)}]
      BY <1>2, <2>3
    <3> HIDE DEF h
    <3> QED
      BY <2>1, <2>3, <3>1 DEF Body
  <2> QED
    BY <2>2, <2>3
<1>8. h = [s \in SUBSET D |-> Body(h, part, n, s)]
  <2>1. DOMAIN h = SUBSET D /\ h = [s \in SUBSET D |-> h[s]]
    OBVIOUS
  <2> HIDE DEF h
  <2> QED
    BY <1>7, <2>1
<1> QED
  BY <1>8 DEF Adds, Body, D

\* What a sum over the cores is made of.
LEMMA AdderUnfolds ==
  ASSUME NEW n, NEW part, IsFiniteSet(DOMAIN n)
  PROVE  \A s \in SUBSET DOMAIN n :
           Adder(part, n)[s] = Body(Adder(part, n), part, n, s)
<1> DEFINE g == Adder(part, n)
<1>1. Adds(g, part, n)
  BY AdderExists DEF Adder
<1> HIDE DEF g
<1>2. \A s \in SUBSET DOMAIN n : g[s] = Body(g, part, n, s)
  BY <1>1 DEF Adds, Body
<1> QED
  BY <1>2 DEF g

\* Induction over the subsets of a finite set, one element less at a time.
LEMMA EverySubset ==
  ASSUME NEW D, IsFiniteSet(D), NEW T, {} \in T,
         \A s \in SUBSET D : s # {} /\ s \ {Pick(s)} \in T => s \in T
  PROVE  SUBSET D \subseteq T
<1> DEFINE N == {m \in Nat : \A s \in SUBSET D : Cardinality(s) = m => s \in T}
<1>1. \A s \in SUBSET D :
        /\ IsFiniteSet(s) /\ Cardinality(s) \in Nat
        /\ s = {} <=> Cardinality(s) = 0
  BY FS_Subset, FS_EmptySet, FS_CardinalityType
<1>2. \A s \in SUBSET D : s # {} =>
        /\ s \ {Pick(s)} \in SUBSET D
        /\ Cardinality(s \ {Pick(s)}) = Cardinality(s) - 1
  BY <1>1, FS_RemoveElement DEF Pick
<1>3. 0 \in N
  BY <1>1
<1>4. ASSUME NEW m \in Nat, m \in N PROVE m + 1 \in N
  <2> SUFFICES ASSUME NEW s \in SUBSET D, Cardinality(s) = m + 1 PROVE s \in T
    OBVIOUS
  <2>1. s # {} /\ Cardinality(s \ {Pick(s)}) = m /\ s \ {Pick(s)} \in SUBSET D
    BY <1>1, <1>2
  <2> QED
    BY <1>4, <2>1
<1> HIDE DEF N
<1>5. Nat \subseteq N
  BY <1>3, <1>4, EveryNatural
<1> QED
  BY <1>1, <1>5 DEF N

LEMMA TotalOfNaturals ==
  ASSUME NEW n, NEW part, IsFiniteSet(DOMAIN n),
         \A c \in DOMAIN n : n[c][part] \in Nat
  PROVE  /\ Total(part, n) \in Nat
         /\ DOMAIN n # {} /\ (\A c \in DOMAIN n : n[c][part] > 0) => Total(part, n) > 0
<1> DEFINE D == DOMAIN n
<1> DEFINE g == Adder(part, n)
<1>1. /\ Total(part, n) = g[D]
      /\ \A s \in SUBSET D : g[s] = Body(g, part, n, s)
  BY TotalIsAdded, AdderUnfolds
<1>2. \A c \in D : n[c][part] \in Nat
  OBVIOUS
<1> HIDE DEF D, g
<1>3. \A s \in SUBSET D : s # {} =>
        Pick(s) \in D /\ g[s] = n[Pick(s)][part] + g[s \ {Pick(s)}]
  BY <1>1 DEF Body, Pick
<1> DEFINE T == {s \in SUBSET D : g[s] \in Nat}
<1>4. {} \in T
  <2>1. g[{}] = Body(g, part, n, {})
    BY <1>1
  <2> QED
    BY <2>1 DEF Body
<1>5. ASSUME NEW s \in SUBSET D, s # {}, s \ {Pick(s)} \in T PROVE s \in T
  BY <1>2, <1>3, <1>5
<1>6. SUBSET D \subseteq T
  <2>1. IsFiniteSet(D)
    BY DEF D
  <2> HIDE DEF T
  <2> QED
    BY <1>4, <1>5, <2>1, EverySubset
<1>7. g[D] \in Nat
  BY <1>6
<1>8. ASSUME D # {}, \A c \in D : n[c][part] > 0 PROVE g[D] > 0
  <2>1. g[D \ {Pick(D)}] \in Nat
    BY <1>6
  <2>2. Pick(D) \in D /\ g[D] = n[Pick(D)][part] + g[D \ {Pick(D)}]
    BY <1>3, <1>8
  <2> QED
    BY <1>2, <1>8, <2>1, <2>2
<1> QED
  BY <1>1, <1>7, <1>8 DEF D

\* The sum of sums: what is added core by core is added in total.
LEMMA TotalsAdd ==
  ASSUME NEW D, IsFiniteSet(D), NEW a, NEW b, NEW d, NEW p, NEW q, NEW r,
         DOMAIN a = D, DOMAIN b = D, DOMAIN d = D,
         \A c \in D : /\ a[c][p] \in Int /\ b[c][q] \in Int
                     /\ d[c][r] = a[c][p] + b[c][q]
  PROVE  Total(r, d) = Total(p, a) + Total(q, b)
<1> DEFINE f == Adder(p, a)
<1> DEFINE g == Adder(q, b)
<1> DEFINE h == Adder(r, d)
<1>1. /\ \A s \in SUBSET D : f[s] = Body(f, p, a, s)
      /\ \A s \in SUBSET D : g[s] = Body(g, q, b, s)
      /\ \A s \in SUBSET D : h[s] = Body(h, r, d, s)
  BY AdderUnfolds
<1>2. Total(p, a) = f[D] /\ Total(q, b) = g[D] /\ Total(r, d) = h[D]
  BY TotalIsAdded
<1> HIDE DEF f, g, h
<1> DEFINE T == {s \in SUBSET D : f[s] \in Int /\ g[s] \in Int /\ h[s] = f[s] + g[s]}
<1>4. {} \in T
  <2>1. /\ f[{}] = Body(f, p, a, {}) /\ g[{}] = Body(g, q, b, {})
        /\ h[{}] = Body(h, r, d, {})
    BY <1>1
  <2> QED
    BY <2>1 DEF Body
<1>5. ASSUME NEW s \in SUBSET D, s # {}, s \ {Pick(s)} \in T PROVE s \in T
  <2>1. Pick(s) \in D
    BY <1>5 DEF Pick
  <2>2. /\ f[s] = a[Pick(s)][p] + f[s \ {Pick(s)}]
        /\ g[s] = b[Pick(s)][q] + g[s \ {Pick(s)}]
        /\ h[s] = d[Pick(s)][r] + h[s \ {Pick(s)}]
    BY <1>1, <1>5 DEF Body
  <2> QED
    BY <1>5, <2>1, <2>2
<1>6. SUBSET D \subseteq T
  <2> HIDE DEF T
  <2> QED
    BY <1>4, <1>5, EverySubset
<1>7. h[D] = f[D] + g[D]
  BY <1>6
<1> QED
  BY <1>2, <1>7

-----------------------------------------------------------------------------
(***************************************************************************)
(* The overall usage.                                                      *)
(***************************************************************************)

LEMMA ReadingIsFinite ==
  ASSUME NEW t, IsReading(t)
  PROVE  IsFiniteSet(DOMAIN t)
BY HostAssumption, FS_Subset DEF IsReading

\* calculateUsage: what a usage is, and when there is one.
LEMMA UsageOfCounters ==
  ASSUME NEW before \in Counter, NEW after \in Counter
  PROVE  LET busy == after.busy - before.busy
             idle == after.idle - before.idle
             u == UsageMetric(before, after)
         IN /\ IsAvailable(u) <=> busy >= 0 /\ idle >= 0 /\ busy + idle # 0
            /\ IsAvailable(u) => /\ u.value = [busy |-> busy, total |-> busy + idle]
                                 /\ u.value \in Usages
<1> DEFINE busy == after.busy - before.busy
           idle == after.idle - before.idle
           u == UsageMetric(before, after)
           usage == [busy |-> busy, total |-> busy + idle]
<1>1. busy \in Int /\ idle \in Int
  BY DEF Counter
<1>2. CASE busy >= 0 /\ idle >= 0 /\ busy + idle # 0
  <2>1. usage \in [busy : Nat, total : Nat] /\ usage \in Usages
    BY <1>1, <1>2 DEF Usages
  <2>2. Usage(before, after) = usage /\ usage # None
    BY <1>1, <1>2, <2>1, NoneAssumption DEF Usage
  <2>3. u.value = usage
    BY <2>2 DEF UsageMetric, Available
  <2> QED
    BY <1>2, <2>1, <2>2, <2>3 DEF IsAvailable
<1>3. CASE ~(busy >= 0 /\ idle >= 0 /\ busy + idle # 0)
  <2>1. Usage(before, after) = None
    BY <1>1, <1>3 DEF Usage
  <2>2. u.value = None
    BY <2>1 DEF UsageMetric, Unavailable
  <2> QED
    BY <1>3, <2>2 DEF IsAvailable
<1> QED
  BY <1>2, <1>3

LEMMA AggregateIsCounter ==
  ASSUME NEW t, IsReading(t)
  PROVE  Aggregate(t) \in Counter
<1>1. \A c \in DOMAIN t : t[c]["busy"] \in Nat /\ t[c]["idle"] \in Nat
  BY DEF IsReading, Counter
<1>2. Total("busy", t) \in Nat /\ Total("idle", t) \in Nat
  BY <1>1, ReadingIsFinite, TotalOfNaturals
<1> QED
  BY <1>2 DEF Aggregate, Counter

\* Cores that each have a usage have one together, the sum of theirs: the
\* differences of the sums are the sums of the differences.
LEMMA UsagesAddUp ==
  ASSUME NEW before, IsReading(before), NEW after, IsReading(after),
         DOMAIN before = DOMAIN after, DOMAIN after # {},
         \A c \in DOMAIN after : IsAvailable(UsageMetric(before[c], after[c]))
  PROVE  LET usages == [c \in DOMAIN after |-> UsageMetric(before[c], after[c]).value]
             overall == UsageMetric(Aggregate(before), Aggregate(after))
         IN /\ IsAvailable(overall)
            /\ overall.value = [busy |-> Total("busy", usages),
                                total |-> Total("total", usages)]
<1> DEFINE D == DOMAIN after
           usages == [c \in D |-> UsageMetric(before[c], after[c]).value]
           idles == [c \in D |-> [idle |-> after[c].idle - before[c].idle]]
           overall == UsageMetric(Aggregate(before), Aggregate(after))
<1>1. IsFiniteSet(D) /\ DOMAIN before = D /\ DOMAIN usages = D /\ DOMAIN idles = D
  BY ReadingIsFinite
<1>2. ASSUME NEW c \in D
      PROVE  /\ before[c].busy \in Nat /\ before[c].idle \in Nat
             /\ after[c].busy \in Nat /\ after[c].idle \in Nat
             /\ after[c].busy - before[c].busy >= 0
             /\ after[c].idle - before[c].idle >= 0
             /\ usages[c].busy = after[c].busy - before[c].busy
             /\ usages[c].total = usages[c].busy + idles[c].idle
             /\ usages[c].total # 0
  <2>1. before[c] \in Counter /\ after[c] \in Counter
    BY DEF IsReading
  <2>2. /\ before[c].busy \in Nat /\ before[c].idle \in Nat
        /\ after[c].busy \in Nat /\ after[c].idle \in Nat
    BY <2>1 DEF Counter
  <2>3. /\ after[c].busy - before[c].busy >= 0
        /\ after[c].idle - before[c].idle >= 0
        /\ (after[c].busy - before[c].busy) + (after[c].idle - before[c].idle) # 0
        /\ usages[c] = [busy |-> after[c].busy - before[c].busy,
                        total |-> (after[c].busy - before[c].busy)
                                    + (after[c].idle - before[c].idle)]
    BY <2>1, UsageOfCounters
  <2>4. idles[c].idle = after[c].idle - before[c].idle
    OBVIOUS
  <2> HIDE DEF usages, idles
  <2> QED
    BY <2>2, <2>3, <2>4
<1>3. \A c \in D :
        /\ before[c]["busy"] \in Nat /\ before[c]["idle"] \in Nat
        /\ usages[c]["busy"] \in Nat /\ idles[c]["idle"] \in Nat
        /\ usages[c]["total"] \in Nat /\ usages[c]["total"] > 0
        /\ after[c]["busy"] = usages[c]["busy"] + before[c]["busy"]
        /\ after[c]["idle"] = idles[c]["idle"] + before[c]["idle"]
        /\ usages[c]["total"] = usages[c]["busy"] + idles[c]["idle"]
  <2> SUFFICES ASSUME NEW c \in D
               PROVE  /\ before[c]["busy"] \in Nat /\ before[c]["idle"] \in Nat
                      /\ usages[c]["busy"] \in Nat /\ idles[c]["idle"] \in Nat
                      /\ usages[c]["total"] \in Nat /\ usages[c]["total"] > 0
                      /\ after[c]["busy"] = usages[c]["busy"] + before[c]["busy"]
                      /\ after[c]["idle"] = idles[c]["idle"] + before[c]["idle"]
                      /\ usages[c]["total"] = usages[c]["busy"] + idles[c]["idle"]
    OBVIOUS
  <2>1. idles[c].idle = after[c].idle - before[c].idle
    OBVIOUS
  <2> HIDE DEF usages, idles, D
  <2>2. /\ before[c].busy \in Nat /\ before[c].idle \in Nat
        /\ after[c].busy \in Nat /\ after[c].idle \in Nat
        /\ after[c].busy - before[c].busy >= 0
        /\ after[c].idle - before[c].idle >= 0
        /\ usages[c].busy = after[c].busy - before[c].busy
        /\ usages[c].total = usages[c].busy + idles[c].idle
        /\ usages[c].total # 0
    BY <1>2
  <2> QED
    BY <2>1, <2>2, SMT
<1> HIDE DEF usages, idles
<1>4. /\ Total("busy", after) = Total("busy", usages) + Total("busy", before)
      /\ Total("idle", after) = Total("idle", idles) + Total("idle", before)
      /\ Total("total", usages) = Total("busy", usages) + Total("idle", idles)
  <2>1. Total("busy", after) = Total("busy", usages) + Total("busy", before)
    BY <1>1, <1>3, TotalsAdd
  <2>2. Total("idle", after) = Total("idle", idles) + Total("idle", before)
    BY <1>1, <1>3, TotalsAdd
  <2>3. Total("total", usages) = Total("busy", usages) + Total("idle", idles)
    BY <1>1, <1>3, TotalsAdd
  <2> QED
    BY <2>1, <2>2, <2>3
<1>5. /\ Total("busy", before) \in Nat /\ Total("idle", before) \in Nat
      /\ Total("busy", usages) \in Nat /\ Total("idle", idles) \in Nat
      /\ Total("total", usages) > 0
  BY <1>1, <1>3, TotalOfNaturals
<1>6. /\ Aggregate(before) \in Counter /\ Aggregate(after) \in Counter
      /\ Aggregate(after).busy - Aggregate(before).busy = Total("busy", usages)
      /\ Aggregate(after).idle - Aggregate(before).idle = Total("idle", idles)
  BY <1>4, <1>5, AggregateIsCounter DEF Aggregate
<1>7. /\ IsAvailable(overall)
      /\ overall.value = [busy |-> Total("busy", usages),
                          total |-> Total("total", usages)]
  BY <1>4, <1>5, <1>6, UsageOfCounters
<1> QED
  BY <1>7 DEF usages

-----------------------------------------------------------------------------
(***************************************************************************)
(* Types.                                                                  *)
(***************************************************************************)

LEMMA UsageMetricType ==
  ASSUME NEW before \in Counter, NEW after \in Counter
  PROVE  UsageMetric(before, after) \in UsageMetrics
<1> DEFINE busy == after.busy - before.busy
           idle == after.idle - before.idle
<1>1. busy \in Int /\ idle \in Int
  BY DEF Counter
<1>2. CASE Usage(before, after) = None
  BY <1>2 DEF UsageMetric, UsageMetrics, MetricOf, Unavailable
<1>3. CASE Usage(before, after) # None
  <2>1. /\ Usage(before, after) = [busy |-> busy, total |-> busy + idle]
        /\ busy >= 0 /\ idle >= 0 /\ busy + idle # 0
    BY <1>1, <1>3 DEF Usage
  <2>2. Usage(before, after) \in [busy : Nat, total : Nat \ {0}]
    BY <1>1, <2>1
  <2> QED BY <1>3, <2>2 DEF UsageMetric, UsageMetrics, MetricOf, Usages, Available
<1> QED BY <1>2, <1>3

LEMMA CPUSnapshotType ==
  ASSUME NEW before, IsReading(before), NEW after, IsReading(after),
         NEW loadRead \in BOOLEAN, now \in Nat
  PROVE  LET s == CPUSnapshot(before, after, loadRead)
         IN s \in CPUSnapshots(DOMAIN after) /\ s.at = now
<1>1. /\ Unavailable("not_collected") \in UsageMetrics
      /\ Unavailable("collector_error") \in UsageMetrics
  BY DEF UsageMetrics, MetricOf, Unavailable
<1>2. ASSUME NEW c \in DOMAIN after PROVE CoreMetric(before, after, c) \in UsageMetrics
  <2>1. CASE c \in DOMAIN before
    BY <2>1, UsageMetricType DEF CoreMetric, IsReading
  <2>2. CASE c \notin DOMAIN before
    BY <1>1, <2>2 DEF CoreMetric
  <2> QED BY <2>1, <2>2
<1>3. Overall(before, after) \in UsageMetrics
  <2>1. UsageMetric(Aggregate(before), Aggregate(after)) \in UsageMetrics
    BY AggregateIsCounter, UsageMetricType
  <2> QED BY <1>1, <2>1 DEF Overall
<1> QED BY <1>2, <1>3 DEF CPUSnapshot, CPUSnapshots

LEMMA MemorySnapshotType ==
  ASSUME NEW info \in MemInfos, now \in Nat
  PROVE  MemorySnapshot(info) \in MemorySnapshots
<1>1. \A f \in DOMAIN info : info[f] \in Nat
  BY HostAssumption
<1>2. /\ \A v \in Nat : Available(v) \in MetricOf(Nat)
      /\ Unavailable("collector_error") \in MetricOf(Nat)
      /\ Unavailable("not_configured") \in MetricOf(Nat)
  BY DEF MetricOf, Available, Unavailable
<1>3. \A f \in Fields : Field(info, f) \in MetricOf(Nat)
  BY <1>1, <1>2 DEF Field
<1>4. \A total, rest \in Fields : Used(info, total, rest) \in MetricOf(Nat)
  <2> SUFFICES ASSUME NEW total \in Fields, NEW rest \in Fields,
                      {total, rest} \subseteq DOMAIN info, info[rest] <= info[total]
               PROVE  Available(info[total] - info[rest]) \in MetricOf(Nat)
    BY <1>2 DEF Used
  <2>1. info[total] - info[rest] \in Nat
    BY <1>1
  <2> QED BY <1>2, <2>1
<1>5. Swap(info) \in [total : MetricOf(Nat), used : MetricOf(Nat)]
  BY <1>2, <1>3, <1>4 DEF Swap, Fields
<1>6. {"MemTotal", "MemAvailable"} \subseteq Fields
  BY DEF Fields
<1> QED BY <1>3, <1>4, <1>5, <1>6 DEF MemorySnapshot, MemorySnapshots

\* While a collection runs, what is fresh has succeeded at least in part, and
\* its snapshot is there.
EvidenceInv ==
  /\ \A s \in {"cpu", "memory"} : s \in fresh <=> status[s] # "failed"
  /\ "cpu" \in fresh => cpu # None /\ phase \in {"meminfo", "pressure", "settle"}
  /\ "memory" \in fresh => memory # None /\ phase = "settle"

\* What Settle composes is what is fresh.
LEMMA ComposedIsFresh ==
  ASSUME EvidenceInv
  PROVE  /\ Composed("cpu", cpu) = IF "cpu" \in fresh THEN cpu ELSE None
         /\ Composed("memory", memory) = IF "memory" \in fresh THEN memory ELSE None
BY DEF EvidenceInv, Composed

\* A row is made of what was collected, and Settle asks that something was.
LEMMA SettledRow ==
  ASSUME TypeOK, EvidenceInv, fresh # {}
  PROVE  HostRow(Composed("cpu", cpu), Composed("memory", memory)) \in Rows
<1> DEFINE c == Composed("cpu", cpu)
           m == Composed("memory", memory)
           r == HostRow(c, m)
<1>1. /\ c # None => c \in CPUSnapshots(DOMAIN previous)
      /\ m # None => m \in MemorySnapshots
      /\ c # None \/ m # None
  BY ComposedIsFresh DEF TypeOK, EvidenceInv
<1> HIDE DEF c, m
<1>2. ValueIn(c, c.overall) \in Usages \cup {None}
  BY <1>1 DEF ValueIn, CPUSnapshots, UsageMetrics, MetricOf
<1>3. ValueIn(m, m.used) \in Nat \cup {None}
  BY <1>1 DEF ValueIn, MemorySnapshots, MetricOf
<1>4. (IF c = None \/ (m # None /\ m.at > c.at) THEN m.at ELSE c.at) \in Nat
  BY <1>1 DEF CPUSnapshots, MemorySnapshots
<1>5. (m # None /\ m.pressure) \in BOOLEAN
  OBVIOUS
<1>6. r \in Rows
  BY <1>2, <1>3, <1>4, <1>5 DEF HostRow, Rows
<1> QED
  BY <1>6 DEF c, m

NoStatus == [cpu |-> "failed", memory |-> "failed"]

LEMMA HostTypesNext == TypeOK /\ BaselineInv /\ EvidenceInv /\ [Next]_vars => TypeOK'
<1> SUFFICES ASSUME TypeOK, BaselineInv, EvidenceInv, [Next]_vars PROVE TypeOK'
  OBVIOUS
<1> USE DEF TypeOK, kernel, IsReading
<1>z. Zero \in Counter /\ NoStatus \in [{"cpu", "memory"} -> {"failed", "partial", "succeeded"}]
  BY DEF Zero, Counter, NoStatus
<1>1. CASE \E did \in [online -> {"busy", "idle"}] : Elapse(did)
  <2>1. PICK did \in [online -> {"busy", "idle"}] : Elapse(did)
    BY <1>1
  <2>2. \A c \in online : /\ Advance(counter[c], did[c]) \in Counter
                          /\ Advance(work[c], did[c]) \in Counter
    BY PlusLaws
  <2>3. counter' \in [Cores -> Counter] /\ work' \in [Cores -> Counter]
    BY <2>1, <2>2 DEF Elapse
  <2>4. /\ now \in Nat /\ now' = now + 1
        /\ cpu # None => cpu.at \in Nat /\ cpu.at <= now
        /\ memory # None => memory.at \in Nat /\ memory.at <= now
        /\ phase = "pressure" => draft.at \in Nat /\ draft.at <= now
    BY <2>1 DEF Elapse, CPUSnapshots, MemorySnapshots
  <2>5. /\ cpu # None => cpu.at <= now'
        /\ memory # None => memory.at <= now'
        /\ phase = "pressure" => draft.at <= now'
    BY <2>4
  <2> QED BY <2>1, <2>3, <2>4, <2>5 DEF Elapse
<1>2. CASE \E c \in Cores : Reset(c)
  BY <1>2, <1>z DEF Reset
<1>3. CASE \E S \in SUBSET Cores : ChangeTopology(S)
  BY <1>3 DEF ChangeTopology
<1>4. CASE StartCollection
  BY <1>4 DEF StartCollection
<1>5. CASE Expire
  BY <1>5 DEF Expire
<1>6. CASE SkipCPU
  BY <1>6 DEF SkipCPU, SubsystemFails
<1>7. CASE ReadCounters
  BY <1>7, <1>z DEF ReadCounters
<1>8. CASE ReadCountersFails
  BY <1>8 DEF ReadCountersFails
<1>9. CASE ReadLoadForNothing
  BY <1>9 DEF ReadLoadForNothing, SubsystemFails
<1>10. CASE \E loadRead \in BOOLEAN : PublishCPU(loadRead)
  <2>1. PICK loadRead \in BOOLEAN : PublishCPU(loadRead)
    BY <1>10
  <2>2. IsReading(previous) /\ IsReading(taken)
    BY <2>1 DEF PublishCPU, BaselineInv, Shapes
  <2>3. cpu' \in CPUSnapshots(DOMAIN taken) /\ cpu'.at = now
    BY <2>1, <2>2, CPUSnapshotType DEF PublishCPU
  <2> HIDE DEF IsReading
  <2> QED BY <2>1, <2>2, <2>3 DEF PublishCPU
<1>11. CASE MemInfoFails
  BY <1>11 DEF MemInfoFails, SubsystemFails
<1>12. CASE \E info \in MemInfos : ReadMemInfo(info)
  <2>1. PICK info \in MemInfos : ReadMemInfo(info)
    BY <1>12
  <2>2. draft' \in MemorySnapshots /\ draft'.at = now
    BY <2>1, MemorySnapshotType DEF ReadMemInfo, MemorySnapshot
  <2> QED BY <2>1, <2>2 DEF ReadMemInfo
<1>13. CASE SkipPressure
  BY <1>13 DEF SkipPressure, SubsystemFails
<1>14. CASE \E pressureRead \in BOOLEAN : PublishMemory(pressureRead)
  <2>1. PICK pressureRead \in BOOLEAN : PublishMemory(pressureRead)
    BY <1>14
  <2>2. memory' \in MemorySnapshots /\ memory'.at = draft.at
    BY <2>1 DEF PublishMemory, MemorySnapshots
  <2> QED BY <2>1, <2>2 DEF PublishMemory
<1>15. CASE Settle
  <2>1. row' \in Rows \cup {None}
    <3>1. CASE fresh = {}
      <4>1. \A s \in DOMAIN status : status[s] = "failed"
        BY <3>1 DEF EvidenceInv
      <4> QED
        BY <1>15, <4>1 DEF Settle
    <3>2. CASE fresh # {}
      BY <1>15, <3>2, SettledRow DEF Settle
    <3> QED BY <3>1, <3>2
  <2> QED BY <1>15, <1>z, <2>1 DEF Settle, Return, NoStatus
<1>16. CASE UNCHANGED vars
  BY <1>16 DEF vars
<1> QED BY <1>1, <1>2, <1>3, <1>4, <1>5, <1>6, <1>7, <1>8, <1>9, <1>10, <1>11, <1>12,
           <1>13, <1>14, <1>15, <1>16 DEF Next, Collect

LEMMA EvidenceInit == Init => EvidenceInv
BY DEF Init, EvidenceInv

\* Only the end of a subsystem changes what is fresh.
LEMMA EvidenceNext == TypeOK /\ BaselineInv /\ EvidenceInv /\ [Next]_vars => EvidenceInv'
<1> SUFFICES ASSUME TypeOK, BaselineInv, EvidenceInv, [Next]_vars PROVE EvidenceInv'
  OBVIOUS
<1> USE DEF EvidenceInv
<1>0. status \in [{"cpu", "memory"} -> {"failed", "partial", "succeeded"}]
  BY DEF TypeOK
<1>1. CASE \/ \E did \in [online -> {"busy", "idle"}] : Elapse(did)
           \/ \E c \in Cores : Reset(c)
           \/ \E S \in SUBSET Cores : ChangeTopology(S)
           \/ Expire \/ UNCHANGED vars
  BY <1>1 DEF Elapse, Reset, ChangeTopology, Expire, vars
<1>2. CASE StartCollection \/ ReadCounters \/ ReadCountersFails
  BY <1>2 DEF StartCollection, ReadCounters, ReadCountersFails
<1>3. CASE SkipCPU \/ ReadLoadForNothing
  BY <1>0, <1>3 DEF SkipCPU, ReadLoadForNothing, SubsystemFails
<1>4. CASE \E loadRead \in BOOLEAN : PublishCPU(loadRead)
  <2>1. PICK loadRead \in BOOLEAN : PublishCPU(loadRead)
    BY <1>4
  <2>2. cpu' # None
    <3>1. IsReading(previous) /\ IsReading(taken) /\ now \in Nat
      BY <2>1 DEF PublishCPU, TypeOK, BaselineInv, Shapes
    <3>2. cpu' \in CPUSnapshots(DOMAIN taken) /\ DOMAIN taken \in SUBSET Cores
      BY <2>1, <3>1, CPUSnapshotType DEF PublishCPU, IsReading
    <3> QED BY <3>2, SnapshotAssumption
  <2>3. status'["cpu"] # "failed" /\ status'["memory"] = status["memory"]
    BY <1>0, <2>1 DEF PublishCPU
  <2> QED BY <2>1, <2>2, <2>3 DEF PublishCPU
<1>5. CASE MemInfoFails \/ SkipPressure
  BY <1>0, <1>5 DEF MemInfoFails, SkipPressure, SubsystemFails
<1>6. CASE \E info \in MemInfos : ReadMemInfo(info)
  BY <1>6 DEF ReadMemInfo
<1>7. CASE \E pressureRead \in BOOLEAN : PublishMemory(pressureRead)
  <2>1. PICK pressureRead \in BOOLEAN : PublishMemory(pressureRead)
    BY <1>7
  <2>2. memory' \in MemorySnapshots
    BY <2>1 DEF PublishMemory, TypeOK, MemorySnapshots
  <2>3. status'["memory"] # "failed" /\ status'["cpu"] = status["cpu"]
    BY <1>0, <2>1 DEF PublishMemory
  <2> QED BY <2>1, <2>2, <2>3, SnapshotAssumption DEF PublishMemory
<1>8. CASE Settle
  BY <1>8 DEF Settle, Return
<1> QED BY <1>1, <1>2, <1>3, <1>4, <1>5, <1>6, <1>7, <1>8 DEF Next, Collect

LEMMA HostTypesInit == Init => TypeOK
<1>1. [cpu |-> "failed", memory |-> "failed"] \in
        [{"cpu", "memory"} -> {"failed", "partial", "succeeded"}]
  OBVIOUS
<1>2. Zero \in Counter /\ DOMAIN NoCounters = {}
  BY DEF Zero, Counter, NoCounters
<1>3. Init => online \in SUBSET Cores /\ online # {}
  BY DEF Init
<1>4. Init => /\ counter \in [Cores -> Counter] /\ work \in [Cores -> Counter]
              /\ span \in [Cores -> Counter \cup {None}]
  BY <1>2 DEF Init
<1>5. Init => \A reading \in {taken, previous} \ {None} : IsReading(reading)
  BY <1>2 DEF Init, IsReading
<1>6. Init => now \in Nat /\ changes \in Nat /\ resets \subseteq Cores
  BY DEF Init
<1>7. Init => /\ phase = "idle" /\ live \in BOOLEAN
              /\ cpu = None /\ memory = None /\ row = None
  BY DEF Init
<1>8. Init => status \in [{"cpu", "memory"} -> {"failed", "partial", "succeeded"}]
               /\ fresh \subseteq {"cpu", "memory"}
  BY <1>1 DEF Init
<1> QED BY <1>3, <1>4, <1>5, <1>6, <1>7, <1>8 DEF TypeOK

HostInv == TypeOK /\ BaselineInv /\ EvidenceInv

LEMMA HostInvariant == Spec => []HostInv
<1>1. Init => HostInv
  BY HostTypesInit, BaselineInit, EvidenceInit DEF HostInv
<1>2. HostInv /\ [Next]_vars => HostInv'
  BY HostTypesNext, BaselineNext, EvidenceNext DEF HostInv
<1> QED BY <1>1, <1>2, PTL DEF Spec

\* TypeOK for any number of cores, any contents of /proc/meminfo, and however
\* long the clock runs.
THEOREM HostTypeCorrect == Spec => []TypeOK
<1>1. HostInv => TypeOK
  BY DEF HostInv
<1> QED BY <1>1, HostInvariant, PTL

-----------------------------------------------------------------------------
(***************************************************************************)
(* The overall usage waits, and the evidence is independent.               *)
(***************************************************************************)

LEMMA OverallStep ==
  ASSUME BaselineInv, [Next]_vars, CPUPublished
  PROVE  LET cores == cpu'.cores
             usages == [c \in DOMAIN cores |-> cores[c].value]
         IN /\ IsAvailable(cpu'.overall) <=>
                 /\ DOMAIN cores = DOMAIN previous
                 /\ \A c \in DOMAIN cores : IsAvailable(cores[c])
            /\ IsAvailable(cpu'.overall) =>
                 cpu'.overall.value = [busy |-> Total("busy", usages),
                                       total |-> Total("total", usages)]
<1> DEFINE cores == cpu'.cores
           usages == [c \in DOMAIN cores |-> cores[c].value]
           D == DOMAIN taken
<1>1. PICK loadRead \in BOOLEAN : PublishCPU(loadRead)
  BY WhoPublishes
<1>2. /\ cores = [c \in D |-> CoreMetric(previous, taken, c)]
      /\ cpu'.overall = Overall(previous, taken)
  BY <1>1 DEF PublishCPU, CPUSnapshot
<1>3. /\ IsReading(previous) /\ IsReading(taken) /\ D # {}
  BY <1>1 DEF BaselineInv, Shapes, LastReading, Unpublished, CPUPublished
<1>4. /\ ~IsAvailable(Unavailable("collector_error"))
      /\ ~IsAvailable(Unavailable("not_collected"))
  BY DEF IsAvailable, Unavailable
<1>5. DOMAIN cores = D
  BY <1>2
<1>6. \A c \in D : cores[c] = IF c \in DOMAIN previous
                             THEN UsageMetric(previous[c], taken[c])
                             ELSE Unavailable("not_collected")
  BY <1>2 DEF CoreMetric
<1>7. usages = [c \in DOMAIN cores |-> cores[c].value]
  OBVIOUS
<1> HIDE DEF cores, usages
<1> DEFINE Waits == IsAvailable(cpu'.overall) <=>
                      /\ DOMAIN cores = DOMAIN previous
                      /\ \A c \in DOMAIN cores : IsAvailable(cores[c])
           Added == IsAvailable(cpu'.overall) =>
                      cpu'.overall.value = [busy |-> Total("busy", usages),
                                            total |-> Total("total", usages)]
<1> SUFFICES Waits /\ Added
  BY DEF cores, usages
<1>8. CASE CoreInvalid(previous, taken)
  <2>1. PICK c \in D : c \in DOMAIN previous /\ ~IsAvailable(UsageMetric(previous[c], taken[c]))
    BY <1>8 DEF CoreInvalid
  <2>2. ~IsAvailable(cores[c])
    BY <1>6, <2>1
  <2>3. ~IsAvailable(cpu'.overall)
    BY <1>2, <1>4, <1>8 DEF Overall
  <2>4. Waits
    BY <1>5, <2>1, <2>2, <2>3
  <2>5. Added
    BY <2>3
  <2> QED BY <2>4, <2>5
<1>9. CASE ~CoreInvalid(previous, taken) /\ ~TopologyStable(previous, taken)
  <2>1. ~IsAvailable(cpu'.overall)
    BY <1>2, <1>4, <1>9 DEF Overall
  <2>2. D # DOMAIN previous
    BY <1>9 DEF TopologyStable
  <2>3. Waits
    BY <1>5, <2>1, <2>2
  <2>4. Added
    BY <2>1
  <2> QED BY <2>3, <2>4
<1>10. CASE ~CoreInvalid(previous, taken) /\ TopologyStable(previous, taken)
  <2>1. DOMAIN previous = D
    BY <1>10 DEF TopologyStable
  <2>2. \A c \in D : IsAvailable(UsageMetric(previous[c], taken[c]))
    BY <1>10, <2>1 DEF CoreInvalid
  <2>3. \A c \in D : cores[c] = UsageMetric(previous[c], taken[c])
    BY <1>6, <2>1
  <2>4. usages = [c \in D |-> UsageMetric(previous[c], taken[c]).value]
    BY <1>5, <1>7, <2>3
  <2>5. cpu'.overall = UsageMetric(Aggregate(previous), Aggregate(taken))
    BY <1>2, <1>10 DEF Overall
  <2>6. /\ IsAvailable(cpu'.overall)
        /\ cpu'.overall.value = [busy |-> Total("busy", usages),
                                 total |-> Total("total", usages)]
    BY <1>3, <2>1, <2>2, <2>4, <2>5, UsagesAddUp
  <2>7. Waits
    BY <1>5, <2>1, <2>2, <2>3, <2>6
  <2>8. Added
    BY <2>6
  <2> QED BY <2>7, <2>8
<1> QED BY <1>8, <1>9, <1>10

\* For any number of cores, the overall usage is there exactly if every core of
\* two readings with the same cores has one, and is the sum of theirs.
THEOREM OverallIsTogether == Spec => OverallWaits
<1>1. BaselineInv /\ [Next]_vars =>
        [CPUPublished =>
           LET cores == cpu'.cores
               usages == [c \in DOMAIN cores |-> cores[c].value]
           IN /\ IsAvailable(cpu'.overall) <=>
                   /\ DOMAIN cores = DOMAIN previous
                   /\ \A c \in DOMAIN cores : IsAvailable(cores[c])
              /\ IsAvailable(cpu'.overall) =>
                   cpu'.overall.value = [busy |-> Total("busy", usages),
                                         total |-> Total("total", usages)]]_vars
  BY OverallStep
<1>2. HostInv => BaselineInv
  BY DEF HostInv
<1> QED BY <1>1, <1>2, HostInvariant, PTL DEF Spec, OverallWaits

LEMMA SettleStep ==
  ASSUME HostInv, [Next]_vars, Settled
  PROVE  /\ row' # None <=> live /\ fresh # {}
         /\ row' # None =>
              /\ row'.overall = IF "cpu" \in fresh THEN cpu.overall.value ELSE None
              /\ row'.used = IF "memory" \in fresh THEN memory.used.value ELSE None
              /\ row'.pressure => "memory" \in fresh /\ memory.pressure
              /\ \E s \in fresh : row'.at = IF s = "cpu" THEN cpu.at ELSE memory.at
<1> DEFINE c == Composed("cpu", cpu)
           m == Composed("memory", memory)
<1>0. TypeOK /\ EvidenceInv
  BY DEF HostInv
<1>1. Settle
  BY DEF Settled, Next, Collect, vars, kernel, Elapse, Reset, ChangeTopology,
         StartCollection, Expire, SkipCPU, ReadCounters, ReadCountersFails,
         ReadLoadForNothing, PublishCPU, MemInfoFails, ReadMemInfo, SkipPressure,
         PublishMemory, SubsystemFails
<1>2. (\A s \in DOMAIN status : status[s] = "failed") <=> fresh = {}
  <2>1. DOMAIN status = {"cpu", "memory"} /\ fresh \subseteq {"cpu", "memory"}
    BY <1>0 DEF TypeOK
  <2> QED BY <1>0, <2>1 DEF EvidenceInv
<1>3. row' = IF ~live \/ fresh = {} THEN None ELSE HostRow(c, m)
  BY <1>1, <1>2 DEF Settle
<1>4. CASE ~live \/ fresh = {}
  BY <1>3, <1>4
<1>5. CASE live /\ fresh # {}
  <2>1. row' = HostRow(c, m) /\ row' # None
    BY <1>0, <1>3, <1>5, SettledRow, SnapshotAssumption
  <2>2. /\ c = IF "cpu" \in fresh THEN cpu ELSE None
        /\ m = IF "memory" \in fresh THEN memory ELSE None
        /\ "cpu" \in fresh => cpu # None
        /\ "memory" \in fresh => memory # None
        /\ fresh \subseteq {"cpu", "memory"}
    BY <1>0, ComposedIsFresh DEF EvidenceInv, TypeOK
  <2> HIDE DEF c, m
  <2>3. row'.overall = IF "cpu" \in fresh THEN cpu.overall.value ELSE None
    BY <2>1, <2>2 DEF HostRow, ValueIn
  <2>4. row'.used = IF "memory" \in fresh THEN memory.used.value ELSE None
    BY <2>1, <2>2 DEF HostRow, ValueIn
  <2>5. row'.pressure => "memory" \in fresh /\ memory.pressure
    BY <2>1, <2>2 DEF HostRow
  <2>6. \E s \in fresh : row'.at = IF s = "cpu" THEN cpu.at ELSE memory.at
    BY <1>5, <2>1, <2>2 DEF HostRow
  <2> QED BY <1>5, <2>1, <2>3, <2>4, <2>5, <2>6
<1> QED BY <1>4, <1>5

\* Whatever fails, and in whatever order, a row holds the evidence of the
\* subsystems that were collected, and nothing of the others.
THEOREM EvidenceStaysIndependent == Spec => EvidenceIndependent
<1>1. HostInv /\ [Next]_vars =>
        [Settled =>
           /\ row' # None <=> live /\ fresh # {}
           /\ row' # None =>
                /\ row'.overall = IF "cpu" \in fresh THEN cpu.overall.value ELSE None
                /\ row'.used = IF "memory" \in fresh THEN memory.used.value ELSE None
                /\ row'.pressure => "memory" \in fresh /\ memory.pressure
                /\ \E s \in fresh : row'.at = IF s = "cpu" THEN cpu.at ELSE memory.at]_vars
  BY SettleStep
<1> QED BY <1>1, HostInvariant, PTL DEF Spec, EvidenceIndependent
=============================================================================
