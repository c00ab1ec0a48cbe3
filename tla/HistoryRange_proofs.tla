------------------------- MODULE HistoryRange_proofs -------------------------
(****************************************************************************)
(* Proofs about HistoryRange, whatever the range, the limits and the length *)
(* of a minute: the points of a chart cover its range, follow each other    *)
(* and are few enough; every selected row is counted in the one point where *)
(* it lies; a gap is a gap in what was recorded; and a series is thrown     *)
(* away for a rounded average only.                                         *)
(****************************************************************************)
EXTENDS HistoryRange, FiniteSetTheorems, TLAPS

-----------------------------------------------------------------------------
(* Division.                                                               *)

\* n \div d and n % d, spelled out: what the lemmas below need of division.
LEMMA Division ==
  ASSUME NEW n \in Nat, NEW d \in Nat \ {0}
  PROVE  /\ n \div d \in Nat /\ n % d \in 0 .. d - 1
         /\ n = (n \div d) * d + (n % d)
<1>1. n \div d \in Nat
  BY SMT
<1>2. n % d \in 0 .. d - 1
  BY SMT
<1>3. n = (n \div d) * d + (n % d)
  BY SMT
<1> QED
  BY <1>1, <1>2, <1>3

\* DivideUp(n, d) is the least number of steps of d that reach n.
LEMMA DivideUpBounds ==
  ASSUME NEW n \in Nat \ {0}, NEW d \in Nat \ {0}
  PROVE  /\ DivideUp(n, d) \in Nat \ {0}
         /\ n <= DivideUp(n, d) * d
         /\ (DivideUp(n, d) - 1) * d < n
<1> DEFINE m == n + d - 1
<1> DEFINE q == m \div d
<1>1. m \in Nat /\ m >= d
  OBVIOUS
<1>2. q \in Nat /\ m % d \in 0 .. d - 1 /\ m = q * d + (m % d)
  BY <1>1, Division
<1>3. q * d \in Nat /\ (q - 1) * d = q * d - d
  BY <1>2, SMT
<1>4. n <= q * d /\ (q - 1) * d < n
  BY <1>1, <1>2, <1>3, SMT
<1>5. q # 0
  BY <1>4, SMT
<1> QED
  BY <1>2, <1>4, <1>5 DEF DivideUp

\* Multiplication keeps the order.
LEMMA TimesMonotone ==
  ASSUME NEW a \in Int, NEW b \in Int, NEW d \in Nat, a <= b
  PROVE  a * d <= b * d
BY SMT

\* n \div d is the only number of whole steps of d in n.
LEMMA DivisionIsUnique ==
  ASSUME NEW n \in Nat, NEW d \in Nat \ {0}, NEW q \in Nat,
         q * d <= n, n < q * d + d
  PROVE  n \div d = q
<1> DEFINE m == n \div d
<1>1. m \in Nat /\ n % d \in 0 .. d - 1 /\ n = m * d + (n % d)
  BY Division
<1>2. m * d \in Nat /\ q * d \in Nat
  BY <1>1, SMT
<1>3. m * d <= n /\ n < m * d + d
  BY <1>1, <1>2
<1> HIDE DEF m
<1>4. ASSUME NEW a \in Nat, NEW b \in Nat, a * d <= n, n < b * d + d
      PROVE  a <= b
  <2> SUFFICES ASSUME b + 1 <= a PROVE FALSE
    OBVIOUS
  <2>1. (b + 1) * d = b * d + d
    BY SMT
  <2>2. (b + 1) * d <= a * d
    BY TimesMonotone
  <2>3. a * d \in Nat /\ b * d \in Nat
    BY SMT
  <2> QED
    BY <1>4, <2>1, <2>2, <2>3
<1>5. m <= q /\ q <= m
  BY <1>1, <1>2, <1>3, <1>4
<1> QED
  BY <1>1, <1>5 DEF m

-----------------------------------------------------------------------------
(* The shape of a chart.                                                   *)

GoodRange(r) == r \in Ranges /\ r.start < r.end

\* The point at position k of a range, without what was counted there.
PointFrom(r, k) == r.start + k * BucketDuration(r)
PointTo(r, k) ==
  IF PointFrom(r, k) + BucketDuration(r) > r.end
  THEN r.end ELSE PointFrom(r, k) + BucketDuration(r)

LEMMA BucketIsPositive ==
  ASSUME NEW r, GoodRange(r)
  PROVE  /\ Duration(r) \in Nat \ {0}
         /\ BucketDuration(r) \in Nat \ {0}
<1>1. Duration(r) \in Nat \ {0}
  BY DEF GoodRange, Ranges, Duration
<1>2. /\ Minute \in Nat \ {0} /\ MaxChartPoints \in Nat \ {0}
      /\ RawRangeLimit \in Nat \ {0}
  BY RangeAssumption
<1>3. DivideUp(Duration(r), Minute) \in Nat \ {0}
  BY <1>1, <1>2, DivideUpBounds
<1>4. DivideUp(DivideUp(Duration(r), Minute), MaxChartPoints) \in Nat \ {0}
  BY <1>2, <1>3, DivideUpBounds
<1>5. ASSUME NEW b \in Nat \ {0} PROVE b * Minute \in Nat \ {0}
  BY <1>2, SMT
<1> QED
  BY <1>1, <1>2, <1>4, <1>5 DEF BucketDuration

\* However long the range, the points are not too many: the limit that
\* QueryMetricSeries checks again holds by the choice of the bucket.
LEMMA FewEnoughPoints ==
  ASSUME NEW r, GoodRange(r)
  PROVE  PointCount(r) \in 1 .. MaxChartPoints
<1> DEFINE n == Duration(r)
<1> DEFINE b == BucketDuration(r)
<1> DEFINE c == PointCount(r)
<1>1. /\ n \in Nat \ {0} /\ b \in Nat \ {0}
  BY BucketIsPositive
<1>2. /\ Minute \in Nat \ {0} /\ MaxChartPoints \in Nat \ {0}
      /\ RawRangeLimit \in Nat /\ RawRangeLimit <= MaxChartPoints * Minute
  BY RangeAssumption
<1>3. c \in Nat \ {0} /\ (c - 1) * b < n
  BY <1>1, DivideUpBounds DEF PointCount
<1>4. n <= MaxChartPoints * b
  <2>1. CASE n <= RawRangeLimit
    <3>1. b = Minute
      BY <2>1 DEF BucketDuration
    <3>2. MaxChartPoints * Minute \in Nat
      BY <1>2, SMT
    <3> QED
      BY <1>1, <1>2, <2>1, <3>1, <3>2
  <2>2. CASE ~(n <= RawRangeLimit)
    <3> DEFINE m == DivideUp(n, Minute)
    <3> DEFINE k == DivideUp(m, MaxChartPoints)
    <3>1. b = k * Minute
      BY <2>2 DEF BucketDuration
    <3>2. m \in Nat \ {0} /\ n <= m * Minute
      BY <1>1, <1>2, DivideUpBounds
    <3>3. k \in Nat \ {0} /\ m <= k * MaxChartPoints
      BY <3>2, <1>2, DivideUpBounds
    <3>4. k * MaxChartPoints \in Nat
      BY <3>3, <1>2, SMT
    <3>5. m * Minute <= (k * MaxChartPoints) * Minute
      BY <3>2, <3>3, <3>4, <1>2, TimesMonotone
    <3> HIDE DEF m, k, n, b
    <3>6. (k * MaxChartPoints) * Minute = MaxChartPoints * (k * Minute)
      BY <1>2, <3>3, SMT
    <3>7. m * Minute \in Nat /\ (k * MaxChartPoints) * Minute \in Nat
      BY <1>2, <3>2, <3>4, SMT
    <3> QED
      BY <1>1, <3>1, <3>2, <3>5, <3>6, <3>7
  <2> QED
    BY <2>1, <2>2
<1>5. c <= MaxChartPoints
  <2> HIDE DEF n, b, c
  <2>1. SUFFICES ASSUME MaxChartPoints <= c - 1 PROVE FALSE
    BY <1>2, <1>3, SMT
  <2>2. MaxChartPoints * b <= (c - 1) * b
    BY <2>1, <1>1, <1>2, <1>3, TimesMonotone
  <2>3. MaxChartPoints * b \in Nat /\ (c - 1) * b \in Nat
    BY <1>1, <1>2, <1>3, SMT
  <2> QED
    BY <1>1, <1>3, <1>4, <2>2, <2>3
<1> QED
  BY <1>2, <1>3, <1>5

-----------------------------------------------------------------------------
(* The invariants.                                                         *)

\* What the type invariant says of the clock is not enough for the ranges:
\* the clock must also have passed a whole retained range since time 0.
ClockOK == now >= Start

\* An answered series is as SeriesOf makes it.
SeriesShaped ==
  Answered =>
    LET r == answer.series.range
        p == answer.series.points
    IN /\ answer.series.bucket = BucketDuration(r)
       /\ DOMAIN p = 0 .. PointCount(r) - 1
       /\ \A k \in DOMAIN p : p[k].start = PointFrom(r, k) /\ p[k].end = PointTo(r, k)

\* The rows are in order, none is from the future, and only rows whose runs
\* started before the retained range are missing.
RowsOK ==
  /\ InOrder(recorded)
  /\ \A i \in DOMAIN recorded : recorded[i].at <= now
  /\ \A i \in DOMAIN recorded \ stored :
       recorded[i].started < UnixSecond(now - RetentionDuration)

\* The current run started after every row was observed.
RunOK ==
  collecting # None =>
    /\ collecting % Second = 0 /\ collecting <= now
    /\ \A i \in DOMAIN recorded : recorded[i].at <= collecting

RangeInv == TypeOK /\ ClockOK /\ SeriesShaped /\ RowsOK /\ RunOK

\* The second of a time is the last whole second that is not after it.
LEMMA UnixSecondBounds ==
  ASSUME NEW t \in Nat
  PROVE  /\ UnixSecond(t) \in Nat
         /\ UnixSecond(t) <= t /\ t < UnixSecond(t) + Second
         /\ UnixSecond(t) % Second = 0
<1>1. Second \in Nat \ {0}
  BY RangeAssumption
<1>2. /\ t \div Second \in Nat /\ t % Second \in 0 .. Second - 1
      /\ t = (t \div Second) * Second + (t % Second)
  BY <1>1, Division
<1>3. (t \div Second) * Second \in Nat
  BY <1>1, <1>2, SMT
<1>4. ((t \div Second) * Second) % Second = 0
  <2> DEFINE n == (t \div Second) * Second
  <2>1. n \div Second = t \div Second
    BY <1>1, <1>2, <1>3, DivisionIsUnique
  <2>2. n \in Nat
    BY <1>3
  <2> HIDE DEF n
  <2>3. n = (n \div Second) * Second + (n % Second) /\ n % Second \in Nat
    BY <1>1, <2>2, Division
  <2>4. n % Second = 0
    BY <1>3, <2>1, <2>3 DEF n
  <2> QED
    BY <2>4 DEF n
<1> QED
  BY <1>1, <1>2, <1>3, <1>4 DEF UnixSecond

LEMMA LastSecond ==
  ASSUME NEW t \in Nat, NEW s \in Nat, s % Second = 0, s <= t
  PROVE  s <= UnixSecond(t)
<1> DEFINE q == s \div Second
<1> DEFINE k == t \div Second
<1>1. Second \in Nat \ {0}
  BY RangeAssumption
<1>2. q \in Nat /\ s = q * Second
  <2>1. s \div Second \in Nat /\ s = (s \div Second) * Second + (s % Second)
    BY <1>1, Division
  <2> QED
    BY <1>1, <2>1, SMT
<1>3. k \in Nat /\ t < k * Second + Second
  BY <1>1, UnixSecondBounds, Division DEF UnixSecond
<1> HIDE DEF q, k
<1>4. q <= k
  <2> SUFFICES ASSUME k + 1 <= q PROVE FALSE
    BY <1>2, <1>3
  <2>1. (k + 1) * Second = k * Second + Second
    BY <1>1, <1>3, SMT
  <2>2. (k + 1) * Second <= q * Second
    BY <1>1, <1>2, <1>3, TimesMonotone
  <2>3. k * Second \in Nat /\ q * Second \in Nat
    BY <1>1, <1>2, <1>3, SMT
  <2> QED
    BY <1>1, <1>2, <1>3, <2>1, <2>2, <2>3
<1>5. q * Second <= k * Second
  BY <1>1, <1>2, <1>3, <1>4, TimesMonotone
<1> QED
  BY <1>2, <1>5 DEF UnixSecond, k

LEMMA UnixSecondMonotone ==
  ASSUME NEW t \in Nat, NEW u \in Nat, t <= u
  PROVE  UnixSecond(t) <= UnixSecond(u)
BY UnixSecondBounds, LastSecond

\* The minute after the current one begins after now.
LEMMA NextMinute ==
  ASSUME NEW t \in Nat
  PROVE  ThisMinute(t) + Minute \in Nat /\ ThisMinute(t) + Minute > t
<1>1. Minute \in Nat \ {0}
  BY RangeAssumption
<1>2. /\ t \div Minute \in Nat /\ t % Minute \in 0 .. Minute - 1
      /\ t = (t \div Minute) * Minute + (t % Minute)
  BY <1>1, Division
<1>3. (t \div Minute) * Minute \in Nat
  BY <1>1, <1>2, SMT
<1> QED
  BY <1>1, <1>2, <1>3 DEF ThisMinute

LEMMA InitRangeInv == Init => RangeInv
<1> SUFFICES ASSUME Init PROVE RangeInv
  OBVIOUS
<1>1. recorded \in Seq(Row)
  BY RangeAssumption DEF Init
<1>2. now \in Nat
  BY RangeAssumption DEF Init
<1>3. RowsOK
  BY RangeAssumption DEF Init, RowsOK
<1> QED
  BY <1>1, <1>2, <1>3, RangeAssumption
  DEF Init, RangeInv, TypeOK, ClockOK, SeriesShaped, Answered, Ranges, RunOK

\* A row keeps its times as natural numbers.
LEMMA TimesOfRows ==
  ASSUME TypeOK
  PROVE  \A i \in DOMAIN recorded :
           /\ recorded[i] \in Row
           /\ recorded[i].at \in Nat /\ recorded[i].started \in Nat
<1>1. recorded \in Seq(Row)
  BY DEF TypeOK
<1>2. \A i \in DOMAIN recorded : recorded[i] \in Row
  BY <1>1
<1> QED
  BY <1>2 DEF Row

\* The runs before another started before it.
LEMMA OldestFirst ==
  ASSUME TypeOK, RowsOK, NEW i \in DOMAIN recorded, NEW j \in DOMAIN recorded,
         j <= i
  PROVE  recorded[j].started <= recorded[i].started
<1>1. recorded[i].started \in Nat /\ recorded[j].started \in Nat /\ recorded[j].at \in Nat
  BY TimesOfRows
<1>2. i \in Nat /\ j \in Nat
  BY DEF TypeOK
<1>3. CASE j < i
  <2>1. recorded[j].started <= recorded[j].at /\ recorded[j].at <= recorded[i].started
    BY <1>3 DEF RowsOK, InOrder
  <2> QED
    BY <1>1, <2>1
<1>4. CASE j = i
  BY <1>1, <1>4
<1> QED
  BY <1>2, <1>3, <1>4

LEMMA RowsKept ==
  ASSUME RowsOK, RunOK, UNCHANGED <<now, collecting, recorded, stored>>
  PROVE  RowsOK' /\ RunOK'
BY DEF RowsOK, RunOK, InOrder, UnixSecond

LEMMA AskRangeInv ==
  ASSUME RangeInv,
         NEW r, GoodRange(r),
         request' = r, UNCHANGED <<now, collecting, recorded, stored, answer>>
  PROVE  RangeInv'
<1>1. RowsOK' /\ RunOK'
  BY RowsKept DEF RangeInv
<1> QED
  BY <1>1 DEF RangeInv, TypeOK, ClockOK, SeriesShaped, Answered, GoodRange

LEMMA AnswerRangeInv ==
  ASSUME RangeInv, Answer
  PROVE  RangeInv'
<1>1. request \in Ranges /\ request.start < request.end
  BY DEF RangeInv, TypeOK, Answer
<1>2. /\ now' = now /\ recorded' = recorded /\ stored' = stored
      /\ request' = None /\ collecting' = collecting
  BY DEF Answer
<1>5. RowsOK' /\ RunOK'
  BY <1>2, RowsKept DEF RangeInv
<1>3. CASE Answered'
  <2>1. answer' = [status |-> "ok", series |-> SeriesOf(request)]
    <3>1. \/ answer' = [status |-> "limited"]
          \/ answer' = [status |-> "invalid"]
          \/ answer' = [status |-> "ok", series |-> SeriesOf(request)]
      BY DEF Answer
    <3>2. answer'.status = "ok"
      BY <1>3 DEF Answered
    <3> QED
      BY <3>1, <3>2
  <2> DEFINE p == SeriesOf(request).points
  <2>2. /\ answer'.series.range = request
        /\ answer'.series.bucket = BucketDuration(request)
        /\ answer'.series.points = p
    BY <2>1 DEF SeriesOf
  <2>3. p = [k \in 0 .. PointCount(request) - 1 |-> PointAt(request, k)]
    BY DEF SeriesOf
  <2>4. ASSUME NEW k \in DOMAIN p
        PROVE  /\ p[k].start = PointFrom(request, k)
               /\ p[k].end = PointTo(request, k)
    BY <2>3 DEF PointAt, PointFrom, PointTo
  <2> HIDE DEF p
  <2>5. SeriesShaped'
    BY <2>2, <2>3, <2>4 DEF SeriesShaped
  <2> QED
    BY <1>1, <1>2, <1>5, <2>2, <2>5 DEF RangeInv, TypeOK, ClockOK
<1>4. CASE ~Answered'
  BY <1>2, <1>4, <1>5 DEF RangeInv, TypeOK, ClockOK, SeriesShaped
<1> QED
  BY <1>3, <1>4

LEMMA NextRangeInv == RangeInv /\ [Next]_vars => RangeInv'
<1> SUFFICES ASSUME RangeInv, [Next]_vars PROVE RangeInv'
  OBVIOUS
<1>0. /\ now \in Nat /\ now >= RetentionDuration /\ RetentionDuration \in Nat
      /\ Start \in Nat
  BY RangeAssumption DEF RangeInv, TypeOK, ClockOK
<1>1. CASE Tick
  <2>1. UnixSecond(now - RetentionDuration) <= UnixSecond(now' - RetentionDuration)
    BY <1>0, <1>1, UnixSecondMonotone DEF Tick
  <2>2. /\ UnixSecond(now - RetentionDuration) \in Nat
        /\ UnixSecond(now' - RetentionDuration) \in Nat
    BY <1>0, <1>1, UnixSecondBounds DEF Tick
  <2>3. \A i \in DOMAIN recorded :
          recorded[i].at \in Nat /\ recorded[i].started \in Nat
    BY TimesOfRows DEF RangeInv
  <2>4. RowsOK'
    BY <1>0, <1>1, <2>1, <2>2, <2>3 DEF Tick, RangeInv, RowsOK, InOrder
  <2>5. RunOK'
    BY <1>0, <1>1, <2>3 DEF Tick, RangeInv, TypeOK, RunOK
  <2> QED
    BY <1>0, <1>1, <2>4, <2>5 DEF Tick, RangeInv, TypeOK, ClockOK, SeriesShaped, Answered
<1>10. CASE StartRun
  <2>1. RowsOK'
    BY <1>10 DEF StartRun, RangeInv, RowsOK, InOrder, UnixSecond
  <2>2. /\ UnixSecond(now) \in Nat /\ UnixSecond(now) % Second = 0
        /\ UnixSecond(now) <= now
    BY <1>0, UnixSecondBounds
  <2>3. ASSUME NEW i \in DOMAIN recorded
        PROVE  recorded[i].at <= UnixSecond(now)
    <3>1. /\ recorded[i].at \in Nat /\ recorded[i].at % Second = 0
          /\ recorded[i].at <= now
      BY TimesOfRows DEF RangeInv, RowsOK, InOrder
    <3> QED
      BY <1>0, <3>1, LastSecond
  <2>4. RunOK'
    BY <1>10, <2>2, <2>3 DEF StartRun, RunOK
  <2> QED
    BY <1>10, <2>1, <2>2, <2>4
    DEF StartRun, RangeInv, TypeOK, ClockOK, SeriesShaped, Answered
<1>11. CASE RecordNothing
  <2>1. RowsOK'
    BY <1>11 DEF RecordNothing, RangeInv, RowsOK, InOrder, UnixSecond
  <2> QED
    BY <1>11, <2>1
    DEF RecordNothing, RangeInv, TypeOK, ClockOK, SeriesShaped, Answered, RunOK
<1>2. ASSUME NEW t \in 0 .. now, NEW v \in Readings \cup {None}, RecordSample(t, v)
      PROVE  RangeInv'
  <2> DEFINE row == [started |-> collecting, at |-> t, value |-> v]
  <2>1. /\ collecting # None /\ collecting \in Nat
        /\ collecting <= t /\ t <= now /\ t = UnixSecond(t)
    BY <1>0, <1>2 DEF RecordSample, InRun, RangeInv, TypeOK
  <2>2. recorded \in Seq(Row) /\ stored \subseteq DOMAIN recorded
    BY DEF RangeInv, TypeOK
  <2>3. recorded' = Append(recorded, row)
    BY <1>2 DEF RecordSample
  <2>6. /\ row \in Row /\ row.at \in Nat
        /\ row.started % Second = 0 /\ row.at % Second = 0
        /\ row.started <= row.at /\ row.at <= now
        /\ \A i \in DOMAIN recorded : recorded[i].at <= row.started
    <3>1. t \in Nat /\ UnixSecond(t) % Second = 0
      BY <1>0, UnixSecondBounds
    <3>2. collecting % Second = 0 /\ \A i \in DOMAIN recorded : recorded[i].at <= collecting
      BY <2>1 DEF RangeInv, RunOK
    <3> QED
      BY <2>1, <3>1, <3>2 DEF Row
  <2> HIDE DEF row
  <2>4. /\ recorded' \in Seq(Row)
        /\ DOMAIN recorded' = 1 .. Len(recorded) + 1
        /\ DOMAIN recorded = 1 .. Len(recorded) /\ Len(recorded) \in Nat
        /\ recorded'[Len(recorded) + 1] = row
        /\ \A i \in DOMAIN recorded : recorded'[i] = recorded[i]
    BY <2>2, <2>3, <2>6
  <2>5. stored' \subseteq DOMAIN recorded' /\ stored' = stored \cup {Len(recorded) + 1}
    BY <1>2, <2>2, <2>4 DEF RecordSample
  <2>7. \A i \in DOMAIN recorded' : i \in DOMAIN recorded \/ i = Len(recorded) + 1
    BY <2>4
  <2>8. RowsOK'
    <3>1. now' = now /\ RowsOK
      BY <1>2 DEF RecordSample, RangeInv
    <3>2. \A i \in DOMAIN recorded' :
            /\ recorded'[i].started % Second = 0 /\ recorded'[i].at % Second = 0
            /\ recorded'[i].started <= recorded'[i].at /\ recorded'[i].at <= now'
      BY <2>4, <2>6, <2>7, <3>1 DEF RowsOK, InOrder
    <3>3. ASSUME NEW i \in DOMAIN recorded', NEW j \in DOMAIN recorded', i < j
          PROVE  recorded'[i].at <= recorded'[j].started
      <4>1. i \in DOMAIN recorded
        BY <2>4, <3>3
      <4>2. CASE j \in DOMAIN recorded
        BY <2>4, <3>1, <3>3, <4>1, <4>2 DEF RowsOK, InOrder
      <4>3. CASE j = Len(recorded) + 1
        BY <2>4, <2>6, <4>1, <4>3
      <4> QED
        BY <2>7, <4>2, <4>3
    <3>4. \A i \in DOMAIN recorded' \ stored' :
            recorded'[i].started < UnixSecond(now' - RetentionDuration)
      BY <2>4, <2>5, <2>7, <3>1 DEF RowsOK
    <3> QED
      BY <3>2, <3>3, <3>4 DEF RowsOK, InOrder
  <2>9. RunOK' /\ collecting' = None
    BY <1>2 DEF RecordSample, RunOK
  <2> QED
    BY <1>2, <2>4, <2>5, <2>8, <2>9
    DEF RecordSample, RangeInv, TypeOK, ClockOK, SeriesShaped, Answered
<1>3. ASSUME NEW i \in stored, CleanupExpired(i)
      PROVE  RangeInv'
  <2>1. /\ recorded' = recorded /\ now' = now /\ stored' = stored \ 1 .. i
        /\ recorded[i].started < UnixSecond(now - RetentionDuration)
    BY <1>3 DEF CleanupExpired
  <2>2. i \in DOMAIN recorded /\ DOMAIN recorded \subseteq Nat
    BY DEF RangeInv, TypeOK
  <2>3. UnixSecond(now - RetentionDuration) \in Nat
    BY <1>0, UnixSecondBounds
  <2>4. \A j \in DOMAIN recorded : recorded[j].started \in Nat
    BY TimesOfRows DEF RangeInv
  <2>5. ASSUME NEW j \in DOMAIN recorded \ stored'
        PROVE  recorded[j].started < UnixSecond(now - RetentionDuration)
    <3>1. CASE j \notin stored
      BY <3>1 DEF RangeInv, RowsOK
    <3>2. CASE j \in 1 .. i
      <4>1. recorded[j].started <= recorded[i].started
        BY <2>2, <3>2, OldestFirst DEF RangeInv
      <4> QED
        BY <2>1, <2>2, <2>3, <2>4, <4>1
    <3> QED
      BY <2>1, <2>5, <3>1, <3>2
  <2>6. RowsOK'
    BY <2>1, <2>5 DEF RangeInv, RowsOK, InOrder, UnixSecond
  <2>7. RunOK'
    BY <1>3 DEF CleanupExpired, RangeInv, RunOK
  <2> QED
    BY <1>3, <2>6, <2>7 DEF CleanupExpired, RangeInv, TypeOK, ClockOK, SeriesShaped, Answered
<1>4. ASSUME NEW s \in Selections, Refuse(s)
      PROVE  RangeInv'
  <2>1. RowsOK' /\ RunOK'
    BY <1>4, RowsKept DEF Refuse, RangeInv
  <2> QED
    BY <1>4, <2>1 DEF Refuse, RangeInv, TypeOK, ClockOK, SeriesShaped, Answered
<1>5. ASSUME NEW s \in Selections, AskCustom(s)
      PROVE  RangeInv'
  <2>1. s.start \in Int /\ s.end \in Int /\ s.start < s.end
    BY <1>0 DEF Selections, Boundaries
  <2>2. GoodRange(CustomRange(s))
    BY <1>0, <1>5, <2>1 DEF AskCustom, Refused, GoodRange, Ranges, CustomRange
  <2> QED
    BY <1>5, <2>2, AskRangeInv DEF AskCustom
<1>6. ASSUME NEW d \in PresetDurations, AskPreset(d)
      PROVE  RangeInv'
  <2>1. d \in 1 .. RetentionDuration
    BY RangeAssumption
  <2>2. GoodRange(PresetRange(d))
    BY <1>0, <2>1, NextMinute DEF GoodRange, Ranges, PresetRange
  <2> QED
    BY <1>6, <2>2, AskRangeInv DEF AskPreset
<1>7. CASE Answer
  BY <1>7, AnswerRangeInv
<1>8. CASE Done
  <2>1. RowsOK' /\ RunOK'
    BY <1>8, RowsKept DEF Done, RangeInv
  <2> QED
    BY <1>8, <2>1 DEF Done, RangeInv, TypeOK, ClockOK, SeriesShaped, Answered
<1>9. CASE UNCHANGED vars
  <2>1. RowsOK' /\ RunOK'
    BY <1>9, RowsKept DEF vars, RangeInv
  <2> QED
    BY <1>9, <2>1 DEF vars, RangeInv, TypeOK, ClockOK, SeriesShaped, Answered
<1> QED
  BY <1>1, <1>2, <1>3, <1>4, <1>5, <1>6, <1>7, <1>8, <1>9,
     <1>10, <1>11 DEF Next

\* The clock, the rows and the ranges keep their types.
THEOREM RangeTypeOK == Spec => []TypeOK
<1>1. Init => RangeInv
  BY InitRangeInv
<1>2. RangeInv /\ [Next]_vars => RangeInv'
  BY NextRangeInv
<1>3. RangeInv => TypeOK
  BY DEF RangeInv
<1> QED
  BY <1>1, <1>2, <1>3, PTL DEF Spec

\* Positions follow each other, and the last one reaches the end of the range.
LEMMA PointsCover ==
  ASSUME NEW r, GoodRange(r)
  PROVE  LET last == PointCount(r) - 1
         IN /\ PointFrom(r, 0) = r.start /\ PointTo(r, last) = r.end
            /\ \A k \in 0 .. last : PointFrom(r, k) < PointTo(r, k)
            /\ \A k \in 1 .. last : PointFrom(r, k) = PointTo(r, k - 1)
            /\ \A k \in 0 .. last - 1 :
                 PointTo(r, k) - PointFrom(r, k) = BucketDuration(r)
<1> DEFINE n == Duration(r)
<1> DEFINE b == BucketDuration(r)
<1> DEFINE last == PointCount(r) - 1
<1>1. n \in Nat \ {0} /\ b \in Nat \ {0}
  BY BucketIsPositive
<1>2. r.start \in Nat /\ r.end = r.start + n
  BY DEF GoodRange, Ranges, Duration
<1>3. last \in Nat /\ n <= (last + 1) * b /\ last * b < n
  <2> DEFINE c == PointCount(r)
  <2>1. c \in Nat \ {0} /\ n <= c * b /\ (c - 1) * b < n
    BY <1>1, DivideUpBounds DEF PointCount
  <2> HIDE DEF n, b, c
  <2>2. c - 1 \in Nat /\ (c - 1) + 1 = c
    BY <2>1
  <2> QED
    BY <2>1, <2>2 DEF c
<1>4. \A k \in Nat : PointFrom(r, k) = r.start + k * b
  BY DEF PointFrom
<1>5. \A k \in Nat :
        PointTo(r, k) = IF r.start + k * b + b > r.end
                        THEN r.end ELSE r.start + k * b + b
  BY DEF PointTo, PointFrom
<1> HIDE DEF n, b, last
<1>6. \A k \in Nat : k * b \in Nat /\ (k + 1) * b = k * b + b
  BY <1>1, SMT
<1>7. \A k \in 0 .. last : k * b < n
  <2>1. SUFFICES ASSUME NEW k \in 0 .. last PROVE k * b < n
    OBVIOUS
  <2>2. k * b <= last * b
    BY <1>1, <1>3, TimesMonotone
  <2> QED
    BY <1>1, <1>3, <1>6, <2>2
<1>8. \A k \in 0 .. last - 1 : r.start + k * b + b < r.end
  <2>1. SUFFICES ASSUME NEW k \in 0 .. last - 1
                 PROVE  r.start + k * b + b < r.end
    OBVIOUS
  <2>2. (k + 1) * b < n
    BY <1>3, <1>7
  <2> QED
    BY <1>1, <1>2, <1>3, <1>6, <2>2
<1>9. PointFrom(r, 0) = r.start
  BY <1>1, <1>2, <1>4, SMT
<1>10. PointTo(r, last) = r.end
  <2>1. last * b \in Nat /\ n <= last * b + b
    BY <1>3, <1>6
  <2>2. ~(r.start + last * b + b > r.end) => r.start + last * b + b = r.end
    BY <1>1, <1>2, <2>1
  <2> QED
    BY <1>3, <1>5, <2>2
<1>11. \A k \in 0 .. last : PointFrom(r, k) < PointTo(r, k)
  BY <1>1, <1>2, <1>3, <1>4, <1>5, <1>6, <1>7
<1>12. \A k \in 1 .. last : PointFrom(r, k) = PointTo(r, k - 1)
  <2>1. SUFFICES ASSUME NEW k \in 1 .. last
                 PROVE  PointFrom(r, k) = PointTo(r, k - 1)
    OBVIOUS
  <2>2. k - 1 \in 0 .. last - 1 /\ k - 1 \in Nat /\ k \in Nat
    BY <1>3
  <2>3. r.start + (k - 1) * b + b < r.end
    BY <1>8, <2>2
  <2>4. k * b = (k - 1) * b + b
    BY <1>6, <2>2
  <2>5. (k - 1) * b \in Nat
    BY <1>6, <2>2
  <2>6. PointTo(r, k - 1) = r.start + (k - 1) * b + b
    BY <1>1, <1>2, <1>5, <2>2, <2>3, <2>5
  <2> QED
    BY <1>1, <1>2, <1>4, <2>2, <2>4, <2>5, <2>6
<1>13. \A k \in 0 .. last - 1 : PointTo(r, k) - PointFrom(r, k) = b
  BY <1>1, <1>2, <1>3, <1>4, <1>5, <1>6, <1>8
<1> QED
  BY <1>9, <1>10, <1>11, <1>12, <1>13 DEF last, b

\* A bucket a minute smaller would make too many points of a long range.
LEMMA BucketIsSmallest ==
  ASSUME NEW r, GoodRange(r), Duration(r) > RawRangeLimit
  PROVE  MaxChartPoints * (BucketDuration(r) - Minute) < Duration(r)
<1> DEFINE n == Duration(r)
<1> DEFINE m == DivideUp(n, Minute)
<1> DEFINE k == DivideUp(m, MaxChartPoints)
<1>1. Minute \in Nat \ {0} /\ MaxChartPoints \in Nat \ {0} /\ RawRangeLimit \in Nat
  BY RangeAssumption
<1>2. n \in Nat \ {0}
  BY BucketIsPositive
<1>3. BucketDuration(r) = k * Minute
  BY <1>1, <1>2 DEF BucketDuration
<1>4. m \in Nat \ {0} /\ (m - 1) * Minute < n
  BY <1>1, <1>2, DivideUpBounds
<1>5. k \in Nat \ {0} /\ (k - 1) * MaxChartPoints < m
  BY <1>1, <1>4, DivideUpBounds
<1> HIDE DEF n, m, k
<1> DEFINE j == (k - 1) * MaxChartPoints
<1>6. j \in Nat
  BY <1>1, <1>5, SMT
<1>7. MaxChartPoints * (k * Minute - Minute) = j * Minute
  BY <1>1, <1>5, SMT
<1> HIDE DEF j
<1>8. j <= m - 1
  BY <1>4, <1>5, <1>6 DEF j
<1>9. j * Minute <= (m - 1) * Minute
  BY <1>1, <1>4, <1>6, <1>8, TimesMonotone
<1>10. j * Minute \in Nat /\ (m - 1) * Minute \in Nat
  BY <1>1, <1>4, <1>6, SMT
<1>11. MaxChartPoints * (BucketDuration(r) - Minute) < n
  BY <1>2, <1>3, <1>4, <1>7, <1>9, <1>10
<1> QED
  BY <1>11 DEF n

LEMMA RangeInvChartFits == RangeInv => ChartFits
<1> SUFFICES ASSUME RangeInv, Answered PROVE ChartFits
  BY DEF ChartFits
<1> DEFINE r == answer.series.range
<1> DEFINE p == answer.series.points
<1> DEFINE b == answer.series.bucket
<1> DEFINE last == PointCount(r) - 1
<1>1. GoodRange(r)
  BY DEF RangeInv, TypeOK, GoodRange
<1>2. /\ b = BucketDuration(r) /\ DOMAIN p = 0 .. last
      /\ \A k \in 0 .. last :
           p[k].start = PointFrom(r, k) /\ p[k].end = PointTo(r, k)
  BY DEF RangeInv, SeriesShaped
<1>3. last \in 0 .. MaxChartPoints - 1
  BY <1>1, FewEnoughPoints, RangeAssumption
<1>4. /\ PointFrom(r, 0) = r.start /\ PointTo(r, last) = r.end
      /\ \A k \in 0 .. last : PointFrom(r, k) < PointTo(r, k)
      /\ \A k \in 1 .. last : PointFrom(r, k) = PointTo(r, k - 1)
      /\ \A k \in 0 .. last - 1 :
           PointTo(r, k) - PointFrom(r, k) = BucketDuration(r)
  BY <1>1, PointsCover
<1>5. Duration(r) > RawRangeLimit => MaxChartPoints * (b - Minute) < Duration(r)
  BY <1>1, <1>2, BucketIsSmallest
<1> HIDE DEF r, p, b, last
<1>6. /\ p[0].start = r.start /\ p[last].end = r.end
      /\ \A k \in 0 .. last : p[k].start < p[k].end
      /\ \A k \in 1 .. last : p[k].start = p[k-1].end
      /\ \A k \in 0 .. last - 1 : p[k].end - p[k].start = b
  <2>1. 0 \in 0 .. last /\ last \in 0 .. last
    BY <1>3, RangeAssumption
  <2>2. \A k \in 1 .. last : k \in 0 .. last /\ k - 1 \in 0 .. last
    BY <1>3
  <2>3. \A k \in 0 .. last - 1 : k \in 0 .. last
    BY <1>3
  <2> QED
    BY <1>2, <1>4, <2>1, <2>2, <2>3
<1> QED
  BY <1>2, <1>3, <1>5, <1>6 DEF ChartFits, r, p, b, last

\* Whatever the limits and the range, a chart covers its range with few
\* enough points and with the smallest bucket that does.
THEOREM RangeChartFits == Spec => []ChartFits
<1>1. Init => RangeInv
  BY InitRangeInv
<1>2. RangeInv /\ [Next]_vars => RangeInv'
  BY NextRangeInv
<1>3. RangeInv => ChartFits
  BY RangeInvChartFits
<1> QED
  BY <1>1, <1>2, <1>3, PTL DEF Spec

-----------------------------------------------------------------------------
(* The rows of a point.                                                    *)

\* A point holds a minute at least, unless the range ends, and a second.
LEMMA BucketHoldsMinute ==
  ASSUME NEW r, GoodRange(r)
  PROVE  /\ Second \in Nat \ {0} /\ Second <= Minute
         /\ Minute <= BucketDuration(r)
<1>1. /\ Second \in Nat \ {0} /\ Minute \in Nat \ {0} /\ Minute % Second = 0
      /\ MaxChartPoints \in Nat \ {0} /\ RawRangeLimit \in Nat
  BY RangeAssumption
<1>2. Second <= Minute
  <2>1. Minute \in Nat /\ Minute % Second = 0
    BY <1>1
  <2>2. Minute < Second => Minute % Second = Minute
    BY <1>1, SMT
  <2> QED
    BY <1>1, <2>1, <2>2
<1>3. Duration(r) \in Nat \ {0}
  BY BucketIsPositive
<1> DEFINE k == DivideUp(DivideUp(Duration(r), Minute), MaxChartPoints)
<1>4. k \in Nat \ {0}
  BY <1>1, <1>3, DivideUpBounds
<1>5. BucketDuration(r) = Minute \/ BucketDuration(r) = k * Minute
  BY DEF BucketDuration
<1> HIDE DEF k
<1>6. 1 * Minute <= k * Minute
  BY <1>1, <1>4, TimesMonotone
<1>7. k * Minute \in Nat /\ 1 * Minute = Minute
  BY <1>1, <1>4, SMT
<1> QED
  BY <1>1, <1>2, <1>5, <1>6, <1>7

\* The position of a time that is selected is one of the chart, and the time
\* is in the interval of that position: exactly there if the range starts
\* with a second, and less than a second before it otherwise.
LEMMA PositionIsThere ==
  ASSUME NEW r, GoodRange(r), NEW a \in Nat,
         UnixSecond(r.start) <= a, a < UnixSecond(r.end)
  PROVE  LET k == Quotient(a - r.start, BucketDuration(r))
         IN /\ k \in 0 .. PointCount(r) - 1
            /\ PointFrom(r, k) - Second < a /\ a < PointTo(r, k)
            /\ r.start = UnixSecond(r.start) => PointFrom(r, k) <= a
<1> DEFINE b == BucketDuration(r)
<1> DEFINE n == Duration(r)
<1> DEFINE c == PointCount(r)
<1>1. n \in Nat \ {0} /\ b \in Nat \ {0}
  BY BucketIsPositive
<1>2. r.start \in Nat /\ r.end \in Nat /\ r.end = r.start + n
  BY DEF GoodRange, Ranges, Duration
<1>3. Second \in Nat \ {0} /\ Second <= b
  BY <1>1, BucketHoldsMinute, RangeAssumption
<1>4. c \in Nat \ {0} /\ n <= c * b
  BY <1>1, DivideUpBounds DEF PointCount
<1>5. r.start < a + Second /\ a < r.end
  <2>1. UnixSecond(r.start) \in Nat /\ r.start < UnixSecond(r.start) + Second
    BY <1>2, UnixSecondBounds
  <2>2. UnixSecond(r.end) \in Nat /\ UnixSecond(r.end) <= r.end
    BY <1>2, UnixSecondBounds
  <2> QED
    BY <1>2, <1>3, <2>1, <2>2
<1>6. \A k \in Nat :
        /\ PointFrom(r, k) = r.start + k * b
        /\ PointTo(r, k) = IF r.start + k * b + b > r.end
                           THEN r.end ELSE r.start + k * b + b
  BY DEF PointFrom, PointTo
<1> HIDE DEF b, n, c
<1>7. CASE a < r.start
  <2> DEFINE m == r.start - a
  <2>1. m \in Nat /\ m < b /\ -(a - r.start) = m /\ a - r.start < 0
    BY <1>1, <1>2, <1>3, <1>5, <1>7
  <2>2. m \div b = 0
    <3>1. 0 * b = 0
      BY <1>1, SMT
    <3> HIDE DEF m
    <3> QED
      BY <1>1, <2>1, <3>1, DivisionIsUnique
  <2>3. Quotient(a - r.start, b) = 0
    BY <2>1, <2>2 DEF Quotient
  <2>4. PointFrom(r, 0) = r.start
    BY <1>1, <1>2, <1>6, SMT
  <2>5. PointTo(r, 0) > r.start
    <3>1. 0 * b = 0
      BY <1>1, SMT
    <3> QED
      BY <1>1, <1>2, <1>6, <3>1
  <2>6. PointTo(r, 0) \in Nat
    <3>1. 0 * b = 0
      BY <1>1, SMT
    <3> QED
      BY <1>1, <1>2, <1>6, <3>1
  <2>7. 0 \in 0 .. c - 1
    BY <1>4
  <2>8. r.start # UnixSecond(r.start)
    BY <1>2, <1>7, UnixSecondBounds
  <2> QED
    BY <1>2, <1>3, <1>5, <1>7, <2>3, <2>4, <2>5, <2>6, <2>7, <2>8 DEF b, c
<1>8. CASE a >= r.start
  <2> DEFINE m == a - r.start
  <2> DEFINE k == m \div b
  <2>1. m \in Nat /\ m < n /\ ~(m < 0)
    BY <1>1, <1>2, <1>5, <1>8
  <2> HIDE DEF m
  <2>2. k \in Nat /\ m % b \in 0 .. b - 1 /\ m = k * b + (m % b)
    BY <1>1, <2>1, Division
  <2> HIDE DEF k
  <2>3. k * b \in Nat /\ c * b \in Nat
    BY <1>1, <1>4, <2>2, SMT
  <2>4. k * b <= m /\ m < k * b + b
    BY <1>1, <2>1, <2>2, <2>3
  <2>5. k <= c - 1
    <3> SUFFICES ASSUME c <= k PROVE FALSE
      BY <1>4, <2>2
    <3>1. c * b <= k * b
      BY <1>1, <1>4, <2>2, TimesMonotone
    <3> QED
      BY <1>1, <1>4, <2>1, <2>3, <2>4, <3>1
  <2>6. Quotient(a - r.start, b) = k
    BY <2>1 DEF Quotient, m, k
  <2>7. PointFrom(r, k) <= a /\ a < PointTo(r, k)
    BY <1>1, <1>2, <1>5, <1>6, <2>2, <2>3, <2>4 DEF m
  <2>8. PointFrom(r, k) \in Nat
    BY <1>2, <1>6, <2>2, <2>3
  <2>9. k \in 0 .. c - 1
    BY <1>4, <2>2, <2>5
  <2> QED
    BY <1>3, <2>6, <2>7, <2>8, <2>9 DEF b, c
<1> QED
  BY <1>2, <1>7, <1>8

\* A time within the interval of a position has that position.
LEMMA PositionIsOnly ==
  ASSUME NEW r, GoodRange(r), NEW a \in Nat, NEW k \in Nat,
         PointFrom(r, k) <= a, a < PointTo(r, k)
  PROVE  Quotient(a - r.start, BucketDuration(r)) = k
<1> DEFINE b == BucketDuration(r)
<1> DEFINE m == a - r.start
<1>1. b \in Nat \ {0}
  BY BucketIsPositive
<1>2. r.start \in Nat /\ r.end \in Nat
  BY DEF GoodRange, Ranges
<1>3. /\ PointFrom(r, k) = r.start + k * b
      /\ PointTo(r, k) <= r.start + k * b + b
  <2>1. k * b \in Nat
    BY <1>1, SMT
  <2> HIDE DEF b
  <2>2. PointFrom(r, k) = r.start + k * b
    BY DEF PointFrom, b
  <2>3. PointTo(r, k) = IF r.start + k * b + b > r.end
                        THEN r.end ELSE r.start + k * b + b
    BY DEF PointFrom, PointTo, b
  <2> QED
    BY <1>1, <1>2, <2>1, <2>2, <2>3
<1>4. k * b \in Nat
  BY <1>1, SMT
<1>6. PointTo(r, k) \in Int
  BY <1>1, <1>2, <1>4 DEF PointTo, PointFrom
<1> HIDE DEF b
<1>5. m \in Nat /\ k * b <= m /\ m < k * b + b /\ ~(m < 0)
  BY <1>1, <1>2, <1>3, <1>4, <1>6
<1> HIDE DEF m
<1>7. m \div b = k
  BY <1>1, <1>5, DivisionIsUnique
<1> QED
  BY <1>5, <1>7 DEF Quotient, m, b

\* What a chart counts in a point, and where those rows are.
LEMMA RowsOfPoint ==
  ASSUME TypeOK, NEW r, GoodRange(r), NEW k \in 0 .. PointCount(r) - 1
  PROVE  /\ \A i \in RowsOf(r, k) :
              /\ i \in stored
              /\ PointFrom(r, k) - Second < recorded[i].at
              /\ recorded[i].at < PointTo(r, k)
         /\ WholeSeconds(r) =>
              \A i \in stored :
                i \in RowsOf(r, k) <=> /\ PointFrom(r, k) <= recorded[i].at
                                      /\ recorded[i].at < PointTo(r, k)
<1>1. r.start \in Nat /\ r.end \in Nat
  BY DEF GoodRange, Ranges
<1>2. BucketDuration(r) \in Nat \ {0} /\ k \in Nat
  BY BucketIsPositive, FewEnoughPoints
<1>3. \A i \in stored : recorded[i].at \in Nat
  BY TimesOfRows DEF TypeOK
<1>4. UnixSecond(r.start) \in Nat /\ UnixSecond(r.end) \in Nat
  BY <1>1, UnixSecondBounds
<1>5. ASSUME NEW i \in RowsOf(r, k)
      PROVE  /\ i \in stored
             /\ PointFrom(r, k) - Second < recorded[i].at
             /\ recorded[i].at < PointTo(r, k)
             /\ r.start = UnixSecond(r.start) => PointFrom(r, k) <= recorded[i].at
  <2>1. /\ i \in stored /\ UnixSecond(r.start) <= recorded[i].at
        /\ recorded[i].at < UnixSecond(r.end)
        /\ Quotient(recorded[i].at - r.start, BucketDuration(r)) = k
    BY <1>3, <1>4 DEF RowsOf, Selected, PointOf
  <2> QED
    BY <1>3, <2>1, PositionIsThere
<1>6. ASSUME WholeSeconds(r), NEW i \in stored,
             PointFrom(r, k) <= recorded[i].at, recorded[i].at < PointTo(r, k)
      PROVE  i \in RowsOf(r, k)
  <2>1. k * BucketDuration(r) \in Nat
    BY <1>2, SMT
  <2>2. r.start <= PointFrom(r, k) /\ PointTo(r, k) <= r.end
        /\ PointFrom(r, k) \in Nat /\ PointTo(r, k) \in Nat
    BY <1>1, <1>2, <2>1 DEF PointFrom, PointTo
  <2>3. UnixSecond(r.start) <= recorded[i].at /\ recorded[i].at < UnixSecond(r.end)
    BY <1>1, <1>3, <1>6, <2>2 DEF WholeSeconds
  <2>4. Quotient(recorded[i].at - r.start, BucketDuration(r)) = k
    BY <1>2, <1>3, <1>6, PositionIsOnly
  <2> QED
    BY <1>3, <1>4, <2>3, <2>4 DEF RowsOf, Selected, PointOf
<1> QED
  BY <1>5, <1>6 DEF WholeSeconds

\* No selected row is outside the positions of the chart.
LEMMA NoRowIsSkipped ==
  ASSUME TypeOK, NEW r, GoodRange(r)
  PROVE  Selected(r) = UNION {RowsOf(r, k) : k \in 0 .. PointCount(r) - 1}
<1>1. ASSUME NEW i \in Selected(r)
      PROVE  \E k \in 0 .. PointCount(r) - 1 : i \in RowsOf(r, k)
  <2>1. i \in stored /\ recorded[i].at \in Nat
    BY TimesOfRows DEF TypeOK, Selected
  <2>2. r.start \in Nat /\ r.end \in Nat
    BY DEF GoodRange, Ranges
  <2>3. /\ UnixSecond(r.start) <= recorded[i].at
        /\ recorded[i].at < UnixSecond(r.end)
    BY <2>1, <2>2, UnixSecondBounds DEF Selected
  <2>4. PointOf(r, i) \in 0 .. PointCount(r) - 1
    BY <2>1, <2>3, PositionIsThere DEF PointOf
  <2> QED
    BY <2>4 DEF RowsOf
<1>2. \A k : RowsOf(r, k) \subseteq Selected(r)
  BY DEF RowsOf
<1> QED
  BY <1>1, <1>2

\* The rows, and so every set of them, are finitely many.
LEMMA RowsAreFinite ==
  ASSUME TypeOK, NEW S, S \subseteq stored
  PROVE  IsFiniteSet(S) /\ Cardinality(S) \in Nat
<1>1. IsFiniteSet(DOMAIN recorded)
  BY FS_Interval DEF TypeOK
<1>2. S \in SUBSET DOMAIN recorded
  BY DEF TypeOK
<1> QED
  BY <1>1, <1>2, FS_Subset, FS_CardinalityType

\* An answer other than a refusal is made by Answer.
LEMMA OnlyAnswerAnswers ==
  ASSUME Next, answer' # answer, answer' # None, answer'.status # "refused"
  PROVE  Answer
<1>1. \/ Tick \/ Answer \/ Done \/ StartRun \/ RecordNothing
      \/ \E t \in 0 .. now, v \in Readings \cup {None} : RecordSample(t, v)
      \/ \E i \in stored : CleanupExpired(i)
      \/ \E s \in Selections : Refuse(s) \/ AskCustom(s)
      \/ \E d \in PresetDurations : AskPreset(d)
  BY DEF Next
<1>2. /\ ~Tick /\ ~StartRun /\ ~RecordNothing
      /\ \A x, y : ~RecordSample(x, y)
      /\ \A x : ~CleanupExpired(x) /\ ~AskCustom(x) /\ ~AskPreset(x)
  BY DEF Tick, StartRun, RecordNothing, RecordSample, CleanupExpired, AskCustom,
         AskPreset
<1>3. ~Done
  BY DEF Done
<1>4. ASSUME NEW s, Refuse(s) PROVE FALSE
  <2>1. answer'.status = "refused"
    BY <1>4 DEF Refuse
  <2> QED
    BY <2>1
<1> QED
  BY <1>1, <1>2, <1>3, <1>4

\* Only Answer makes a series, that of the request.
LEMMA AnswersAreSeries ==
  ASSUME TypeOK, Next, answer' # answer, Answered'
  PROVE  /\ request # None
         /\ answer'.series = SeriesOf(request)
<1>1. Answer
  BY OnlyAnswerAnswers DEF Answered
<1>2. \/ answer' = [status |-> "limited"]
      \/ answer' = [status |-> "invalid"]
      \/ answer' = [status |-> "ok", series |-> SeriesOf(request)]
  BY <1>1 DEF Answer
<1>3. answer' = [status |-> "ok", series |-> SeriesOf(request)]
  BY <1>2 DEF Answered
<1> QED
  BY <1>1, <1>3 DEF Answer

\* The parts of a series.
LEMMA PartsOfSeries ==
  ASSUME NEW r
  PROVE  LET s == SeriesOf(r)
         IN /\ s.range = r /\ s.bucket = BucketDuration(r)
            /\ DOMAIN s.points = 0 .. PointCount(r) - 1
            /\ \A k \in 0 .. PointCount(r) - 1 : s.points[k] = PointAt(r, k)
BY DEF SeriesOf

LEMMA PartsOfPoint ==
  ASSUME NEW r, NEW k
  PROVE  LET p == PointAt(r, k)
             observed == RowsOf(r, k)
             available == WithValue(observed)
         IN /\ p.start = PointFrom(r, k) /\ p.end = PointTo(r, k)
            /\ p.observedSamples = Cardinality(observed)
            /\ p.availableSamples = Cardinality(available)
            /\ p.summary = Summary(available)
            /\ p.state = IF observed = {} THEN "gap"
                         ELSE IF available = {} THEN "unavailable" ELSE "observed"
BY DEF PointAt, PointFrom, PointTo

LEMMA StepCountsRows ==
  ASSUME RangeInv, Next, answer' # answer, Answered'
  PROVE  LET r == answer'.series.range
             p == answer'.series.points
             Within(k, second) ==
               {i \in stored : p[k].start - second < recorded[i].at
                               /\ recorded[i].at < p[k].end}
         IN /\ Selected(r) = UNION {RowsOf(r, k) : k \in DOMAIN p}
            /\ \A k \in DOMAIN p :
                 /\ p[k].observedSamples <= Cardinality(Within(k, Second))
                 /\ WholeSeconds(r) =>
                      /\ p[k].observedSamples = Cardinality(Within(k, 1))
                      /\ p[k].availableSamples =
                           Cardinality({i \in Within(k, 1) :
                                          recorded[i].value # None})
<1> DEFINE r == request
<1> DEFINE p == SeriesOf(r).points
<1> DEFINE Within(k, second) ==
             {i \in stored : p[k].start - second < recorded[i].at
                             /\ recorded[i].at < p[k].end}
<1>0. TypeOK
  BY DEF RangeInv
<1>1. request # None /\ answer'.series = SeriesOf(request)
  BY <1>0, AnswersAreSeries
<1>2. GoodRange(r)
  BY <1>0, <1>1 DEF TypeOK, GoodRange
<1>3. answer'.series.range = r /\ answer'.series.points = p
  BY <1>1, PartsOfSeries
<1>4. DOMAIN p = 0 .. PointCount(r) - 1
  BY PartsOfSeries
<1>5. \A k \in DOMAIN p :
        /\ p[k].start = PointFrom(r, k) /\ p[k].end = PointTo(r, k)
        /\ p[k].observedSamples = Cardinality(RowsOf(r, k))
        /\ p[k].availableSamples = Cardinality(WithValue(RowsOf(r, k)))
  <2>1. \A k \in DOMAIN p : p[k] = PointAt(r, k)
    BY <1>4, PartsOfSeries
  <2> HIDE DEF r, p
  <2> QED
    BY <2>1, PartsOfPoint
<1> HIDE DEF r, p
<1>6. Selected(r) = UNION {RowsOf(r, k) : k \in DOMAIN p}
  BY <1>0, <1>2, <1>4, NoRowIsSkipped
<1>7. ASSUME NEW k \in DOMAIN p
      PROVE  /\ p[k].observedSamples <= Cardinality(Within(k, Second))
             /\ WholeSeconds(r) =>
                  /\ p[k].observedSamples = Cardinality(Within(k, 1))
                  /\ p[k].availableSamples =
                       Cardinality({i \in Within(k, 1) : recorded[i].value # None})
  <2>1. RowsOf(r, k) \subseteq Within(k, Second)
    BY <1>0, <1>2, <1>4, <1>5, RowsOfPoint
  <2>2. Cardinality(RowsOf(r, k)) <= Cardinality(Within(k, Second))
    <3>1. IsFiniteSet(Within(k, Second))
      BY <1>0, RowsAreFinite
    <3> QED
      BY <2>1, <3>1, FS_Subset
  <2>3. ASSUME WholeSeconds(r) PROVE RowsOf(r, k) = Within(k, 1)
    <3>1. /\ RowsOf(r, k) \subseteq stored
          /\ \A i \in stored :
               i \in RowsOf(r, k) <=> /\ PointFrom(r, k) <= recorded[i].at
                                     /\ recorded[i].at < PointTo(r, k)
      BY <1>0, <1>2, <1>4, <2>3, RowsOfPoint
    <3>2. PointFrom(r, k) \in Int
      <4>1. BucketDuration(r) \in Nat /\ k \in Nat /\ r.start \in Nat
        BY <1>2, <1>4, BucketIsPositive DEF GoodRange, Ranges
      <4>2. k * BucketDuration(r) \in Nat
        BY <4>1, SMT
      <4> QED
        BY <4>1, <4>2 DEF PointFrom
    <3>3. \A i \in stored : recorded[i].at \in Nat
      BY <1>0, TimesOfRows DEF TypeOK
    <3>4. \A i \in stored : PointFrom(r, k) - 1 < recorded[i].at
                            <=> PointFrom(r, k) <= recorded[i].at
      BY <3>2, <3>3
    <3> QED
      BY <1>5, <3>1, <3>4
  <2> HIDE DEF Within
  <2> QED
    BY <1>5, <2>2, <2>3 DEF WithValue
<1> QED
  BY <1>3, <1>6, <1>7

\* For any range and limits, every selected row is counted in one point, and
\* a chart of whole seconds counts in each point the rows that lie there.
THEOREM EveryRowIsCounted == Spec => EveryRowCounted
<1>1. Init => RangeInv
  BY InitRangeInv
<1>2. RangeInv /\ [Next]_vars => RangeInv'
  BY NextRangeInv
<1>3. RangeInv /\ [Next]_vars =>
        [Answered' =>
           LET r == answer'.series.range
               p == answer'.series.points
               Within(k, second) ==
                 {i \in stored : p[k].start - second < recorded[i].at
                                 /\ recorded[i].at < p[k].end}
           IN /\ Selected(r) = UNION {RowsOf(r, k) : k \in DOMAIN p}
              /\ \A k \in DOMAIN p :
                   /\ p[k].observedSamples <= Cardinality(Within(k, Second))
                   /\ WholeSeconds(r) =>
                        /\ p[k].observedSamples = Cardinality(Within(k, 1))
                        /\ p[k].availableSamples =
                             Cardinality({i \in Within(k, 1) :
                                            recorded[i].value # None})]_answer
  BY StepCountsRows DEF vars
<1> QED
  BY <1>1, <1>2, <1>3, PTL DEF Spec, EveryRowCounted

-----------------------------------------------------------------------------
(* What a gap says.                                                        *)

LEMMA StepShowsGaps ==
  ASSUME RangeInv, Next, answer' # answer, Answered'
  PROVE  LET r == answer'.series.range
             p == answer'.series.points
         IN \A k \in DOMAIN p, i \in DOMAIN recorded :
              /\ WholeSeconds(r) /\ p[k].state = "gap"
              /\ recorded[i].at \in p[k].start .. p[k].end - 1
              => recorded[i].started < now - RetentionDuration
<1> DEFINE r == request
<1> DEFINE p == SeriesOf(r).points
<1>0. TypeOK
  BY DEF RangeInv
<1>1. request # None /\ answer'.series = SeriesOf(request)
  BY <1>0, AnswersAreSeries
<1>2. GoodRange(r)
  BY <1>0, <1>1 DEF TypeOK, GoodRange
<1>3. answer'.series.range = r /\ answer'.series.points = p
  BY <1>1, PartsOfSeries
<1>4. /\ DOMAIN p = 0 .. PointCount(r) - 1
      /\ \A k \in DOMAIN p : p[k] = PointAt(r, k)
  BY PartsOfSeries
<1> HIDE DEF p
<1>5. \A k \in DOMAIN p :
        /\ p[k].start = PointFrom(r, k) /\ p[k].end = PointTo(r, k)
        /\ p[k].state = "gap" => RowsOf(r, k) = {}
  BY <1>4, PartsOfPoint
<1> HIDE DEF r
<1>6. ASSUME NEW k \in DOMAIN p, NEW i \in DOMAIN recorded,
             WholeSeconds(r), p[k].state = "gap",
             recorded[i].at \in p[k].start .. p[k].end - 1
      PROVE  recorded[i].started < now - RetentionDuration
  <2>1. recorded[i].at \in Nat /\ recorded[i].started \in Nat
    BY <1>0, TimesOfRows
  <2>2. i \notin stored
    <3> SUFFICES ASSUME i \in stored PROVE FALSE
      OBVIOUS
    <3>0. r.start \in Nat /\ r.end \in Nat /\ BucketDuration(r) \in Nat /\ k \in Nat
      BY <1>2, <1>4, BucketIsPositive DEF GoodRange, Ranges
    <3>1. PointFrom(r, k) \in Int /\ PointTo(r, k) \in Int
      <4>1. k * BucketDuration(r) \in Nat
        BY <3>0, SMT
      <4> QED
        BY <3>0, <4>1 DEF PointFrom, PointTo
    <3>2. PointFrom(r, k) <= recorded[i].at /\ recorded[i].at < PointTo(r, k)
      BY <1>5, <1>6, <2>1, <3>1
    <3>3. i \in RowsOf(r, k)
      BY <1>0, <1>2, <1>4, <1>6, <3>2, RowsOfPoint
    <3> QED
      BY <1>5, <1>6, <3>3
  <2>3. now - RetentionDuration \in Nat
    BY RangeAssumption DEF RangeInv, TypeOK, ClockOK
  <2>4. recorded[i].started < UnixSecond(now - RetentionDuration)
    BY <2>2 DEF RangeInv, RowsOK
  <2> QED
    BY <2>1, <2>3, <2>4, UnixSecondBounds
<1> QED
  BY <1>3, <1>6

\* Where an answer for whole seconds shows a gap, nothing was recorded by a run
\* that started in the retained range, whatever retention deletes meanwhile and
\* however long after the start of its run a row was observed.
THEOREM GapsTellTheTruth == Spec => GapsAreHonest
<1>1. Init => RangeInv
  BY InitRangeInv
<1>2. RangeInv /\ [Next]_vars => RangeInv'
  BY NextRangeInv
<1>3. RangeInv /\ [Next]_vars =>
        [Answered' =>
           LET r == answer'.series.range
               p == answer'.series.points
           IN \A k \in DOMAIN p, i \in DOMAIN recorded :
                /\ WholeSeconds(r) /\ p[k].state = "gap"
                /\ recorded[i].at \in p[k].start .. p[k].end - 1
                => recorded[i].started < now - RetentionDuration]_answer
  BY StepShowsGaps DEF vars
<1> QED
  BY <1>1, <1>2, <1>3, PTL DEF Spec, GapsAreHonest

-----------------------------------------------------------------------------
(* Why a series is thrown away.                                            *)

\* Only the summary of a point may be refused.
LEMMA PointsAreValid ==
  ASSUME TypeOK, NEW r, GoodRange(r), NEW k \in 0 .. PointCount(r) - 1,
         ~RoundedAway(PointAt(r, k))
  PROVE  ValidPoint(PointAt(r, k), r)
<1> DEFINE p == PointAt(r, k)
<1> DEFINE observed == RowsOf(r, k)
<1> DEFINE available == WithValue(observed)
<1>1. /\ p.start = PointFrom(r, k) /\ p.end = PointTo(r, k)
      /\ p.observedSamples = Cardinality(observed)
      /\ p.availableSamples = Cardinality(available)
      /\ p.summary = Summary(available)
      /\ p.state = IF observed = {} THEN "gap"
                   ELSE IF available = {} THEN "unavailable" ELSE "observed"
  BY PartsOfPoint
<1> HIDE DEF p
<1>2. PointFrom(r, k) < PointTo(r, k)
  BY PointsCover
<1>3. r.start <= PointFrom(r, k) /\ PointTo(r, k) <= r.end
  <2>1. BucketDuration(r) \in Nat /\ k \in Nat /\ r.start \in Nat /\ r.end \in Nat
    BY BucketIsPositive, FewEnoughPoints DEF GoodRange, Ranges
  <2>2. k * BucketDuration(r) \in Nat
    BY <2>1, SMT
  <2> QED
    BY <2>1, <2>2 DEF PointFrom, PointTo
<1>4. available \subseteq observed /\ observed \subseteq stored
  BY DEF WithValue, RowsOf, Selected
<1>5. /\ Cardinality(observed) \in Nat /\ Cardinality(available) \in Nat
      /\ Cardinality(available) <= Cardinality(observed)
      /\ observed = {} <=> Cardinality(observed) = 0
      /\ available = {} <=> Cardinality(available) = 0
  <2>1. /\ IsFiniteSet(observed) /\ Cardinality(observed) \in Nat
        /\ IsFiniteSet(available) /\ Cardinality(available) \in Nat
    BY <1>4, RowsAreFinite
  <2> HIDE DEF observed, available
  <2> QED
    BY <1>4, <2>1, FS_Subset, FS_EmptySet
<1>6. Summary(available) = {} <=> available = {}
  BY DEF Summary
<1> HIDE DEF observed, available
<1>7. \A s \in p.summary : s.minimum <= s.average /\ s.average <= s.maximum
  BY DEF RoundedAway, p
<1>8. /\ p.state = "observed" => p.availableSamples > 0 /\ p.summary # {}
      /\ p.state = "unavailable" =>
           p.observedSamples > 0 /\ p.availableSamples = 0 /\ p.summary = {}
      /\ p.state = "gap" => p.observedSamples = 0 /\ p.summary = {}
      /\ p.state \in {"observed", "unavailable", "gap"}
  <2>1. CASE observed = {}
    <3>1. available = {}
      BY <1>4, <2>1
    <3> QED
      BY <1>1, <1>5, <1>6, <2>1, <3>1
  <2>2. CASE observed # {} /\ available = {}
    BY <1>1, <1>5, <1>6, <2>2
  <2>3. CASE observed # {} /\ available # {}
    BY <1>1, <1>5, <1>6, <2>3
  <2> QED
    BY <2>1, <2>2, <2>3
<1>9. ValidPoint(p, r)
  <2>1. p.start < p.end /\ p.start >= r.start /\ p.end <= r.end
    BY <1>1, <1>2, <1>3
  <2>2. p.availableSamples <= p.observedSamples
    BY <1>1, <1>5
  <2> QED
    BY <1>7, <1>8, <2>1, <2>2 DEF ValidPoint
<1> QED
  BY <1>9 DEF p

LEMMA StepRejects ==
  ASSUME RangeInv, Next, answer' # answer,
         answer = None, answer' # None, answer'.status = "invalid"
  PROVE  \E k \in 0 .. PointCount(request) - 1 : RoundedAway(PointAt(request, k))
<1>0. TypeOK
  BY DEF RangeInv
<1>1. Answer
  BY OnlyAnswerAnswers
<1>2. GoodRange(request)
  BY <1>0, <1>1 DEF Answer, TypeOK, GoodRange
<1>3. PointCount(request) \in 1 .. MaxChartPoints /\ MaxChartPoints \in Nat
  BY <1>2, FewEnoughPoints, RangeAssumption
<1>4. ~ValidSeries(SeriesOf(request))
  <2>1. \/ PointCount(request) > MaxChartPoints
        \/ ~ValidSeries(SeriesOf(request))
    BY <1>1 DEF Answer
  <2> QED
    BY <1>3, <2>1
<1> DEFINE s == SeriesOf(request)
<1>5. /\ s.range = request /\ s.bucket = BucketDuration(request)
      /\ DOMAIN s.points = 0 .. PointCount(request) - 1
      /\ \A k \in 0 .. PointCount(request) - 1 : s.points[k] = PointAt(request, k)
  BY PartsOfSeries
<1> HIDE DEF s
<1>6. Minute <= BucketDuration(request) /\ BucketDuration(request) \in Nat /\ Minute \in Nat
  BY <1>2, BucketHoldsMinute, BucketIsPositive, RangeAssumption
<1>7. Cardinality(DOMAIN s.points) <= MaxChartPoints
  <2>1. Cardinality(0 .. PointCount(request) - 1) = PointCount(request)
    BY <1>3, FS_Interval
  <2> QED
    BY <1>3, <1>5, <2>1
<1>8. PICK k \in 0 .. PointCount(request) - 1 : ~ValidPoint(PointAt(request, k), request)
  <2>1. ~ValidSeries(s)
    BY <1>4 DEF s
  <2> QED
    BY <1>5, <1>6, <1>7, <2>1 DEF ValidSeries
<1> QED
  BY <1>0, <1>2, <1>8, PointsAreValid

\* Whatever the limits, the range and the rows, a series that is thrown away
\* has a point whose average was rounded out of its interval.
THEOREM RejectionsAreRounding == Spec => OnlyRoundingRejects
<1>1. Init => RangeInv
  BY InitRangeInv
<1>2. RangeInv /\ [Next]_vars => RangeInv'
  BY NextRangeInv
<1>3. RangeInv /\ [Next]_vars =>
        [answer = None /\ answer' # None /\ answer'.status = "invalid" =>
           \E k \in 0 .. PointCount(request) - 1 : RoundedAway(PointAt(request, k))]_answer
  BY StepRejects DEF vars
<1> QED
  BY <1>1, <1>2, <1>3, PTL DEF Spec, OnlyRoundingRejects
=============================================================================
