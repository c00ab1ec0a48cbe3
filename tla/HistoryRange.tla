----------------------------- MODULE HistoryRange -----------------------------
(*****************************************************************************)
(* A history request: the selected range is resolved against the clock       *)
(* (storage/history/range.go), the rows of the metric are read and put into  *)
(* chart points (storage/history/query.go), and the series is validated      *)
(* before it is sent (api/contracts/cpu.go and memory.go, called by          *)
(* app/cpu_source.go and memory_source.go).  Meanwhile time passes, samples  *)
(* are recorded and the retention worker deletes expired ones.               *)
(*                                                                           *)
(* Times are integers, in ticks finer than a second: rows keep whole         *)
(* seconds, custom boundaries and the clock do not.  A reading is a float64  *)
(* cut down to FloatBits of significand, an integer with that many bits; the *)
(* sums and averages of readings are rounded to it, to nearest, ties to      *)
(* even, as IEEE 754 does.                                                   *)
(*                                                                           *)
(* A row is one sample of the metric asked for.  It has two times: queries   *)
(* go by the second in which it was observed, retention by the second in     *)
(* which its run started.  Runs do not overlap and the clock does not go     *)
(* back, so rows are in the order of both.  One client is enough: a request  *)
(* reads and changes nothing.                                                *)
(*****************************************************************************)
EXTENDS Integers, Sequences, FiniteSets, SequencesExt

CONSTANTS
  Second, Minute,     \* in ticks
  RetentionDuration,
  RawRangeLimit,
  MaxChartPoints,
  MaxRows,            \* MaxMetricSamplesPerQuery
  PresetDurations,    \* the values of presetDurations
  FloatBits,          \* the bits of a significand
  Readings,           \* the values a metric may have
  None,               \* NULL: the metric was unavailable
  Histories,          \* the rows there may be when the program starts
  Start,              \* bound: the first and the last tick of the clock
  Horizon,
  MaxRuns             \* bound: how many rows there are

\* observed_at_unix of a sample, and started_at_unix of its run
Row == [started : Nat, at : Nat, value : Readings \cup {None}]

\* Rows as collections leave them: whole seconds, observed within their run,
\* no run before the end of another.
InOrder(rows) ==
  /\ \A i \in DOMAIN rows :
       /\ rows[i].started % Second = 0 /\ rows[i].at % Second = 0
       /\ rows[i].started <= rows[i].at
  /\ \A i, j \in DOMAIN rows : i < j => rows[i].at <= rows[j].started

ASSUME RangeAssumption ==
  /\ Second \in Nat \ {0} /\ Minute \in Nat \ {0} /\ Minute % Second = 0
  /\ MaxChartPoints \in Nat \ {0} /\ MaxRows \in Nat /\ FloatBits \in Nat \ {0}
  /\ RawRangeLimit \in Nat \ {0} /\ RawRangeLimit <= MaxChartPoints * Minute
  /\ RetentionDuration \in Nat \ {0}
  /\ \A d \in PresetDurations :
       d \in 1 .. RetentionDuration /\ d % Minute = 0
  /\ Readings \subseteq Nat \ {0} /\ None \notin Nat
  /\ Start \in Nat /\ Horizon \in Nat /\ RetentionDuration <= Start
  /\ MaxRuns \in Nat /\ Histories \subseteq Seq(Row)
  /\ \A h \in Histories :
       InOrder(h) /\ \A i \in DOMAIN h : h[i].at <= Start

\* A reading has FloatBits bits, so that an average of readings lies where the
\* floats are whole numbers.
ASSUME FloatAssumption == Readings \subseteq 2^(FloatBits - 1) .. 2^FloatBits - 1

VARIABLES
  now,         \* the clock
  collecting,  \* the second in which the current run started, or None
  recorded,    \* every row recorded so far
  stored,      \* the rows that are still in the database
  request,     \* the resolved range of the request being served, or None
  answer       \* what the last request was answered, or None

vars == <<now, collecting, recorded, stored, request, answer>>

-----------------------------------------------------------------------------
\* time.Time.Unix, in ticks, and Truncate(time.Minute)
UnixSecond(t) == (t \div Second) * Second
ThisMinute(t) == (t \div Minute) * Minute

DivideUp(n, d) == (n + d - 1) \div d

\* Go's integer division
Quotient(n, d) == IF n < 0 THEN -((-n) \div d) ELSE n \div d

\* ResolveRange: a custom range is taken as it is, a preset ends with the
\* current minute.  Refused keeps the selections that ResolveRange refuses.
Refused(s) == s.end > now \/ s.start < now - RetentionDuration

CustomRange(s) == [preset |-> FALSE, start |-> s.start, end |-> s.end]

PresetRange(d) ==
  LET end == ThisMinute(now) + Minute
  IN [preset |-> TRUE, start |-> end - d, end |-> end]

Ranges == [preset : BOOLEAN, start : Nat, end : Nat]

Duration(r) == r.end - r.start

BucketDuration(r) ==
  IF Duration(r) <= RawRangeLimit
  THEN Minute
  ELSE DivideUp(DivideUp(Duration(r), Minute), MaxChartPoints) * Minute

\* Mutant: a last bucket that is cut off gets no point.
PointCountDown(r) == Duration(r) \div BucketDuration(r)

PointCount(r) == DivideUp(Duration(r), BucketDuration(r))

-----------------------------------------------------------------------------
(* Floats with FloatBits of significand.                                   *)

\* The distance of floats near n / d
Ulp(n, d) ==
  CHOOSE u \in {2^k : k \in 0 .. FloatBits} :
    /\ n < d * u * 2^FloatBits
    /\ u = 1 \/ n >= d * u * 2^(FloatBits - 1)

\* n / d rounded to the nearest float, and to the even one of two
Rounded(n, d) ==
  LET step == d * Ulp(n, d)
      down == n \div step
      rest == 2 * (n % step)
  IN Ulp(n, d) * (IF rest > step \/ (rest = step /\ down % 2 = 1)
                  THEN down + 1 ELSE down)

FloatSum(values) == FoldLeft(LAMBDA sum, v : Rounded(sum + v, 1), 0, values)

Least(values) == CHOOSE v \in values : \A w \in values : v <= w
Greatest(values) == CHOOSE v \in values : \A w \in values : v >= w

-----------------------------------------------------------------------------
\* Mutant: the end belongs to the range.
SelectedInclusive(r) ==
  {i \in stored : /\ recorded[i].at >= UnixSecond(r.start)
                  /\ recorded[i].at <= UnixSecond(r.end)}

\* QueryMetricSamples: the boundaries are compared as whole seconds
Selected(r) ==
  {i \in stored : /\ recorded[i].at >= UnixSecond(r.start)
                  /\ recorded[i].at < UnixSecond(r.end)}

\* QueryMetricSeries: the position of a row
PointOf(r, i) == Quotient(recorded[i].at - r.start, BucketDuration(r))

RowsOf(r, k) == {i \in Selected(r) : PointOf(r, i) = k}

\* Of these, the rows with a value
WithValue(rows) == {i \in rows : recorded[i].value # None}

\* What is added up, in the order of the rows
ValuesOf(rows) ==
  LET ids == SelectSeq([i \in DOMAIN recorded |-> i], LAMBDA i : i \in rows)
  IN [j \in DOMAIN ids |-> recorded[ids[j]].value]

\* Minimum, Average and Maximum, which are nil without a value: at most one
\* summary.
Summary(rows) ==
  LET values == {recorded[i].value : i \in rows}
  IN IF rows = {}
     THEN {}
     ELSE {[minimum |-> Least(values),
            average |-> Rounded(FloatSum(ValuesOf(rows)), Cardinality(rows)),
            maximum |-> Greatest(values)]}

\* Mutant: the last point is not cut off at the end of the range.
PointAtUnclipped(r, k) ==
  LET observed == RowsOf(r, k)
      available == WithValue(observed)
  IN [start |-> r.start + k * BucketDuration(r),
      end |-> r.start + (k + 1) * BucketDuration(r),
      observedSamples |-> Cardinality(observed),
      availableSamples |-> Cardinality(available),
      summary |-> Summary(available),
      state |-> CASE observed = {} -> "gap"
                  [] observed # {} /\ available = {} -> "unavailable"
                  [] OTHER -> "observed"]

PointAt(r, k) ==
  LET from == r.start + k * BucketDuration(r)
      to == from + BucketDuration(r)
      observed == RowsOf(r, k)
      available == WithValue(observed)
  IN [start |-> from,
      end |-> IF to > r.end THEN r.end ELSE to,
      observedSamples |-> Cardinality(observed),
      availableSamples |-> Cardinality(available),
      summary |-> Summary(available),
      state |-> CASE observed = {} -> "gap"
                  [] observed # {} /\ available = {} -> "unavailable"
                  [] OTHER -> "observed"]

SeriesOf(r) ==
  [range |-> r, bucket |-> BucketDuration(r),
   points |-> [k \in 0 .. PointCount(r) - 1 |-> PointAt(r, k)]]

\* CPUHistoryPoint.validate and MemoryHistoryPoint.validate
ValidPoint(p, r) ==
  /\ p.start < p.end /\ p.start >= r.start /\ p.end <= r.end
  /\ p.availableSamples <= p.observedSamples
  /\ CASE p.state = "observed" -> p.availableSamples > 0 /\ p.summary # {}
       [] p.state = "unavailable" ->
            p.observedSamples > 0 /\ p.availableSamples = 0 /\ p.summary = {}
       [] p.state = "gap" -> p.observedSamples = 0 /\ p.summary = {}
  /\ \A s \in p.summary : s.minimum <= s.average /\ s.average <= s.maximum

\* CPUHistorySeries.Validate and MemoryHistorySeries.Validate
ValidSeries(s) ==
  /\ s.bucket >= Minute
  /\ Cardinality(DOMAIN s.points) <= MaxChartPoints
  /\ \A k \in DOMAIN s.points : ValidPoint(s.points[k], s.range)

-----------------------------------------------------------------------------
Init ==
  /\ now = Start
  /\ collecting = None
  /\ recorded \in Histories
  /\ stored = DOMAIN recorded
  /\ request = None
  /\ answer = None

Tick ==
  /\ now < Horizon
  /\ now' = now + 1
  /\ UNCHANGED <<collecting, recorded, stored, request, answer>>

StartRun ==
  /\ collecting = None /\ Len(recorded) < MaxRuns
  /\ collecting' = UnixSecond(now)
  /\ UNCHANGED <<now, recorded, stored, request, answer>>

\* The seconds in which the current run may have observed its sample
\* (validateSampleTime refuses any other).
InRun == {t \in collecting .. now : t = UnixSecond(t)}

\* The run commits its sample when it is over, later than it was observed.
RecordSample(observed, value) ==
  /\ collecting # None /\ observed \in InRun
  /\ collecting' = None
  /\ recorded' = Append(recorded, [started |-> collecting, at |-> observed,
                                  value |-> value])
  /\ stored' = stored \cup {Len(recorded) + 1}
  /\ UNCHANGED <<now, request, answer>>

\* The host was not read, the record was not accepted, or the program died.
RecordNothing ==
  /\ collecting # None
  /\ collecting' = None
  /\ UNCHANGED <<now, recorded, stored, request, answer>>

\* Mutant: a run that started on the cutoff goes too.
CleanupExpiredEarly(i) ==
  /\ i \in stored
  /\ recorded[i].started <= UnixSecond(now - RetentionDuration)
  /\ stored' = stored \ 1 .. i
  /\ UNCHANGED <<now, collecting, recorded, request, answer>>

\* The retention worker commits a batch, of the oldest runs first.  A sample
\* goes with its run, whenever it was observed itself.
CleanupExpired(i) ==
  /\ i \in stored
  /\ recorded[i].started < UnixSecond(now - RetentionDuration)
  /\ stored' = stored \ 1 .. i
  /\ UNCHANGED <<now, collecting, recorded, request, answer>>

Idle == request = None /\ answer = None

Refuse(s) ==
  /\ Idle /\ Refused(s)
  /\ answer' = [status |-> "refused"]
  /\ UNCHANGED <<now, collecting, recorded, stored, request>>

AskCustom(s) ==
  /\ Idle /\ ~Refused(s)
  /\ request' = CustomRange(s)
  /\ UNCHANGED <<now, collecting, recorded, stored, answer>>

AskPreset(d) ==
  /\ Idle
  /\ request' = PresetRange(d)
  /\ UNCHANGED <<now, collecting, recorded, stored, answer>>

\* CPUHistory and MemoryHistory after ResolveRange
Answer ==
  /\ request # None
  /\ request' = None
  /\ answer' =
       IF Cardinality(Selected(request)) > MaxRows
       THEN [status |-> "limited"]
       ELSE IF \/ /\ PointCount(request) > MaxChartPoints
                  /\ BucketDuration(request) > Minute
               \/ ~ValidSeries(SeriesOf(request))
       THEN [status |-> "invalid"]
       ELSE [status |-> "ok", series |-> SeriesOf(request)]
  /\ UNCHANGED <<now, collecting, recorded, stored>>

\* The client has its answer.
Done ==
  /\ answer # None
  /\ answer' = None
  /\ UNCHANGED <<now, collecting, recorded, stored, request>>

\* Custom selections that RangeSelection.Validate accepts.  Bound: boundaries
\* are tried from before the retained range to after now.
Boundaries == now - RetentionDuration - 1 .. now + 1
Selections == {s \in [start : Boundaries, end : Boundaries] : s.start < s.end}

Next ==
  \/ Tick
  \/ StartRun
  \/ \E t \in 0 .. now, v \in Readings \cup {None} : RecordSample(t, v)
  \/ RecordNothing
  \/ \E i \in stored : CleanupExpired(i)
  \/ \E s \in Selections : Refuse(s) \/ AskCustom(s)
  \/ \E d \in PresetDurations : AskPreset(d)
  \/ Answer
  \/ Done

Spec == Init /\ [][Next]_vars

-----------------------------------------------------------------------------
Answered == answer # None /\ answer.status = "ok"

(***************************************************************************)
(* The type invariant: the rows are in order, and an answer is one of the  *)
(* handler's, its series with one point for every position.                *)
(***************************************************************************)
TypeOK ==
  /\ now \in Nat /\ collecting \in Nat \cup {None}
  /\ recorded \in Seq(Row) /\ stored \subseteq DOMAIN recorded
  /\ request \in Ranges \cup {None}
  /\ request # None => request.start < request.end
  /\ Answered => /\ answer.series.range \in Ranges
                 /\ answer.series.range.start < answer.series.range.end

(****************************************************************************)
(* docs/history.md: "Longer ranges choose the smallest whole-minute bucket  *)
(* that produces at most 600 chart positions."  The points of an answer are *)
(* not too many, they follow each other from the start of its range to the  *)
(* end with nothing left out and none empty, and with a minute less a       *)
(* bucket of a long range there would be too many.  The limit that          *)
(* QueryMetricSeries checks again is never reached.                         *)
(****************************************************************************)
ChartFits ==
  Answered =>
    LET r == answer.series.range
        p == answer.series.points
        b == answer.series.bucket
        last == PointCount(r) - 1
    IN /\ DOMAIN p = 0 .. last /\ last \in 0 .. MaxChartPoints - 1
       /\ p[0].start = r.start /\ p[last].end = r.end
       /\ \A k \in 0 .. last : p[k].start < p[k].end
       /\ \A k \in 1 .. last : p[k].start = p[k-1].end
       /\ \A k \in 0 .. last - 1 : p[k].end - p[k].start = b
       /\ Duration(r) > RawRangeLimit =>
            MaxChartPoints * (b - Minute) < Duration(r)

\* Boundaries that rows can be compared with: a whole second each.
WholeSeconds(r) == r.start = UnixSecond(r.start) /\ r.end = UnixSecond(r.end)

(***************************************************************************)
(* QueryMetricSeries skips a row outside the points without a word.  None  *)
(* is skipped or counted twice: in an answer for whole seconds each point  *)
(* counts the rows within its own interval, and each with a reading too.   *)
(* With other boundaries what the answer counts may reach into the second  *)
(* before each, but it still counts every row that was selected.           *)
(***************************************************************************)
EveryRowCounted ==
  [][Answered' =>
       LET r == answer'.series.range
           p == answer'.series.points
           Within(k, second) ==
             {i \in stored : p[k].start - second < recorded[i].at
                             /\ recorded[i].at < p[k].end}
       IN /\ Selected(r) = UNION {RowsOf(r, k) : k \in DOMAIN p}
          /\ \A k \in DOMAIN p :
               /\ p[k].observedSamples <= Cardinality(Within(k, Second))
               /\ WholeSeconds(r) =>
                    /\ p[k].observedSamples = Cardinality(Within(k, 1))
                    /\ p[k].availableSamples =
                         Cardinality({i \in Within(k, 1) :
                                        recorded[i].value # None})]_answer

(****************************************************************************)
(* docs/history.md: a gap means "no collection evidence exists in that      *)
(* position".  The range was resolved before the rows are read, and the     *)
(* retention worker may delete in between; still, where an answer for whole *)
(* seconds shows a gap, a row that was ever recorded there belonged to an   *)
(* expired run, one that started before the retained range.  The row itself *)
(* may have been observed within it, as long after as a run can take.       *)
(****************************************************************************)
GapsAreHonest ==
  [][Answered' =>
       LET r == answer'.series.range
           p == answer'.series.points
       IN \A k \in DOMAIN p, i \in DOMAIN recorded :
            /\ WholeSeconds(r) /\ p[k].state = "gap"
            /\ recorded[i].at \in p[k].start .. p[k].end - 1
            => recorded[i].started < now - RetentionDuration]_answer

\* A point whose average is not between its minimum and maximum.
RoundedAway(p) ==
  \E s \in p.summary : ~(s.minimum <= s.average /\ s.average <= s.maximum)

(****************************************************************************)
(* A series is thrown away for one reason only: an average that rounding    *)
(* has put outside the values it is of.  Whatever the range, the limits and *)
(* the rows, no other check of CPUHistorySeries.Validate fails.             *)
(****************************************************************************)
OnlyRoundingRejects ==
  [][answer = None /\ answer' # None /\ answer'.status = "invalid" =>
       \E k \in 0 .. PointCount(request) - 1 : RoundedAway(PointAt(request, k))]_answer

(*****************************************************************************)
(* docs/history.md: "Every bucket reports minimum, average, and maximum      *)
(* across its available samples", and validateSummaryValues asserts          *)
(* "minimum <= average <= maximum".  So an answer may be refused or limited, *)
(* never thrown away because its own series is not valid.                    *)
(*****************************************************************************)
SeriesAreValid == answer # None => answer.status # "invalid"
=============================================================================
