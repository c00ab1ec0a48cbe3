---------------------------- MODULE MCHistoryRange ----------------------------
(***************************************************************************)
(* Instances of HistoryRange for TLC.                                      *)
(***************************************************************************)
EXTENDS HistoryRange

CONSTANTS MaxPast  \* bound: how many rows the program finds when it starts

\* Any rows of the last seconds before Start, in the order of their times,
\* from a second before the retained range on.
Past == {t \in Start - RetentionDuration - Second .. Start :
           t = UnixSecond(t)}

PastRows == [started : Past, at : Past, value : Readings]

\* Bounds: the metric was available, and a run took a second at most.
AnyHistory ==
  UNION {{h \in [1 .. n -> PastRows] :
            InOrder(h) /\ \A i \in 1 .. n : h[i].at <= h[i].started + Second}
           : n \in 0 .. MaxPast}

\* A host whose reading does not change, sampled once a minute.
Steady(v) ==
  [i \in 1 .. RetentionDuration \div Minute - 1 |->
     [started |-> Start - RetentionDuration + i * Minute,
      at |-> Start - RetentionDuration + i * Minute, value |-> v]]

SteadyHistories == {Steady(v) : v \in Readings}
=============================================================================
