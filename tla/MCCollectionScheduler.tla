----------------------- MODULE MCCollectionScheduler -----------------------
(***************************************************************************)
(* Instances of CollectionScheduler for TLC.                               *)
(***************************************************************************)
EXTENDS CollectionRefinement, TLC

CONSTANTS l1, l2, t1, t2

OneLoop == {l1}
TwoLoops == {l1, l2}
OneTrigger == {t1}
NoCallers == {}

Success == [status |-> "succeeded", code |-> "none"]
PartialResult == [status |-> "partial", code |-> "provider_error"]
Malformed == [status |-> "failed", code |-> "none"]

OnlyPartial == {PartialResult}
OnlyMalformed == {Malformed}
OnlySuccess == {Success}

LoopSymmetry == Permutations(TwoLoops)
=============================================================================
