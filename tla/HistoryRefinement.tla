-------------------------- MODULE HistoryRefinement --------------------------
(***************************************************************************)
(* The history store implements HistoryTables.                             *)
(***************************************************************************)
EXTENDS HistoryStore

Tables == INSTANCE HistoryTables WITH tables <- db

\* Recorder and retention worker, however their statements interleave, fail,
\* are cancelled or die with the process, change what is committed by one
\* whole run or one whole batch at a time: neither commits a part of its work,
\* work of the other, or what the other has deleted in the meantime.  A batch
\* is whole when, for one cutoff, it has taken of each of the six tables the
\* oldest expired rows, as many as its LIMIT or all (docs/history.md: "One
\* cleanup batch transaction removes bounded groups").
ImplementsTables == Tables!Spec
=============================================================================
