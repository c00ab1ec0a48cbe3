--------------------------- MODULE MCDatabaseOpen ---------------------------
(****************************************************************************)
(* An instance of DatabaseOpen for TLC: two goroutines and two spellings,   *)
(* the two releases of the history schema, and a file that is missing, that *)
(* a crash left empty, that is of either kind, or a restored copy that is   *)
(* not in WAL mode.                                                         *)
(****************************************************************************)
EXTENDS DatabaseOpen

CONSTANTS a, b, direct, linked

TwoOpeners == {a, b}
TwoNames == {direct, linked}
TwoVersions == {1, 2}
Embedded == [v \in TwoVersions |-> [history |-> v, audit |-> 1]]

Blank == [exists |-> TRUE, version |-> NoTable, row |-> None, wal |-> FALSE]
Holding(k, v, w) ==
  [exists |-> TRUE, version |-> v, row |-> [kind |-> k, version |-> v], wal |-> w]

SomeFiles ==
  {Blank, [Blank EXCEPT !.exists = FALSE], Holding("history", 1, FALSE),
   Holding("history", 2, TRUE), Holding("audit", 1, TRUE)}
=============================================================================
