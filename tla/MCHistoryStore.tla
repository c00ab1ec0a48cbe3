--------------------------- MODULE MCHistoryStore ---------------------------
(***************************************************************************)
(* Instances of HistoryStore for TLC.                                      *)
(***************************************************************************)
EXTENDS HistoryRefinement

CONSTANTS fs, ct

OneOfTwoKinds == [r \in {fs, ct} |->
                    IF r = fs THEN "filesystems" ELSE "containers"]

\* Two expiring runs with samples of two resources, both removed since; an
\* event, an ended incident and an active one.
Busy ==
  [runs |-> {[id |-> 1, at |-> -1, with |-> {"host", fs}],
             [id |-> 2, at |-> 0, with |-> {"host", "core", ct}]},
   samples |-> {[run |-> 1, of |-> "host"], [run |-> 1, of |-> fs],
                [run |-> 2, of |-> "host"], [run |-> 2, of |-> "core"],
                [run |-> 2, of |-> ct]},
   resources |-> {[id |-> fs, at |-> 0], [id |-> ct, at |-> 0]},
   events |-> {[id |-> 1, of |-> ct, at |-> 0]},
   incidents |-> {[id |-> 1, at |-> 1], [id |-> 2, at |-> Never]}]

\* No runs yet, the resources are in use, and two events wait.
Quiet ==
  [runs |-> {},
   samples |-> {},
   resources |-> {[id |-> fs, at |-> Never], [id |-> ct, at |-> Never]},
   events |-> {[id |-> 1, of |-> ct, at |-> -1], [id |-> 2, of |-> ct, at |-> 0]},
   incidents |-> {}]

FoundDatabases == {Busy, Quiet}
=============================================================================
